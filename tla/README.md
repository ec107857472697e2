# TLA+ models of CourtListener

CourtListener is a Django site with PostgreSQL, Redis, Elasticsearch and a fleet
of celery workers and long-running management commands. Most of its code answers
requests, parses court data or renders pages. The code that is hard to test is
where several of its processes share a table or a handful of Redis keys, retry,
expire and die. This directory models that code in TLA+, checks it with TLC and
proves the main safety properties with TLAPS.

All paths below are relative to `src/cl/` unless they end in `.tla` or `.cfg`.

1. Inventory
2. Modules, and how they correspond to the code
3. What is checked
4. What is proved
5. What the models leave out
6. Plan

## 1. Inventory

### Webhook delivery (modelled)

* **State.** `Webhook` (`enabled`, `failure_count`) and `WebhookEvent`
  (`event_status`, `retry_counter`, `next_retry_date`, `date_created`, `debug`) in
  `api/models.py`.
* **Operations.** A celery task creates an event and POSTs it once
  (`api/tasks.py`, `api/webhooks.py`). After every POST
  `update_webhook_event_after_request` (`api/utils.py`) settles the event or
  queues it with an exponential delay, counts the failure, mails the owner at
  some of the retries, and after the last one switches the webhook off and parks
  its waiting events. Every minute a daemon
  (`api/management/commands/cl_retry_webhooks.py`) fails events past a cut-off,
  restores the counters of parked events whose webhook is on again, and re-sends
  what is due. Once a day it deletes old rows. The owner edits the webhook and
  sends test events (`users/api_views.py`).
* **Interaction.** All through the two tables. Tasks and views autocommit; a
  daemon round is one transaction with row locks, open while it POSTs.
* **Hard.** Deaths between POST and record; mails sent from a transaction that
  rolls back; rows changed between the statements of a round; one event's failure
  changing the rows of others in the batch being sent; an edit that writes back
  every column.
* **Correct when.** Acknowledged events are re-sent only because of a death;
  every event gets a verdict, verdicts are final and truthful; a webhook is
  switched off only by an event that used up its retries; test events stay apart.

### Iquery probing and sweeps (modelled)

* **State.** Redis keys per court: highest known and current case id, the sweep
  lock, the probing semaphore, the wait key, the two attempt counters.
* **Operations.** A daemon
  (`corpus_importer/management/commands/probe_iquery_pages_daemon.py`) enqueues at
  most one probe task per court. The task (`probe_or_scrape_iquery_pages` in
  `corpus_importer/tasks.py`) queries ids above the highest known one in growing
  steps until it meets a blank after a hit, or reaches the limit. Saving the
  docket of the last hit starts a sweep (`corpus_importer/signals.py`): under the
  lock, one download task per id skipped is scheduled and both marks are raised.
  Uploads of dockets start sweeps as well. A court that is far behind is swept in
  fixed strides instead.
* **Interaction.** Redis keys with TTLs: a semaphore taken by the daemon and
  given back by the task, a lock taken by any process that saves a docket.
* **Hard.** The lock and the semaphore expire on their own; a worker can die
  between the writes of the two marks; uploads race with probes; timeouts, HTTP
  errors and failed saves end a probe at different places; steps, jitter and
  limit must fit together.
* **Correct when.** No id below the mark stays unscheduled, none is scheduled
  twice without need, marks do not fall, probing of a court never stops for good,
  and what a probe finds is accepted by the sweep.

### Email delivery and bounces (modelled)

* **State.** `EmailFlag` (backoff with counter and date, ban), `EmailSent`,
  `FailedEmail` (ENQUEUED, WAITING, ENQUEUED_DELIVERY, IN_PROGRESS, SUCCESSFUL;
  one ENQUEUED row per recipient) in `users/models.py`; the counters of the
  emergency brake in Redis.
* **Operations.** Bounce notifications raise, restart or end a backoff and
  enqueue the bounced message (`users/email_handlers.py`); the sending backend
  enqueues messages to an address that backs off (`lib/email_backends.py`); a cron
  command declares addresses deliverable and re-sends
  (`users/management/commands/cl_retry_failed_email.py`); another deletes stored
  messages (`cl_delete_old_emails.py`).
* **Hard.** Duplicate and late notifications, re-sending inside a transaction,
  backoff windows that meet, one row that probes an address for all others.
* **Correct when.** At most one message probes an address that backs off, no
  message is lost or left waiting for ever, none is sent twice without a reason,
  and a ban follows the whole series of retries.

### RSS feeds (modelled)

* **State.** `RssFeedStatus` rows of a court, a Redis key per item seen.
* **Operations.** A daemon (`recap_rss/management/commands/scrape_rss.py`) starts a
  chain of tasks per visit (`recap_rss/tasks.py`): look whether the feed changed,
  claim each item and merge it in a transaction of its own, send alerts, mark the
  row.
* **Hard.** Claim before commit, a retry that goes through the whole feed again,
  messages that expire in the queue, chains that are taken for lost.
* **Correct when.** Chains overlap only when one is late, an item is merged at
  most once, and every item of a feed is merged in the end.

### Docket alerts (modelled)

* **State.** A semaphore in Redis per docket with an alert under way; docket
  entries with `date_created`; alert tasks in the queue.
* **Operations.** Feeds, uploads and recap.email notifications
  (`recap_rss/tasks.py`, `recap/tasks.py`) merge entries and order an alert unless
  the semaphore is up. The alert (`alerts/tasks.py`) collects the entries since its
  start time, mails, and takes the semaphore down.
* **Hard.** Entries that arrive while an alert is sent; a semaphore that is read
  and then set; alerts of a feed that fail together.
* **Correct when.** Every entry is in some alert, alerts of a docket do not run
  side by side, a failure does not mute a docket, and the user of a notification
  is told.

### Redis throttles (partly modelled)

`throttle_task` in `lib/celery_utils.py`: a counter and a schedule with TTLs, read
and written in several calls by concurrent workers. Correct when a window lets at
most its rate through and every delayed task finally runs. `CeleryThrottle` in the
same file polls the length of a queue in one process; `lib/ratelimiter.py` wraps
django-ratelimit. Neither is modelled.

### Pray and pay (modelled), RECAP upload and fetch queues (partly)

* **State.** `Prayer` (WAITING, GRANTED) and `PrayerAvailability`
  (`favorites/models.py`); `is_available` and `is_sealed` of the document.
* **Operations.** Users ask for documents nobody has bought, within a daily quota,
  on the website or through the API. A task asks PACER whether the document is for
  sale (`favorites/tasks.py`). When it is bought (`fetch_pacer_doc_by_rd`) or
  uploaded (`process_recap_pdf` in `recap/tasks.py`), a signal grants the prayers
  and mails (`favorites/utils.py`).
* **Interaction.** Every process reads the document, does something slow and saves
  all its columns. A purchase is one transaction, mails included; an upload
  commits each statement.
* **Hard.** Documents that arrive while somebody holds an older copy; rollbacks
  after a mail; deaths between save, grant and mail.
* **Correct when.** Nobody waits for a document that is here, who is told has it
  granted and the other way round, and a document that is here stays so.

### Others (not modelled)

| component | where | why not (yet) |
|---|---|---|
| SCOTUS probing | `probe_scotus_dockets_daemon.py` | the iquery helpers in a single process; a variant of IqueryProbe, later |
| LLM batches | `ai/` | a status machine around an external service; later candidate |
| PACER downloads | `corpus_importer/tasks.py` | I/O, parsing, login cookies; the probe task in this file is modelled with the iquery component, the throttle of the others in TaskThrottle |
| Search index, search alerts | `search/`, `lib/es_signal_processor.py`, `alerts/management/` | field mappings, queries, rendering |
| Importers, scrapers, citations | `scrapers/`, `citations/`, `corpus_importer/` | parsing and merging of data |
| Donations, people, disclosures, visualisations, pages, API views, assets | the other directories | requests and rendering without a protocol of their own |

## 2. Modules

| module | what it is |
|---|---|
| `EventDelivery.tla` | abstract specification: what the owner of a webhook is promised about an event |
| `WebhookDelivery.tla` | tables, tasks, daemon, settings form, and their properties; implements `EventDelivery` |
| `MCWebhookDelivery.tla`, `MCWebhookTimetable.tla`, `MCWebhook*.cfg` | instances for TLC; the second module has the timetable of the real settings |
| `WebhookDelivery_proofs.tla` | theorems |
| `CaseSweep.tla` | abstract specification: what the sweeps of a court promise about the ids they schedule |
| `IqueryProbe.tla` | daemon, probe task, sweep, expiring keys, and their properties; its sweeps implement `CaseSweep` |
| `MCIqueryProbe.tla`, `MCIquery*.cfg` | instances for TLC |
| `IqueryProbe_proofs.tla` | theorems |
| `EmailBackoff.tla` | sending backend, bounce handlers, retry command, deletion, and their properties |
| `RssFeed.tla` | the daemon and the chains of tasks of one court, and their properties |
| `DocketAlerts.tla` | sources of docket entries, semaphores and alerts, and their properties |
| `TaskThrottle.tla` | the calls of a throttled task to Redis, and their properties |
| `PrayAndPay.tla` | requests, availability checks, purchases and uploads, and their properties |
| `EmailBackoff_proofs.tla`, `EmailCopies_proofs.tla` | theorems about rows and flags, and about the copies of a message |
| other `MC*.tla`, `MC*.cfg`, `*_proofs.tla` | instances for TLC, theorems |

A definition that begins with `\* (mutant)` is a plausible mistake in the
definition after it. It is used by no specification; for every checked property
there is one that TLC finds to break it, so no property holds by accident.

### WebhookDelivery

*Two copies of the tables.* `disk` is what is committed, `db` what the daemon's
transaction sees. A write by a task or the form (`Autocommit`) goes to both, a
write by the daemon to `db`; `Commit` copies `db` to `disk`, `Abort` the other way.
That is READ COMMITTED, the isolation level PostgreSQL and Django default to, as
far as the code can tell: the daemon sees what others commit between its
statements, the others see nothing of an open round. The third statement of a
round holds FOR UPDATE locks on its events and their webhooks (`locked`); the
INSERT of an event, the failure count and the form's save wait for them.

| code | actions |
|---|---|
| the `send_*_webhook*` tasks | `StartTask`, `CreateEvent` |
| `send_webhook_event` and `update_webhook_event_after_request` in a task | `PostAnswered`/`PostFailed`, `RecordSuccess`, `ReadWebhook`, `CountFirstFailure`, `RecordFailure`, `TaskDies` |
| `retry_webhook_events` | `FailOverdue`, `RestoreCounters`, `SelectBatch`, then `RetryAnswered`/`RetryFailed` per row, `Commit`; `DaemonDies`, `RetryRaises` |
| `delete_old_webhook_events` | `DeleteOld` |
| `WebhooksViewSet.update` | `OpenForm`, `SaveForm` |
| time | `Tick` |

`check_webhook_failure_count`, `SaveFailure`, `Disable` and their neighbours are
functions from tables to tables, so a task and the daemon use the same ones. In a
round a POST and its bookkeeping are one action: nobody else can write these
rows, and what others see is decided by `Commit` and `Abort` alone.

Modelling decisions worth knowing:

* `next_retry_date` is kept relative to now, one tick a minute, with a floor;
  NULL and 0 are not told apart because no query selects a row that never failed.
* `age` stops counting just past the cut-off, and `DeleteOld` may delete any row
  that old: 90 days are far beyond it.
* `date_created` is taken before the INSERT is sent, so rows may appear out of
  the order of their dates (`born` is set by `StartTask`).
* A tick never falls between the three statements that open a round. They take
  milliseconds; `now()` is evaluated once per statement.
* The first and second statements lock rows too, but only for the duration of
  statements nobody waits long for; only the third one's locks are kept in `locked`.
* A test event (`DebugEvents`) skips the check of `enabled`, as its view does.

### IqueryProbe

Courts share no key, so there is one court; its ids are `1..filed` and `FileCase`
assigns the next. `Sealed` ids have no page. Each Redis call that another process
can interfere with is an action of its own.

| code | actions |
|---|---|
| `Command.handle`, `enqueue_iquery_probe` | `CheckWait`, `FindSemaphore`, `EnqueueProbe` |
| `probe_or_scrape_iquery_pages`, up to the end of its loop | `StartProbe`, `QueryHit`, `QueryBlank`, `QueryTimesOut`, `QueryFails`, `QueryBlocked` |
| the same, after the loop | `DecideFixedSweep`, `SaveReports`, `SaveFails`, `EmptyProbe`, `FinishProbe` |
| `handle_update_latest_case_id_and_schedule_iquery_sweep` | `Upload` |
| `update_latest_case_id_and_schedule_iquery_sweep` | `AcquireLock`, `ReadHighest`, `ReadCurrent`, `RaiseHighest`, `ScheduleNext`, `StoreCurrent`, `ReleaseLock` |
| TTLs, a killed worker or an exception nobody catches | `LockExpires`, `SemaphoreExpires`, `WaitExpires`, `Die` |

Modelling decisions worth knowing:

* `create_redis_semaphore` reads and then sets. It is one step here because a
  single daemon asks for this semaphore.
* Dockets of intermediate hits are saved with `skip_iquery_sweep` and have no
  effect on the keys, so `SaveReports` stands for the loop over all of them.
* A save that only succeeds at its second attempt, and a second save of the same
  docket in one task, run the signal again: `Upload` covers both. With
  `IQUERY_SWEEP_UPLOADS_SIGNAL_ENABLED` off there are no uploads (`MaxUploads = 0`).
* The daemon read `latest_case_ids` once when it started: `LATEST_KNOWN` is a
  constant.
* A task lost between the semaphore and the worker is a `Die` in stand "queued".
* `jitter` is drawn from all the values `compute_binary_probe_jitter` can return.

### EmailBackoff

Again `disk` is what is committed and `db` what the open transaction, here that of
the command, sees. A message keeps its identity when it is sent again as another
`EmailSent` row (a *copy*), because that is what a user gets twice or not at all.

| code | actions |
|---|---|
| `EmailBackend.send_messages` | `CheckBans`, `CheckBackoff`, `ReadDate`, `InsertRow`, `Deliver`, `SendRaises` |
| `handle_soft_bounce` | `SoftBounce`: one of `StartBackoff`, `RestartBackoff`, `IgnoreBounce`, `ExtendBackoff`, `BanAfterRetries`, then `Enqueue` |
| `handle_hard_bounce`, `handle_complaint` | `BanAddress` |
| `enqueue_email` | `Enqueue`; `ReadDate` and `InsertRow`; `HoldBack` in the command |
| `cl_retry_failed_email` | `CheckDeliverability`, `SelectBatch`, `Retry` per row, `CommitRun`, `RunRaises` |
| `cl_delete_old_emails` | `DeleteOld` |
| an hour | `Tick` |

* The date of a row is computed before the row lock is taken, so an hour may begin
  and the flag change in between (`ReadDate`, `InsertRow`, `late`).
* In the command the whole of `send_messages` is one action per row: nobody
  else sees what it writes before `CommitRun`, apart from the mail itself.
* `wait` and `due` are hours relative to now. `since` is history: hours since a
  backoff began.

### RssFeed

| code | actions |
|---|---|
| `Command.handle`, the branch of one court | `Visit` |
| `check_if_feed_changed` | `FeedUnchanged`, `FeedChanged`, `CheckFails`, `Expire` (the message) |
| `merge_rss_feed_contents` | `ClaimItem`, `SkipItem`, `CommitItem`, `EndMerge`, `RetryMerge` |
| `mark_status_successful` | `MarkSuccessful` |
| any uncaught exception, a killed worker | `ChainDies` |
| the court, five minutes | `Rebuild`, `Tick` |

* A row and its chain share a *slot*; a slot whose row no query can return any
  more, and whose chain is over, is used again.
* Of `date_created` only its order is used, by `latest()`: `older[k]` are the rows
  created before row `k`.
* Build dates are kept as "that of the feed as it is now" or older, which is what
  the code compares. Claims outlive items in the feed and do not expire here.
* There is one daemon, and `OverlapIsLate` and its proof rest on that. The lock on
  the pid file does not ensure it: it is released when its `with` block ends, before
  the loop begins (`scrape_rss.py`, lines 65 to 74; see the findings).

### DocketAlerts

| code | actions |
|---|---|
| `start_time = now()`, `add_docket_entries` | `Start`, `Merge` |
| the transaction of a feed item, of a notification | `CommitItem`, `CommitEmail` |
| `create_redis_semaphore`: GET, then SET | `FindUp` or `FindDown`, then `Take` |
| the list a feed hands to the next task of its chain | `HandOver` |
| `send_alert_and_webhook` | `ReadEntries`, `SendMail`; with `des_pks` `MailUserOnly` |
| `IntegrityError` in a feed, retries of a notification | `FeedRetries`, `EmailRetries` |
| exceptions, deaths, TTLs | `SourceDies`, `AlertRaises`, `SemaphoreExpires`, `SemaphoreExpiresEarly` |

* `date_created >= start_time` is kept as a set per source, `old`: the entries
  created before it started, whether committed or not.
* A semaphore's ordinary expiry is one that nobody is left to delete; one that
  expires under its alert counts as a fault.

### TaskThrottle

`Look` is the first GET, by a free worker (`TakeUp`; `Workers` is the concurrency
of the pool), `SetCount`/`RaiseCount` (in `Open` and `Incr`), `SetExpiry`,
`GetSchedule`, `SetForNextWindow` and `SaveSchedule` are the other
calls, each an action, with `Expire`, `Tick`, `Die` and `Reconnect` (Redis is
retried, at another point of the loop) in between. A window is `Duration` ticks. A time
that falls within the present tick may count as past or not, and TTL may be
rounded to 0 in the last tick. `rounds`, `counted` and `outlived` are history: how
often the counter of this window was begun anew, whom it has let through since,
and who was run because the window it had found full was over when it asked for
the TTL. Two kinds of tasks are run and counted nowhere, as in the code: those told
to wait for 0 seconds, and those that find a counter without an expiry.

### PrayAndPay

| code | actions |
|---|---|
| `create_prayer_view`, `PrayerSerializer` | `ReadDocument`, `CountPrayers`, `CreatePrayer` |
| the signal `check_prayer_availability` | `CheckAvailability` |
| `delete_prayer` | `Withdraw` |
| `PrayerViewSet.destroy`: `get_queryset`, then DELETE by primary key | `FindPrayer`, `DestroyPrayer` |
| `check_prayer_pacer` | `QueryPacer`, then `FindSealed`, `RecordDenial` or `FindOpen`, `ClearDenial`, `SavePageCount`; `RetryCheck`, `CheckDies` |
| `fetch_pacer_doc_by_rd` and `update_rd_metadata` | `BeginFetch`, `Download`, `DownloadFails`, `SaveFetched`, `CommitFetch`; `RetryFetch`, `RollBack` |
| `process_recap_pdf` | `ReadUpload`, `SaveUpload`; `UploadDies` |
| `send_prayer_emails`, called by the signal on the document | part of `SaveFetched`; `GrantPrayers`, `SendPrayerEmails` after an upload |
| a day, a week | `DayPasses`, `WeekPasses` |

* Only a purchase has a transaction around it (`@transaction.atomic`, and
  `ATOMIC_REQUESTS` is off). What it has not committed is in `at`, `copy`, `batch`
  and `clears`, and the rows it wrote are locked (`DocIsFree` and its neighbours):
  others that write them wait.
* `copy`, `knew` and `sees` are what a process has read of the document. Saving
  writes them back: that is `SaveOldCopy`, `SaveUpload` and `CommitFetch`. An arrival
  that is over forgets its copy (`Forget`), which nothing reads any more.
* `GrantPrayers` stands for the UPDATE, the SELECT of all granted prayers and the
  deletion of `PrayerAvailability`, which follow each other without a pause; a
  death of the worker falls before them, or between them and the mail.
* A request through the API may name the status of its prayer (`StatusesOf`):
  `fields = "__all__"`, and only `date_created` is read-only.
* A wish has one availability check at a time: a request waits for the check of
  the one before (`ReadDocument`). Checks of different wishes for a document
  overlap.
* `arrived`, `early`, `overtaken`, `clobbered`, `parted`, `claimed`, `revoked` and
  `abandoned` are history: what happened in which order. The properties name
  their exceptions with them.

## 3. What is checked

| run | instance | properties |
|---|---|---|
| `webhook_core` | 2 events of one webhook, 2 retries, cut-off after 3 ticks, 1 death, 1 edit | `TypeOK`, `AtMostOneExtraPerCrash`, `RetryBudget`, `NoticeIsTrue`, `LocksHold`, `SwitchedOffByExhaustion`, `Promise` |
| `webhook_live` | 2 events, 1 retry, 1 edit, fair | `NoStrandedDelivery`, `EveryEventSettles` |
| `webhook_timetable` | 1 event, the real constants (3, 7, {1,5,7}, 3600 minutes), every retry up to 45 minutes late | `CutOffSparesRetries` |
| `iquery_races` | 2 probe tasks, 1 upload, 6 ids with one sealed, 1 death, 1 early expiry | `TypeOK`, `SweptIsScheduled`, `ScheduledOnce`, `OneProbe`, `HitsAreSwept`, `SweepsInOrder` |
| `iquery_live` | 1 task, 1 upload, 4 ids, fixed sweep and probing, 1 fault, 1 death, fair | `NoCaseLeftBehind`, `CatchesUpAlive`, `ProbingGoesOn` |
| `email_races` | 2 messages to one address, 6 copies, 3 notifications, 1 run that fails | `TypeOK`, `WaitingIsWatched`, `OnlyFailuresRepeat`, `NothingElseIsLost`, `BanIsEarned` |
| `email_live` | 2 messages to one address, 2 notifications, 1 deletion, fair | `QueueDrains` |
| `alerts` | a feed with entries of two dockets, an upload and a notification about the first, 1 fault, fair | `TypeOK`, `OneAlertAtATime`, `CoverageIsKept`, `PromisedIsMailed`, `DocketIsNotMuted`, `RecipientIsTold` |
| `feed` | 2 rows, 2 items, 2 failures, fair | `TypeOK`, `OneItemPerFailure`, `OverlapIsLate`, `ItemsAreMerged` |
| `throttle` | 4 tasks, 2 workers, 2 tasks per window of 2 ticks, 1 fault, fair | `TypeOK`, `CountedRateIsKept`, `EveryTaskRuns` |
| `prayers` | 3 wishes of two users for two documents, 2 requests (to create or, through the API, to delete), one wish through the API, a quota of 1, a purchase and an upload of the same document, 1 fault | `WaitingIsWarranted`, `TellingIsExact` |
| `prayers_lost` | the same | `AvailableMeansHere` is violated |

### Bounds

*Webhooks.* Two events of one webhook are the smallest number that compete for
its lock, its switch and the place of its oldest waiting event; events of
different webhooks share nothing but the round they are rolled back with. Two
retries (`webhook_core`) have a first, a middle and a last failure; the delays are
one tick so that the cut-off of 3 overtakes an event whose retries are late.
`webhook_timetable` has the real delays instead, and one event, because no other
event enters the comparison. It starts from the code's comment that the cut-off
"must be greater than the elapsed time after reaching the max retries"
(`cl_retry_webhooks.py`): the seven delays add up to 3279 minutes, 321 less than
the cut-off, and 7 retries times 45 late minutes are 315. Test
events are left to the proofs; one beside a real event was checked once.

*Iquery.* Steps of 2 and an offset of 3 let a probe make several queries, overshoot
its offset, skip a sealed id and reach the limit of a sweep. `SweepLimit` is then
5, and there are 6 ids, so a probe that goes further than it may finds more than a
sweep accepts (`HitsAreSwept`). One
death and one early expiry suffice for the hazards listed; the proofs cover any
number of both. What the theorems assume of the settings is evaluated
on the real ones (`SettingsAssumption` in `MCIqueryProbe`).

*Email.* One address, because addresses share nothing but messages, and two
messages, so that one probes while the other waits. With one retry before the ban
and three notifications an address can back off, restart, be extended and be
banned. No behaviour of `email_live` needs a seventh copy. In `email_races` six are
stored, bounced, rolled back and held back in all orders; histories that need
more are cut off (eight were checked once), which the theorems make up for.
Messages to one address are alike, hence the symmetry in the run without liveness.
One message to two addresses, with four copies, three notifications, a run that
fails and a deletion, was checked once for `NothingElseIsLost`; with two messages
such instances take too long, and the theorem covers any number of both.

*Alerts.* Two dockets, because the alerts of a feed fail together, and one source
of each kind. A larger instance (two faults and a notification about two dockets)
was checked once for the invariants.

*Feed.* Two chains can overlap, and each failure can hit an item of its own. Three
rows, with two items and one failure, were checked once, together with the
inductive invariant of the proofs.

*Throttle.* Four tasks at two per window: two windows are full, and tasks of the
second come back while new ones arrive. With two workers a counter may let three
of the four through, be begun anew once and be outlived by two tasks; each of
these bounds is reached. Five tasks were checked once.

*Prayers.* The first document has two wishes, one of them on the website and one
through the API; the second document has no number at PACER, and shares the quota
of the first user. Two requests are enough to create a prayer and to delete it
while it is granted, or to create one as granted.
Whatever the properties relate, one process that reads a
document and another that brings it, is there once; the proofs cover any number.

`MaxCrashes`, `MaxEdits`, `MaxLate`, `MaxCase`, `MaxUploads`, `MaxFaults`,
`MaxExpiries`, `MaxNotices`, `MaxRollbacks`, `MaxDeletions`, `MaxFailures` and
`MaxRequests` bound what the environment does. `MaxCopies` and `MaxRows` are the
sizes of tables.

### Fairness

Safety runs assume none. The liveness runs assume weak fairness of

* each celery task's next step and the daemon's next step: a worker runs the task
  it took, and the daemon is an endless loop restarted by its supervisor. Whether
  a POST is answered is left open, and a task that dies is exempt;
* time (`Tick`) and the expiry of keys whose TTL ran out, by the nature of both;
* nothing the outside world does: nobody has to edit, upload, file a case, ask,
  notify, fail or die. The one exception is the RSS feed, which the court is
  assumed to build anew again and again (`Rebuild`): courts do so at least daily.

Early expiries (`expiries' # expiries`) are never assumed to happen, and neither
is the death of anything. In `EmailBackoff` the command is fair, because cron
starts it every few minutes; in `DocketAlerts` one step among those of started
sources, alerts and dead semaphores (`Progress`) happens if it can, which is weaker
than fairness of each and suffices, as sources are finite. `PrayAndPay` states no
liveness: every prayer may remain unanswered.

### What was found

`AvailableMeansHere` fails within nine states (`prayers_lost`): the task reads the
document, asks PACER, and saves every column of what it read
(`favorites/tasks.py`, lines 61 and 70). A document uploaded meanwhile is marked as
not available again although its file is here, and readers are invited to ask for
it.

The other properties hold because they name what can go wrong. Where that
departs from what comments and docs say, there is a finding in `PROJECT.json`:

* webhooks: an event that uses up its retries while an older one waits switches
  the webhook off without a mail; events of a batch are re-sent and queued again
  after their webhook was switched off;
* iquery: a worker that dies between the two marks can leave a court behind for
  good (`CatchesUpAlive` is about courts without deaths); a timeout in fixed
  sweep mode does not keep the court from being swept;
* email: a bounce handled before the run that sent the copy commits loses the
  message (`early`); a message is sent again to all its recipients, so an address
  whose mail was in a run that was rolled back depends on the row of another one
  (`SentWithOthers`, which nothing but an attempt to prove `NothingElseIsLost` for
  several addresses brought up);
* feeds: an item whose merge fails once is never merged (`OneItemPerFailure`);
* alerts: an entry whose source is refused the semaphore of an alert that has
  already read the entries is in no alert (`CoverageIsKept`), and the user of a
  notification may not be told (`RecipientIsTold`);
* feeds, once more: nothing keeps a second daemon from visiting the same courts;
* throttle: tasks that come in the last half second of a window are not counted,
  and a key that lost its expiry puts tasks off for ever (`StuckForGood`);
* prayers: the API accepts a prayer for a document that is here, which then waits
  for ever (`ByApi`), creates prayers as granted that nobody is told about
  (`claimed`), and deletes a prayer that was granted and mailed since it was found
  waiting (`revoked`); all who were ever granted a document are mailed again.

## 4. What is proved

TLAPS checks all eight modules `*_proofs.tla`. The
theorems hold for every value of the constants that satisfies the assumptions in
the modules: any finite set of events, any webhooks, any retry limit that is in
`NOTIFY_ON`, any number of probes, uploads, deaths and expiries, any probing
settings with an even cap whose doubling steps stay below it, any addresses and
messages, sources, items, tasks, users and documents. TLC evaluates the
assumptions on every instance, and those about settings on the real ones as well
(`SettingsAssumption` in `MCIqueryProbe` and `MCWebhookTimetable`).

**Webhooks.** `TypeOK` and the properties are not inductive. `IInv` adds what they
rest on:

* `Rows`: what either copy of a row may hold at each stand of its task. A retryable
  row's task is done, so a task and a round never write the same row;
* `OutsideOK`, `IsolationOK`: the copies agree between rounds; within one they
  differ only in rows that are retryable on disk;
* `BatchOK`: rows in the batch are retryable, their webhooks locked and enabled.
  This is where the lock of the third statement is needed;
* `AcksOK`: acknowledgements are at most deaths plus one, and at most deaths as
  long as the event is open. A rollback re-opens a row, and counts as a death;
* `NoticeOK`, `ExhaustOK`: what the mail about a last failure and an uncommitted
  switch-off imply about the row that caused them.

One lemma per action shows that it keeps all of them. Theorems: `TypeCorrect`,
`DuplicatesAreCrashes`, `BudgetIsKept`, `NoticesAreTrue`, `SelectionIsStable`,
`OnlyExhaustionSwitchesOff`; with a second invariant `TestsOK` on top,
`TestsStaySilent`; and `Refinement`: initial states map to initial states of
`EventDelivery` and every step to one of its steps or a stutter.

`CutOffIsLateEnough` is about `PunctualSpec`, where a POST takes less than a minute,
nothing dies and a due event is retried at most `MaxLate` minutes late. Its
hypothesis, `Timetable(latest)`, says that `latest[n]` is the sum of the first
`n - 1` delays and lateness, and that the last of them is within the cut-off: it is
where the sum of seven delays enters, which no prover here can add up for an
unknown number of retries. `MCWebhookTimetable` defines that function for the real
settings, and TLC evaluates the hypothesis on it. The invariant, `OnSchedule`,
says that the age of a waiting event and the minutes until it is due do not exceed
the timetable of its next attempt; so an event that is due is too young to be cut
off (`DueIsYoung`), and `FAILED` is reached through the last attempt only.

**Iquery.** A tower of invariants, each resting on those below:

1. `LockOK`: while no key expires early, a process inside the sweep holds the lock;
2. `MarksOK`: so what it compared is still true when it writes
   (theorem `MarksAdvance`);
3. `OnceOK`: so nothing is scheduled twice (`NothingIsRepeated`);
4. `GapOK`: without deaths the marks are one apart between sweeps;
5. `LoopOK` with the lemma `StepsAreBounded`: a step of a probe is at most
   `IQUERY_MAX_PROBE` long, also where the doubling turns linear, so a hit lies
   less than `SweepLimit` above the mark;
6. `ReachOK`: so the sweep accepts it (`HitsAreAccepted`).

`SweptOK` (theorem `NothingIsSkipped`) needs neither lock nor luck: it holds with
any deaths and expiries, because the current mark is written last and with the
value of the local counter. `ProbeOK` gives `ProbesAreAlone`, and `LocksAreKept`
is proved from the types alone.

`MarksOnlyRise`, `LockIsNotStolen` and, of the webhooks, `TestsAreSilent` are proved
and in no run. The first follows from `SweepsInOrder`; what is specific to the
others is the release of the lock and the test events, which the proofs cover for
all constants.

`SweepsAreOneReader` is the refinement: to the download tasks, probes and uploads
that race for the lock are one reader of the log of case ids (`CaseSweep`) that
claims, schedules, saves and, after a death, resumes where it last saved. The
position of the reader is the cursor of whoever schedules, or the current mark.
`LockOK` makes that process unique (`OneSweep`), `TargetOK` makes its target the id
that was claimed last, and `MarksOK` makes its cursor start where the last sweep
stopped. A lock that expires early gives the log two readers: the property is
about the steps before that, and `MCIqueryRaces.cfg` has such an expiry.

**Email.** `OriginsOK` ties rows and copies to messages. Theorem
`OneProbeAtATime`: no address has two ENQUEUED rows in what anybody sees, which
needs both the index and the command's transaction (`IndexIsFree`).
`WaitingRowsAreWatched` rests on `WatchOK`: a backoff that is checked has no
waiting rows, and a date or a held-back message that is about to become one
belongs to an unchecked one; a new failure resets `checked`. `BansAreEarned` rests on
`PeriodOK`: counter, waiting period and the hours since the backoff began add up.

Two theorems follow a message through all its copies (`EmailCopies_proofs`).
`CopiesOK` ties mail, rows and copies together: copies are stored in order, rows
belong to stored copies and to addresses of their messages, and the open run
differs from what is committed only in the rows it sent and the copies it stored.

* `NothingIsLost` rests on `ServedOK`: in either version of the tables, an address
  whose last mail bounced, or that has been held back and got none, has a row of
  the message; if the table does not know of its last mail, somebody has one.
* `OnlyFailuresAreRepeated` rests on `ThreadOK`: of a message to a single address at
  most one copy is alive at a time, in either version, and those mailed by runs
  that were rolled back are no more than the rollbacks. All copies mailed but the
  living one have bounced or were rolled back.

**Alerts.** `SourcesOK`, `OrdersOK` and `EmailsOK` say what a source may still do
after it ordered an alert: never ask again for a docket whose entries its alert
has read. `CoverageIsNotLost` follows. `AlertsOK` counts the alerts of a docket
together with the sources between their GET and their SET (`AlertsAreCounted`).

**Throttle.** Who begins the counter anew, raises it beyond the rate or finds that
the window it saw full is over, decided on that in a call that was going on when
the counter came to be, became full, or expired; afterwards nobody takes that
branch any more. `PoolOK`: there are at most `Workers` such calls. `RoundsOK`: once
there is a counter, the times it was begun and the calls that will begin it are no
more than that. `CountedOK`: once it is at the rate, what it shows and the calls
that will raise it are at most `Allowed + (Workers - 1)`. `OutlivedOK`: once it has
expired, those who found it over, and those who still may, are at most `Workers`.
`RateHolds` says so of every step, with any deaths and lost connections.

**Feeds.** `HoldingOK`: a chain holds at most one claimed item, so a failure costs
at most one (`FailuresCostOneItem`). `NoEarlyOverlap`: the row of a chain that runs
is IN_PROGRESS (`RunningOK`), so the daemon's query counts it; any set of counted
rows has a latest one (`LatestOK`); and a row that is older than another one has
been in progress for the whole time allowed if its chain still runs (`LateOK`),
because the daemon looked at a latest row at least as young before it made the
other. The proof needs no bound on the rows.

**Prayers.** `KnownOK`: whoever believes a document to be here is right, and one
that is here is shown as missing only after a task wrote so. `RequestOK`: a request
under way read its document before it arrived, did not look, or was misled.
`SavedOK`: an open purchase is the only one of its document and holds all who
wait, but for those that will be overtaken. `UploadOK`: an upload grants after the
document is here, and whom it is to mail has been granted, or was and is `revoked`.
With these every action keeps `WaitingIsWarranted` and `TellingIsExact`
(`WaitingIsAlwaysWarranted`, `TellingIsAlwaysExact`), one lemma per action;
`DeleteRowKeeps` serves both ways to delete a prayer.

**Only model-checked.** Liveness (`NoStrandedDelivery`, `EveryEventSettles`,
`NoCaseLeftBehind`, `CatchesUpAlive`, `ProbingGoesOn`, `QueueDrains`,
`PromisedIsMailed`, `DocketIsNotMuted`, `RecipientIsTold`, `ItemsAreMerged`,
`EveryTaskRuns`): fairness and ENABLED are out of the prover's reach. Every
invariant and every other action property of a run that passes is a theorem.
`AvailableMeansHere` is false.

## 5. What the models leave out

* Payloads, response bodies, mail texts, logs, statistics, the Idempotency-Key.
* Creating and deleting webhooks and users (cascades), the admin mails about
  edits, the daily reminder about webhooks still disabled (it changes nothing).
* The other exceptions of a POST than failed and answered: one that is not caught
  by `send_webhook_event` is a death of the task or an abort of the round.
* Redis failures as such: an exception in a task is a `Die`; the daemon skips the
  court for an iteration.
* Email: users who change their address, BCC, attachments, log-only subtypes of
  notifications, notifications about several recipients at once, an administrator
  who lifts a ban, the arithmetic of the emergency brake (it raises or does not).
  Two runs of the command at a time: the second waits for the first one's locks.
* Feeds: sweeps and subsets of courts, mails about stale feeds, the trimming of
  rows older than two weeks, the stored feed files.
* Alerts: who subscribes, how mails look, the webhooks (see `WebhookDelivery`).
  That an entry may be in two alerts is no property: the code promises nothing.
* Throttle: what a task does once it runs (it no longer occupies a worker of the
  model), several names or keys (they share nothing), `CeleryThrottle`,
  `lib/ratelimiter.py`.
* Prayers: webhooks, mails of refusal, the members' larger quota, several
  availability checks of one wish at a time, the text extraction after an upload,
  `is_available` = NULL, and other
  code that marks documents as missing. The quota is counted and then used: it
  can be exceeded by simultaneous requests, and there is no property of it.
* What becomes of a scheduled download: `make_docket_by_iquery_sweep` retries and
  may give up. `scheduled` records that it was enqueued.
* Changes of the settings at run time.

## 6. Plan

Done: webhooks, iquery probing, email, feeds, alerts, throttled tasks and prayers,
each with its runs and proofs; every safety property that holds is a theorem. What
is left, in this order:

1. An abstract specification of a prayer, and of an alert's coverage, with
   `PrayAndPay` and `DocketAlerts` shown to implement them, as `EventDelivery` and
   `CaseSweep` are.
2. The status machines of `ProcessingQueue` and `PacerFetchQueue` around the two
   tasks of `PrayAndPay`, with their retries and the replication to subdockets.
3. Creation and deletion of webhooks, and a composition of `WebhookDelivery` with
   `DocketAlerts`, whose alerts enqueue its tasks inside or outside transactions.
4. A composition of the probing daemon over two courts, to check that a pause of
   one does not hold up the other, and the SCOTUS daemon as a variant.
5. The batches of `ai/`, and scheduled search alerts.
