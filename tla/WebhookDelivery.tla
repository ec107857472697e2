-------------------------- MODULE WebhookDelivery --------------------------
(***************************************************************************)
(* Delivery of webhook events: the celery task that creates an event and   *)
(* POSTs it once (cl/api/tasks.py, cl/api/webhooks.py), the bookkeeping    *)
(* after each POST (cl/api/utils.py), the retry daemon                     *)
(* (cl/api/management/commands/cl_retry_webhooks.py) and the owner's       *)
(* settings form (cl/users/api_views.py), all writing the same two tables. *)
(*                                                                         *)
(* Tasks and the form run in autocommit mode; a daemon round is a single   *)
(* transaction that holds row locks and POSTs while it is open.  So there  *)
(* are two copies of the tables: disk is what is committed, db is what the *)
(* daemon sees.  A write outside the transaction goes to both, a write of  *)
(* the daemon goes to db, COMMIT copies db to disk and an abort copies     *)
(* disk to db.                                                             *)
(***************************************************************************)
EXTENDS Integers, FiniteSets

CONSTANTS
    Events,                     \* rows WebhookEvent may have
    Webhooks,                   \* rows of Webhook
    Parent,                     \* WebhookEvent.webhook
    DebugEvents,                \* events with debug = True (the test button)
    INITIAL_TIME,               \* 3 in the code
    WEBHOOK_MAX_RETRY_COUNTER,  \* 7 in the code
    NOTIFY_ON,                  \* {1, 5, 7} in the code
    CUT_OFF,                    \* HOURS_WEBHOOKS_CUT_OFF, in ticks
    MaxLate,                    \* how late a retry is still told apart from later
    MaxCrashes,                 \* bound on injected crashes
    MaxEdits                    \* bound on saves of the settings form

MaxRetry == WEBHOOK_MAX_RETRY_COUNTER

ASSUME InputAssumption ==
    /\ IsFiniteSet(Events)
    /\ Parent \in [Events -> Webhooks]
    /\ DebugEvents \subseteq Events
    /\ MaxLate \in Nat /\ MaxCrashes \in Nat /\ MaxEdits \in Nat

ASSUME ScheduleAssumption ==
    /\ MaxRetry \in Nat \ {0}
    /\ NOTIFY_ON \subseteq 1..MaxRetry
    /\ MaxRetry \in NOTIFY_ON
    /\ CUT_OFF \in Nat
    /\ INITIAL_TIME \in Nat \ {0}

VARIABLES
    db,          \* the tables as the open transaction, or everybody, sees them
    disk,        \* the tables as committed
    born,        \* born[e]: position of date_created among all rows
    age,         \* age[e]: ticks since date_created, capped just past CUT_OFF
    task,        \* task[e]: where the celery task that sends e first stands
    daemon,      \* where the retry daemon stands
    batch,       \* webhook_events_to_retry, those not yet sent
    locked,      \* webhook rows the daemon holds FOR UPDATE
    form,        \* form[w]: failure_count of the instance a settings save read
    edits,       \* settings saves so far
    acks,        \* acks[e]: POSTs of e the endpoint answered with 2xx
    mailed,      \* <<e, n>>: notify_failing_webhook queued for e's n-th failure
    crashes      \* transactions and tasks that died half-way

tables == <<db, disk>>
rows   == <<born, age>>
round  == <<daemon, batch, locked>>
owner  == <<form, edits>>
seen   == <<acks, mailed, crashes>>
vars   == <<tables, rows, task, round, owner, seen>>

Retryable == {"ENQUEUED_RETRY", "ENDPOINT_DISABLED"}
Final     == {"SUCCESSFUL", "FAILED"}
NoRow     == {"NONE", "DELETED"}
Status    == Retryable \cup Final \cup NoRow \cup {"IN_PROGRESS"}
Live      == {"posting", "ok", "failed", "counting", "saving"}
Closed    == -1              \* no settings save is under way
InRound   == {"cut", "restored", "sending"}

\* The two tables by column: event_status, retry_counter and next_retry_date
\* (as next_retry_date - now(), with floor -MaxLate; NULL until the first
\* failure, which no query can tell from "not Retryable") of WebhookEvent,
\* enabled and failure_count of Webhook.
Table(status, counter, due, enabled, failures) ==
    [status |-> status, counter |-> counter, due |-> due,
     enabled |-> enabled, failures |-> failures]

WithEvents(t, status, counter, due) ==
    Table(status, counter, due, t.enabled, t.failures)

WithStatus(t, status) == WithEvents(t, status, t.counter, t.due)

WithWebhooks(t, enabled, failures) ==
    Table(t.status, t.counter, t.due, enabled, failures)

TableOK(t) ==
    /\ t.status \in [Events -> Status]
    /\ t.counter \in [Events -> Nat]
    /\ t.due \in [Events -> Int]
    /\ t.enabled \in [Webhooks -> BOOLEAN]
    /\ t.failures \in [Webhooks -> Nat]

TypeOK ==
    /\ TableOK(db) /\ TableOK(disk)
    /\ born \in [Events -> Nat]
    /\ age \in [Events -> 0..(CUT_OFF + 1)]
    /\ task \in [Events -> Live \cup {"none", "queued", "done", "dead"}]
    /\ daemon \in InRound \cup {"asleep", "awake"}
    /\ batch \in SUBSET Events
    /\ locked \in SUBSET Webhooks
    /\ form \in [Webhooks -> Nat \cup {Closed}]
    /\ edits \in Nat
    /\ acks \in [Events -> Nat]
    /\ mailed \in SUBSET (Events \X Nat)
    /\ crashes \in Nat

Init ==
    /\ db = Table([e \in Events |-> "NONE"], [e \in Events |-> 0], [e \in Events |-> 0],
                  [w \in Webhooks |-> TRUE], [w \in Webhooks |-> 0])
    /\ disk = db
    /\ born = [e \in Events |-> 0]
    /\ age = [e \in Events |-> 0]
    /\ task = [e \in Events |-> "none"]
    /\ daemon = "awake"
    /\ batch = {}
    /\ locked = {}
    /\ form = [w \in Webhooks |-> Closed]
    /\ edits = 0
    /\ acks = [e \in Events |-> 0]
    /\ mailed = {}
    /\ crashes = 0

----------------------------------------------------------------------------
(* The bookkeeping after a POST, as functions from tables to tables.       *)

get_next_webhook_retry_date(k) == INITIAL_TIME ^ (k + 1)

\* The rows f of w with event_status ENQUEUED_RETRY, and the earliest of them.
Waiting(t, w) ==
    {f \in Events \ DebugEvents : Parent[f] = w /\ t.status[f] = "ENQUEUED_RETRY"}

Earliest(S) == {f \in S : \A g \in S : born[f] <= born[g]}

\* check_webhook_failure_count_and_notify does nothing for these.
Ignored(t, e) == ~t.enabled[Parent[e]] \/ e \in DebugEvents

Notifies(t, e) == ~Ignored(t, e) /\ t.counter[e] \in NOTIFY_ON

\* aearliest() raises DoesNotExist when no row is waiting.
NoEarliest(t, e) == Notifies(t, e) /\ Waiting(t, Parent[e]) = {}

Mails(t, e) ==
    {<<f, t.counter[f] + 1>> : f \in {g \in Earliest(Waiting(t, Parent[e])) :
                                         g = e /\ Notifies(t, e)}}

CountFailure(t, w) == WithWebhooks(t, t.enabled, [t.failures EXCEPT ![w] = @ + 1])

\* Switch w off and mark its waiting events ENDPOINT_DISABLED.
Disable(t, w) ==
    Table([f \in Events |-> IF f \in Waiting(t, w) THEN "ENDPOINT_DISABLED" ELSE t.status[f]],
          t.counter, t.due, [t.enabled EXCEPT ![w] = FALSE], t.failures)

\* (mutant) every notification switches the webhook off
check_without_max(t, e) ==
    IF Ignored(t, e) \/ t.counter[e] \notin NOTIFY_ON THEN t
    ELSE CountFailure(Disable(t, Parent[e]), Parent[e])

check_webhook_failure_count(t, e) ==
    IF Ignored(t, e) THEN t
    ELSE IF t.counter[e] \in NOTIFY_ON /\ t.counter[e] >= MaxRetry
         THEN CountFailure(Disable(t, Parent[e]), Parent[e])
         ELSE CountFailure(t, Parent[e])

\* (mutant) > for >=
SaveFailureOneMore(t, e) ==
    LET done == t.counter[e] > MaxRetry IN
    WithEvents(t,
        [t.status EXCEPT ![e] = IF done \/ e \in DebugEvents THEN "FAILED" ELSE "ENQUEUED_RETRY"],
        [t.counter EXCEPT ![e] = @ + 1],
        [t.due EXCEPT ![e] = IF done THEN @ ELSE get_next_webhook_retry_date(t.counter[e])])

\* (mutant) the counter is raised before the date is computed
SaveFailureLaterDate(t, e) ==
    LET done == t.counter[e] >= MaxRetry IN
    WithEvents(t,
        [t.status EXCEPT ![e] = IF done \/ e \in DebugEvents THEN "FAILED" ELSE "ENQUEUED_RETRY"],
        [t.counter EXCEPT ![e] = @ + 1],
        [t.due EXCEPT ![e] = IF done THEN @ ELSE get_next_webhook_retry_date(t.counter[e] + 1)])

\* The rest of update_webhook_event_after_request for a failed POST.
SaveFailure(t, e) ==
    LET done == t.counter[e] >= MaxRetry IN
    WithEvents(t,
        [t.status EXCEPT ![e] = IF done \/ e \in DebugEvents THEN "FAILED" ELSE "ENQUEUED_RETRY"],
        [t.counter EXCEPT ![e] = @ + 1],
        [t.due EXCEPT ![e] = IF done THEN @ ELSE get_next_webhook_retry_date(t.counter[e])])

SaveSuccess(t, e) == WithStatus(t, [t.status EXCEPT ![e] = "SUCCESSFUL"])

\* A write in autocommit mode, visible to everybody at once.
Autocommit(Op(_)) == db' = Op(db) /\ disk' = Op(disk)

----------------------------------------------------------------------------
(* The celery task that creates e and makes the first attempt.             *)

SetTask(e, from, to) == task[e] = from /\ task' = [task EXCEPT ![e] = to]

\* The task found the webhook enabled (the test button does not ask) and is
\* at create(): date_created is taken before the INSERT is sent.
StartTask(e) ==
    /\ SetTask(e, "none", "queued")
    /\ disk.enabled[Parent[e]] \/ e \in DebugEvents
    /\ born' = [born EXCEPT ![e] = Cardinality({f \in Events : task[f] # "none"}) + 1]
    /\ UNCHANGED <<tables, age, round, owner, seen>>

\* The INSERT: its foreign key waits for a locked webhook.
CreateEvent(e) ==
    /\ SetTask(e, "queued", "posting")
    /\ Parent[e] \notin locked
    /\ Autocommit(LAMBDA t : WithStatus(t, [t.status EXCEPT ![e] = "IN_PROGRESS"]))
    /\ UNCHANGED <<rows, round, owner, seen>>

\* requests.post inside send_webhook_event.
PostAnswered(e) ==
    /\ SetTask(e, "posting", "ok")
    /\ acks' = [acks EXCEPT ![e] = @ + 1]
    /\ UNCHANGED <<tables, rows, round, owner, mailed, crashes>>

\* (mutant) the status code is not looked at
PostUnchecked(e) ==
    /\ SetTask(e, "posting", "ok")
    /\ UNCHANGED <<tables, rows, round, owner, seen>>

PostFailed(e) ==
    /\ SetTask(e, "posting", "failed")
    /\ UNCHANGED <<tables, rows, round, owner, seen>>

RecordSuccess(e) ==
    /\ SetTask(e, "ok", "done")
    /\ Autocommit(LAMBDA t : SaveSuccess(t, e))
    /\ UNCHANGED <<rows, round, owner, seen>>

\* (mutant) the early return of the check ends the whole update
ReadWebhookAndStop(e) ==
    /\ SetTask(e, "failed", IF Ignored(disk, e) THEN "done" ELSE "counting")
    /\ UNCHANGED <<tables, rows, round, owner, seen>>

\* check_webhook_failure_count_and_notify reads the committed webhook ...
ReadWebhook(e) ==
    /\ SetTask(e, "failed", IF Ignored(disk, e) THEN "saving" ELSE "counting")
    /\ UNCHANGED <<tables, rows, round, owner, seen>>

\* ... and saves failure_count, waiting for the row lock.  The counter is 0
\* here, so there is no notification and nothing is switched off.
CountFirstFailure(e) ==
    /\ SetTask(e, "counting", "saving")
    /\ Parent[e] \notin locked
    /\ Autocommit(LAMBDA t : CountFailure(t, Parent[e]))
    /\ UNCHANGED <<rows, round, owner, seen>>

RecordFailure(e) ==
    /\ SetTask(e, "saving", "done")
    /\ Autocommit(LAMBDA t : SaveFailure(t, e))
    /\ UNCHANGED <<rows, round, owner, seen>>

\* The worker is killed, or an exception nobody catches ends the task.
TaskDies(e) ==
    /\ task[e] \in Live
    /\ crashes < MaxCrashes
    /\ task' = [task EXCEPT ![e] = "dead"]
    /\ crashes' = crashes + 1
    /\ UNCHANGED <<tables, rows, round, owner, acks, mailed>>

----------------------------------------------------------------------------
(* The retry daemon: one iteration of Command.handle.                      *)

\* (mutant) no filter on event_status
BaseAnyStatus(t) ==
    {e \in Events \ DebugEvents : /\ t.status[e] \notin NoRow \cup {"IN_PROGRESS"}
                                  /\ t.due[e] <= 0
                                  /\ t.enabled[Parent[e]]}

\* base_events: due, not a test, webhook switched on.
Base(t) ==
    {e \in Events \ DebugEvents : /\ t.status[e] \in Retryable
                                  /\ t.due[e] <= 0
                                  /\ t.enabled[Parent[e]]}

\* (mutant) off by one
TooOldByOne(e) == age[e] > CUT_OFF + 1

TooOld(e) == age[e] > CUT_OFF

\* delete_old_webhook_events, once a day, before a round.  DAYS_TO_DELETE is
\* far beyond the cap of age, so any capped row may be that old; no task is
\* still sending so old an event.
DeleteOld ==
    /\ daemon = "awake"
    /\ \E S \in SUBSET {e \in Events : TooOld(e) /\ task[e] \in {"done", "dead"}
                                         /\ db.status[e] \notin NoRow} :
         /\ S # {}
         /\ Autocommit(LAMBDA t : WithStatus(t,
                [e \in Events |-> IF e \in S THEN "DELETED" ELSE t.status[e]]))
    /\ UNCHANGED <<rows, task, round, owner, seen>>

\* (mutant) the cut-off leaves parked events alone
FailOverdueNotParked ==
    /\ daemon = "awake"
    /\ db' = WithStatus(db,
                [e \in Events |-> IF /\ e \in Base(db) /\ TooOld(e)
                                     /\ db.status[e] = "ENQUEUED_RETRY"
                                  THEN "FAILED" ELSE db.status[e]])
    /\ daemon' = "cut"
    /\ UNCHANGED <<disk, rows, task, batch, locked, owner, seen>>

\* First UPDATE of the transaction: events past the cut-off have failed.
FailOverdue ==
    /\ daemon = "awake"
    /\ db' = WithStatus(db,
                [e \in Events |-> IF e \in Base(db) /\ TooOld(e) THEN "FAILED"
                                  ELSE db.status[e]])
    /\ daemon' = "cut"
    /\ UNCHANGED <<disk, rows, task, batch, locked, owner, seen>>

\* Second UPDATE: events parked while their endpoint was off start over.
Parked == {e \in Base(db) : db.status[e] = "ENDPOINT_DISABLED" /\ ~TooOld(e)}

RestoreCounters ==
    /\ daemon = "cut"
    /\ db' = WithEvents(db, db.status,
                [e \in Events |-> IF e \in Parked THEN 0 ELSE db.counter[e]], db.due)
    /\ daemon' = "restored"
    /\ UNCHANGED <<disk, rows, task, batch, locked, owner, seen>>

\* (mutant) FOR UPDATE OF self: the webhooks stay unlocked
SelectOfSelf ==
    /\ daemon = "restored"
    /\ batch' = {e \in Base(db) : ~TooOld(e)}
    /\ daemon' = "sending"
    /\ UNCHANGED <<tables, rows, task, locked, owner, seen>>

\* SELECT ... FOR UPDATE: locks the rows and their webhooks.
SelectBatch ==
    /\ daemon = "restored"
    /\ batch' = {e \in Base(db) : ~TooOld(e)}
    /\ locked' = {Parent[e] : e \in batch'}
    /\ daemon' = "sending"
    /\ UNCHANGED <<tables, rows, task, owner, seen>>

\* send_webhook_event for the next row of the batch, in date_created order.
RetryAnswered(e) ==
    /\ e \in Earliest(batch)
    /\ db' = SaveSuccess(db, e)
    /\ acks' = [acks EXCEPT ![e] = @ + 1]
    /\ batch' = batch \ {e}
    /\ UNCHANGED <<disk, rows, task, daemon, locked, owner, mailed, crashes>>

RetryFailed(e) ==
    /\ e \in Earliest(batch)
    /\ ~NoEarliest(db, e)
    /\ db' = SaveFailure(check_webhook_failure_count(db, e), e)
    /\ mailed' = mailed \cup Mails(db, e)
    /\ batch' = batch \ {e}
    /\ UNCHANGED <<disk, rows, task, daemon, locked, owner, acks, crashes>>

EndRound(next) == daemon' = next /\ batch' = {} /\ locked' = {}

Commit ==
    /\ daemon = "sending" /\ batch = {}
    /\ disk' = db
    /\ EndRound("asleep")
    /\ UNCHANGED <<db, rows, task, owner, seen>>

\* The transaction is rolled back and the process is started again.
Abort ==
    /\ db' = disk
    /\ EndRound("awake")
    /\ crashes' = crashes + 1
    /\ UNCHANGED <<disk, rows, task, owner, acks, mailed>>

DaemonDies == daemon \in InRound /\ crashes < MaxCrashes /\ Abort

RetryRaises(e) == e \in Earliest(batch) /\ NoEarliest(db, e) /\ Abort

----------------------------------------------------------------------------
(* The owner's settings form, and time.                                    *)

\* get_object() reads every column of the committed row ...
OpenForm(w) ==
    /\ form[w] = Closed
    /\ edits < MaxEdits
    /\ form' = [form EXCEPT ![w] = disk.failures[w]]
    /\ UNCHANGED <<tables, rows, task, round, edits, seen>>

\* ... and form.save() writes every column, with the submitted switch.
SaveForm(w, on) ==
    /\ form[w] # Closed
    /\ w \notin locked
    /\ Autocommit(LAMBDA t : WithWebhooks(t, [t.enabled EXCEPT ![w] = on],
                                          [t.failures EXCEPT ![w] = form[w]]))
    /\ form' = [form EXCEPT ![w] = Closed]
    /\ edits' = edits + 1
    /\ UNCHANGED <<rows, task, round, seen>>

Later(t) ==
    WithEvents(t, t.status, t.counter,
        [e \in Events |-> IF t.due[e] > -MaxLate THEN t.due[e] - 1 ELSE t.due[e]])

\* One minute passes, never between the statements that open a round.  The
\* daemon's time.sleep is over after a tick.
Tick ==
    /\ daemon \notin {"cut", "restored"}
    /\ age' = [e \in Events |-> IF disk.status[e] \in NoRow \/ TooOld(e)
                                THEN age[e] ELSE age[e] + 1]
    /\ Autocommit(Later)
    /\ daemon' = IF daemon = "asleep" THEN "awake" ELSE daemon
    /\ UNCHANGED <<born, task, batch, locked, owner, seen>>

----------------------------------------------------------------------------
TaskStep(e) ==
    \/ CreateEvent(e) \/ PostAnswered(e) \/ PostFailed(e) \/ RecordSuccess(e)
    \/ ReadWebhook(e) \/ CountFirstFailure(e) \/ RecordFailure(e)

DaemonStep ==
    \/ FailOverdue \/ RestoreCounters \/ SelectBatch \/ Commit
    \/ \E e \in Events : RetryAnswered(e) \/ RetryFailed(e) \/ RetryRaises(e)

FormStep == \E w \in Webhooks : OpenForm(w) \/ (\E on \in BOOLEAN : SaveForm(w, on))

Next ==
    \/ \E e \in Events : StartTask(e) \/ TaskStep(e) \/ TaskDies(e)
    \/ DaemonStep \/ DaemonDies \/ DeleteOld
    \/ FormStep
    \/ Tick

Spec == Init /\ [][Next]_vars

\* Celery runs what it took, the daemon loops for ever, time passes.  Nobody
\* has to use the site, and nothing has to crash.
FairSpec ==
    /\ Spec
    /\ \A e \in Events : WF_vars(TaskStep(e))
    /\ WF_vars(DaemonStep)
    /\ WF_vars(Tick)

\* Nobody touches the settings, nothing crashes, a first POST takes less than
\* a tick and a due event is retried at most MaxLate ticks late.
OnTime ==
    /\ daemon # "sending"
    /\ \A e \in Events : /\ task[e] \notin Live
                         /\ e \in Base(db) => db.due[e] > -MaxLate

PunctualNext ==
    \/ \E e \in Events : StartTask(e) \/ TaskStep(e)
    \/ DaemonStep
    \/ OnTime /\ Tick

PunctualSpec == Init /\ [][PunctualNext]_vars

\* The n-th attempt at an event comes at the age of latest[n] at the latest, and
\* the last one within the cut-off.
Timetable(latest) ==
    /\ latest \in [1..(MaxRetry + 1) -> 0..CUT_OFF]
    /\ \A n \in 1..MaxRetry :
          /\ get_next_webhook_retry_date(n - 1) \in Nat
          /\ latest[n + 1] = latest[n] + get_next_webhook_retry_date(n - 1) + MaxLate

----------------------------------------------------------------------------
(* What must hold.                                                         *)

\* An endpoint that has acknowledged an event gets it again only because a
\* task or a round died between the POST and its record: one more time for
\* each such death, whatever the batches, restarts and settings saves.
AtMostOneExtraPerCrash == \A e \in Events : acks[e] <= 1 + crashes

\* An event that may still be POSTed has a counter that notify_on has an
\* entry for (a KeyError would end the round), and no event is POSTed after
\* its last failure: the counter stops at MaxRetry + 1.
RetryBudget ==
    \A e \in Events :
        /\ db.counter[e] <= MaxRetry + 1
        /\ db.status[e] \in Retryable \cup {"IN_PROGRESS"} => db.counter[e] <= MaxRetry

\* Unless something died, an owner who is told "now disabled" because of e
\* finds e failed for good once the round is over.
NoticeIsTrue ==
    \A e \in Events :
        <<e, MaxRetry + 1>> \in mailed /\ crashes = 0 /\ daemon \notin InRound
            => disk.status[e] \in {"FAILED", "DELETED"}

\* While a row waits in the batch its committed state is the one the round
\* selected it for: nobody switches its webhook off and nobody settles it.
LocksHold ==
    \A e \in batch : disk.enabled[Parent[e]] /\ disk.status[e] \in Retryable

\* Only the owner, or an event that used up all its retries, switches a
\* webhook off: when a round commits one as disabled, such an event of that
\* webhook is committed with it, or was before.
SwitchedOffByExhaustion ==
    [][\A w \in Webhooks :
          disk.enabled[w] /\ ~disk'.enabled[w] /\ UNCHANGED edits
              => \E e \in Events : /\ Parent[e] = w
                                   /\ disk'.status[e] = "FAILED"
                                   /\ disk'.counter[e] = MaxRetry + 1]_vars

\* The settings page's test button: a test event is attempted once.  However
\* tasks, rounds and saves interleave or die, it is not acknowledged twice,
\* never waits for a retry that no round would make, and its owner gets no
\* failure mail about it.
TestsAreSilent ==
    \A d \in DebugEvents :
        /\ acks[d] <= 1
        /\ task[d] = "done" => disk.status[d] \in Final \cup {"DELETED"}
        /\ \A m \in mailed : m[1] # d

\* The committed status tells the story of EventDelivery: delivered only if
\* acknowledged, and final once it is decided.
FateOf(s) == CASE s = "NONE" -> "none"
               [] s = "SUCCESSFUL" -> "delivered"
               [] s = "FAILED" -> "dropped"
               [] s = "DELETED" -> "purged"
               [] OTHER -> "open"

Abstract == INSTANCE EventDelivery WITH
                fate <- [e \in Events |-> FateOf(disk.status[e])],
                receipts <- acks

Promise == Abstract!Spec

\* A first delivery is recorded one way or the other unless its task died.
NoStrandedDelivery ==
    \A e \in Events :
        disk.status[e] = "IN_PROGRESS" ~> disk.status[e] # "IN_PROGRESS" \/ task[e] = "dead"

\* If the owner finally leaves the webhook on (and it is not switched off
\* again), every event waiting for a retry gets a verdict, also one that was
\* parked, lost its round or grew too old meanwhile.
EveryEventSettles ==
    \A e \in Events :
        <>[]disk.enabled[Parent[e]] =>
            (disk.status[e] \in Retryable ~> disk.status[e] \in Final \cup {"DELETED"})

\* cl_retry_webhooks.py wants HOURS_WEBHOOKS_CUT_OFF "greater than the elapsed
\* time after reaching the max retries": with every retry at most MaxLate
\* late, no event is failed by the cut-off before its last retry.
CutOffSparesRetries ==
    \A e \in Events \ DebugEvents :
        disk.status[e] = "FAILED" => disk.counter[e] = MaxRetry + 1
=============================================================================
