---------------------------- MODULE EmailBackoff ----------------------------
(***************************************************************************)
(* Mail to addresses that bounce: the sending backend                      *)
(* (cl/lib/email_backends.py), the handlers of bounce and complaint        *)
(* notifications (cl/users/email_handlers.py), the command that re-sends   *)
(* failed messages (cl/users/management/commands/cl_retry_failed_email.py) *)
(* and the one that deletes stored ones (cl_delete_old_emails.py).         *)
(*                                                                         *)
(* A message that is sent is stored as an EmailSent row, here a copy; each *)
(* re-sending stores another copy of the same message, with an id of its   *)
(* own, and a notification names the copy that bounced.  A FailedEmail row *)
(* is a pair of a copy and the recipient it waits for.                     *)
(*                                                                         *)
(* The command re-sends inside one transaction.  disk is what is           *)
(* committed, db what that transaction sees; what everybody else writes    *)
(* goes to both.  Mail that was handed over is not taken back by a         *)
(* rollback.  Times are kept relative to now; a tick is an hour.           *)
(***************************************************************************)
EXTENDS Integers, FiniteSets

CONSTANTS
    Recipients,                 \* addresses
    Messages,                   \* messages the site sends, each once
    To,                         \* To[m]: the addresses of m
    NoMessage,                  \* no message
    MAX_RETRY_COUNTER,          \* 5 in the code
    BACKOFF_THRESHOLD,          \* 36 in the settings
    DELIVERABILITY_THRESHOLD,   \* 2 in the settings
    MaxCopies,                  \* bound on EmailSent rows
    MaxNotices,                 \* bound on notifications by SES
    MaxRollbacks,               \* bound on runs of the command that raise
    MaxDeletions                \* bound on stored messages deleted

ASSUME MailAssumption ==
    /\ IsFiniteSet(Recipients) /\ NoMessage \notin Messages
    /\ To \in [Messages -> (SUBSET Recipients) \ {{}}]
    /\ MaxCopies \in Nat /\ MaxNotices \in Nat
    /\ MaxRollbacks \in Nat /\ MaxDeletions \in Nat

ASSUME WindowAssumption ==
    /\ MAX_RETRY_COUNTER \in Nat
    /\ BACKOFF_THRESHOLD \in Nat \ {0}
    /\ DELIVERABILITY_THRESHOLD \in Nat \ {0}

\* Arithmetic the proofs need and their provers do not know.
ASSUME PowersAssumption ==
    /\ 2 ^ 0 = 1
    /\ \A n \in 0..(MAX_RETRY_COUNTER + 1) :
          2 ^ n \in Nat \ {0} /\ 2 ^ (n + 1) = 2 * 2 ^ n

VARIABLES
    db,        \* EmailSent and FailedEmail as the open transaction sees them
    disk,      \* the same as committed
    counter,   \* counter[r]: retry_counter of the BACKOFF flag, or NoFlag
    wait,      \* wait[r]: its next_retry_date - now, no less than the threshold
    checked,   \* checked[r]: checked is set
    banned,    \* banned[r]: the BAN flag and its reason
    stand,     \* stand[m]: where send_messages stands with m
    open,      \* open[m]: the addresses it found not banned, later those to mail
    hold,      \* hold[m]: those it found backing off, not yet enqueued
    own,       \* own[m]: the copy it stored
    date,      \* date[m]: <<r, d>> while it holds a date d for the row of r
    late,      \* late[m]: an hour began since it looked at the backoff flags
    cron,      \* where the command stands
    batch,     \* enqueued_failed_email, those not yet sent
    origin,    \* origin[c]: the message c is a copy of, also once c is gone
    mailed,    \* mailed[c]: the addresses c was handed over for
    bounced,   \* <<c, r>> of the soft bounces handled
    early,     \* those of them handled before their copy was committed
    purged,    \* copies deleted by cl_delete_old_emails
    since,     \* since[r]: hours since the backoff of r began, capped
    notices,   \* notifications so far
    rollbacks, \* runs of the command rolled back
    deletions  \* stored messages deleted

tables == <<db, disk>>
flags  == <<counter, wait, checked, banned>>
sender == <<stand, open, hold, own, date, late>>
run    == <<cron, batch>>
past   == <<origin, mailed, bounced, early, purged, since>>
bounds == <<notices, rollbacks, deletions>>
vars   == <<tables, flags, sender, run, past, bounds>>

Copies    == 1..MaxCopies
Rows      == Copies \X Recipients
NoFlag    == -1
NoDate    == <<>>

Queued   == {"ENQUEUED", "ENQUEUED_DELIVERY"}
Unsent   == Queued \cup {"WAITING"}
Status   == Unsent \cup {"NONE", "IN_PROGRESS", "SUCCESSFUL"}
InFlight == {"queue", "insert"}

INITIAL_HOURS == 2

\* The length of the n-th waiting period, counting from 0, and of all of them
\* together: 2 + 4 + 8 + 16 + 32 + 64 = 126 hours in the code.
Period(n)   == INITIAL_HOURS ^ (n + 1)
WholePeriod == 2 ^ (MAX_RETRY_COUNTER + 2) - 2

\* The two tables: the copies stored, status and next_retry_date of FailedEmail
\* (as hours until then, 0 once it is due).
Table(stored, status, due) == [stored |-> stored, status |-> status, due |-> due]

TableOK(t) ==
    /\ t.stored \in SUBSET Copies
    /\ t.status \in [Rows -> Status]
    /\ t.due \in [Rows -> Nat]

TypeOK ==
    /\ TableOK(db) /\ TableOK(disk)
    /\ counter \in [Recipients -> {NoFlag} \cup 0..MAX_RETRY_COUNTER]
    /\ wait \in [Recipients -> Int]
    /\ checked \in [Recipients -> BOOLEAN]
    /\ banned \in [Recipients -> {"no", "hard", "max_retry"}]
    /\ stand \in [Messages -> InFlight \cup {"new", "open", "done", "raised"}]
    /\ open \in [Messages -> SUBSET Recipients]
    /\ hold \in [Messages -> SUBSET Recipients]
    /\ own \in [Messages -> Copies \cup {0}]
    /\ date \in [Messages -> (Recipients \X Nat) \cup {NoDate}]
    /\ late \in [Messages -> BOOLEAN]
    /\ cron \in {"idle", "checked", "sending"}
    /\ batch \in SUBSET Rows
    /\ origin \in [Copies -> Messages \cup {NoMessage}]
    /\ mailed \in [Copies -> SUBSET Recipients]
    /\ bounced \in SUBSET Rows
    /\ early \in SUBSET Rows
    /\ purged \in SUBSET Copies
    /\ since \in [Recipients -> Nat]
    /\ notices \in Nat /\ rollbacks \in Nat /\ deletions \in Nat

Init ==
    /\ db = Table({}, [p \in Rows |-> "NONE"], [p \in Rows |-> 0])
    /\ disk = db
    /\ counter = [r \in Recipients |-> NoFlag]
    /\ wait = [r \in Recipients |-> 0]
    /\ checked = [r \in Recipients |-> FALSE]
    /\ banned = [r \in Recipients |-> "no"]
    /\ stand = [m \in Messages |-> "new"]
    /\ open = [m \in Messages |-> {}]
    /\ hold = [m \in Messages |-> {}]
    /\ own = [m \in Messages |-> 0]
    /\ date = [m \in Messages |-> NoDate]
    /\ late = [m \in Messages |-> FALSE]
    /\ cron = "idle"
    /\ batch = {}
    /\ origin = [c \in Copies |-> NoMessage]
    /\ mailed = [c \in Copies |-> {}]
    /\ bounced = {}
    /\ early = {}
    /\ purged = {}
    /\ since = [r \in Recipients |-> 0]
    /\ notices = 0 /\ rollbacks = 0 /\ deletions = 0

----------------------------------------------------------------------------
(* The flags and the queue, as functions of the tables.                    *)

under_waiting_period(r) == counter[r] # NoFlag /\ wait[r] > 0

\* The extra minute makes the row due at the first tick after the period.
get_next_retry_date(r) == IF under_waiting_period(r) THEN wait[r] + 1 ELSE 0

\* Does r have its one row with status ENQUEUED in t?
Probed(t, r) == \E c \in Copies : t.status[<<c, r>>] = "ENQUEUED"

WithStatus(t, P, status) ==
    Table(t.stored, [p \in Rows |-> IF p \in P THEN status ELSE t.status[p]], t.due)

WithRow(t, c, r, status, d) ==
    Table(t.stored, [t.status EXCEPT ![<<c, r>>] = status], [t.due EXCEPT ![<<c, r>>] = d])

WithCopy(t, c) == Table(t.stored \cup {c}, t.status, t.due)

\* The status of a new row of r: the first probes the address, the others wait.
NewStatus(t, r) == IF Probed(t, r) THEN "WAITING" ELSE "ENQUEUED"

\* (mutant) a run does not hold mail back
HoldNothing(t, c, R) == t

\* enqueue_email in the command's transaction, for a copy stored just before.
\* A copy without rows meets no duplicate, so every recipient gets a row.
HoldBack(t, c, R) ==
    Table(t.stored,
          [p \in Rows |-> IF p[1] = c /\ p[2] \in R THEN NewStatus(t, p[2]) ELSE t.status[p]],
          [p \in Rows |-> IF p[1] = c /\ p[2] \in R THEN get_next_retry_date(p[2]) ELSE t.due[p]])

\* The INSERT of an ENQUEUED row waits for a transaction that has inserted one
\* and not committed it (unique_failed_enqueued).
IndexIsFree(r) == Probed(db, r) => Probed(disk, r)

\* (mutant) a notification that comes twice makes a row twice
EnqueueAgain(c, r, d) ==
    /\ IndexIsFree(r)
    /\ disk' = WithRow(disk, c, r, NewStatus(disk, r), d)
    /\ db' = WithRow(db, c, r, NewStatus(disk, r), d)

\* enqueue_email for one recipient, outside the command's transaction: a second
\* row for the same copy is not made.
Enqueue(c, r, d) ==
    /\ IndexIsFree(r)
    /\ IF disk.status[<<c, r>>] # "NONE"
         THEN UNCHANGED tables
         ELSE /\ disk' = WithRow(disk, c, r, NewStatus(disk, r), d)
              /\ db' = WithRow(db, c, r, NewStatus(disk, r), d)

IsFresh(c) == origin[c] = NoMessage /\ \A k \in 1..(c - 1) : origin[k] # NoMessage

----------------------------------------------------------------------------
(* send_messages for a message the site sends, outside any transaction.    *)

Unbanned(R) == {r \in R : banned[r] = "no"}
BackingOff(R) == {r \in R : under_waiting_period(r)}

\* Are all its recipients banned, the message is discarded.
CheckBans(m) ==
    /\ stand[m] = "new"
    /\ open' = [open EXCEPT ![m] = Unbanned(To[m])]
    /\ stand' = [stand EXCEPT ![m] = IF Unbanned(To[m]) = {} THEN "done" ELSE "open"]
    /\ UNCHANGED <<tables, flags, hold, own, date, late, run, past, bounds>>

\* The brake is not engaged, and the message is stored.
CheckBackoff(m) ==
    /\ stand[m] = "open"
    /\ \E c \in Copies :
          /\ IsFresh(c)
          /\ origin' = [origin EXCEPT ![c] = m]
          /\ own' = [own EXCEPT ![m] = c]
          /\ disk' = WithCopy(disk, c)
          /\ db' = WithCopy(db, c)
    /\ hold' = [hold EXCEPT ![m] = BackingOff(open[m])]
    /\ open' = [open EXCEPT ![m] = @ \ BackingOff(@)]
    /\ stand' = [stand EXCEPT ![m] = "queue"]
    /\ UNCHANGED <<flags, date, late, run, mailed, bounced, early, purged, since, bounds>>

\* enqueue_email computes the date before it locks the stored message.
ReadDate(m, r) ==
    /\ stand[m] = "queue" /\ r \in hold[m]
    /\ date' = [date EXCEPT ![m] = <<r, get_next_retry_date(r)>>]
    /\ stand' = [stand EXCEPT ![m] = "insert"]
    /\ UNCHANGED <<tables, flags, open, hold, own, late, run, past, bounds>>

\* Where it finds a duplicate it returns, whoever it has not come to.
InsertRow(m) ==
    /\ stand[m] = "insert"
    /\ Enqueue(own[m], date[m][1], date[m][2])
    /\ hold' = [hold EXCEPT ![m] =
                   IF disk.status[<<own[m], date[m][1]>>] # "NONE" THEN {} ELSE @ \ {date[m][1]}]
    /\ date' = [date EXCEPT ![m] = NoDate]
    /\ stand' = [stand EXCEPT ![m] = "queue"]
    /\ UNCHANGED <<flags, open, own, late, run, past, bounds>>

Deliver(m) ==
    /\ stand[m] = "queue" /\ hold[m] = {}
    /\ mailed' = [mailed EXCEPT ![own[m]] = open[m]]
    /\ stand' = [stand EXCEPT ![m] = "done"]
    /\ UNCHANGED <<tables, flags, open, hold, own, date, late, run,
                   origin, bounced, early, purged, since, bounds>>

\* The emergency brake or SES raises.
SendRaises(m) ==
    /\ \/ stand[m] = "open"
       \/ stand[m] = "queue" /\ hold[m] = {} /\ open[m] # {}
    /\ stand' = [stand EXCEPT ![m] = "raised"]
    /\ UNCHANGED <<tables, flags, open, hold, own, date, late, run, past, bounds>>

SendStep(m) ==
    \/ CheckBans(m)
    \/ CheckBackoff(m)
    \/ \E r \in Recipients : ReadDate(m, r)
    \/ InsertRow(m)
    \/ Deliver(m)
    \/ SendRaises(m)

----------------------------------------------------------------------------
(* Notifications by SES.  They may come late, out of order and repeatedly. *)

SetFlag(r, n, w, isChecked, elapsed) ==
    /\ counter' = [counter EXCEPT ![r] = n]
    /\ wait' = [wait EXCEPT ![r] = w]
    /\ checked' = [checked EXCEPT ![r] = isChecked]
    /\ since' = [since EXCEPT ![r] = elapsed]

StartBackoff(r) ==
    /\ counter[r] = NoFlag
    /\ SetFlag(r, 0, INITIAL_HOURS, FALSE, 0)
    /\ UNCHANGED banned

\* (mutant) a new failure does not reset checked
RestartKeepsChecked(r) ==
    /\ counter[r] # NoFlag /\ wait[r] <= -BACKOFF_THRESHOLD
    /\ SetFlag(r, 0, INITIAL_HOURS, checked[r], 0)
    /\ UNCHANGED banned

\* The last period ended BACKOFF_THRESHOLD hours ago: a new failure.
RestartBackoff(r) ==
    /\ counter[r] # NoFlag /\ wait[r] <= -BACKOFF_THRESHOLD
    /\ SetFlag(r, 0, INITIAL_HOURS, FALSE, 0)
    /\ UNCHANGED banned

\* Within the period the flag is left alone.
IgnoreBounce(r) ==
    /\ under_waiting_period(r)
    /\ UNCHANGED <<flags, since>>

\* (mutant) a period that ends within the hour is over
PeriodIsOverSoon(r) ==
    /\ counter[r] # NoFlag
    /\ -BACKOFF_THRESHOLD < wait[r] /\ wait[r] <= 1

\* Has the period expired, recently?
PeriodIsOver(r) ==
    /\ counter[r] # NoFlag
    /\ -BACKOFF_THRESHOLD < wait[r] /\ wait[r] <= 0

\* (mutant) the counter has no limit
ExtendForEver(r) ==
    /\ PeriodIsOver(r)
    /\ SetFlag(r, counter[r] + 1, Period(counter[r] + 1), FALSE, since[r])
    /\ UNCHANGED banned

ExtendBackoff(r) ==
    /\ PeriodIsOver(r) /\ counter[r] < MAX_RETRY_COUNTER
    /\ SetFlag(r, counter[r] + 1, Period(counter[r] + 1), FALSE, since[r])
    /\ UNCHANGED banned

BanAfterRetries(r) ==
    /\ PeriodIsOver(r) /\ counter[r] >= MAX_RETRY_COUNTER
    /\ banned' = [banned EXCEPT ![r] = IF @ = "no" THEN "max_retry" ELSE @]
    /\ SetFlag(r, NoFlag, 0, FALSE, 0)

\* handle_soft_bounce is one transaction and locks the flag of r.
SoftBounce(c, r) ==
    /\ r \in mailed[c] /\ notices < MaxNotices
    /\ notices' = notices + 1
    /\ bounced' = bounced \cup {<<c, r>>}
    /\ early' = early \cup (IF c \in db.stored \ disk.stored THEN {<<c, r>>} ELSE {})
    /\ \/ /\ StartBackoff(r) \/ RestartBackoff(r) \/ IgnoreBounce(r) \/ ExtendBackoff(r)
          /\ \/ c \in disk.stored /\ Enqueue(c, r, get_next_retry_date(r)')
             \/ c \notin disk.stored /\ UNCHANGED tables
       \/ BanAfterRetries(r) /\ UNCHANGED tables
    /\ UNCHANGED <<sender, run, origin, mailed, purged, rollbacks, deletions>>

\* handle_hard_bounce and handle_complaint.
BanAddress(r) ==
    /\ \E c \in Copies : r \in mailed[c]
    /\ notices < MaxNotices
    /\ notices' = notices + 1
    /\ banned[r] = "no"
    /\ banned' = [banned EXCEPT ![r] = "hard"]
    /\ UNCHANGED <<tables, counter, wait, checked, sender, run, past, rollbacks, deletions>>

----------------------------------------------------------------------------
(* The command cl_retry_failed_email.                                      *)

Deliverable(r) ==
    /\ counter[r] # NoFlag /\ ~checked[r]
    /\ wait[r] <= -DELIVERABILITY_THRESHOLD

\* schedule_failed_email for the addresses R: none of them is in a period.
Schedule(t, R) ==
    LET P == {p \in Rows : p[2] \in R /\ t.status[p] = "WAITING"}
    IN  Table(t.stored,
              [p \in Rows |-> IF p \in P THEN "ENQUEUED_DELIVERY" ELSE t.status[p]],
              [p \in Rows |-> IF p \in P THEN get_next_retry_date(p[2]) ELSE t.due[p]])

\* The first transaction locks the flags it selects.
CheckDeliverability ==
    /\ cron = "idle"
    /\ LET R == {r \in Recipients : Deliverable(r)}
       IN  /\ checked' = [r \in Recipients |-> checked[r] \/ r \in R]
           /\ disk' = Schedule(disk, R)
           /\ db' = Schedule(db, R)
    /\ cron' = "checked"
    /\ UNCHANGED <<counter, wait, banned, sender, batch, past, bounds>>

\* (mutant) only the rows that probe an address are re-sent
ProbesDue(t) == {p \in Rows : t.status[p] = "ENQUEUED" /\ t.due[p] = 0}

Due(t) == {p \in Rows : t.status[p] \in Queued /\ t.due[p] = 0}

\* The second one locks the rows that are due.
SelectBatch ==
    /\ cron = "checked"
    /\ batch' = Due(disk)
    /\ cron' = "sending"
    /\ UNCHANGED <<tables, flags, sender, past, bounds>>

\* convert_to_email_multipart addresses the stored message, not the row.
Resent(c, r) == To[origin[c]]

\* One row: its message goes through send_messages once more.
Retry(c, r) ==
    /\ cron = "sending" /\ <<c, r>> \in batch
    /\ batch' = batch \ {<<c, r>>}
    /\ LET R == Unbanned(Resent(c, r))
       IN  IF R = {}
             THEN /\ db' = WithStatus(db, {<<c, r>>}, "SUCCESSFUL")
                  /\ UNCHANGED <<origin, mailed>>
             ELSE \E n \in Copies :
                    /\ IsFresh(n)
                    /\ origin' = [origin EXCEPT ![n] = origin[c]]
                    /\ mailed' = [mailed EXCEPT ![n] = R \ BackingOff(R)]
                    /\ LET t == WithStatus(WithCopy(db, n), {<<c, r>>}, "IN_PROGRESS")
                       IN  db' = WithStatus(HoldBack(t, n, BackingOff(R)),
                                            {<<c, r>>}, "SUCCESSFUL")
    /\ UNCHANGED <<disk, flags, sender, cron, bounced, early, purged, since, bounds>>

CommitRun ==
    /\ cron = "sending" /\ batch = {}
    /\ disk' = db
    /\ cron' = "idle"
    /\ UNCHANGED <<db, flags, sender, batch, past, bounds>>

\* The brake or SES raises, or the command is killed: the rows and copies of
\* the whole run are rolled back, its mail is out.
RunRaises ==
    /\ cron = "sending" /\ rollbacks < MaxRollbacks
    /\ rollbacks' = rollbacks + 1
    /\ db' = disk
    /\ batch' = {}
    /\ cron' = "idle"
    /\ UNCHANGED <<disk, flags, sender, past, notices, deletions>>

CronStep ==
    \/ CheckDeliverability
    \/ SelectBatch
    \/ \E p \in Rows : Retry(p[1], p[2])
    \/ CommitRun
    \/ RunRaises

\* cl_delete_old_emails, for any number of days the operator gives: the copy is
\* not being sent any more.  Its rows go with it, so it waits for the locks of
\* a run.
Locked(p) == p \in batch \/ db.status[p] # disk.status[p]

Without(t, c) ==
    Table(t.stored \ {c},
          [p \in Rows |-> IF p[1] = c THEN "NONE" ELSE t.status[p]],
          [p \in Rows |-> IF p[1] = c THEN 0 ELSE t.due[p]])

DeleteOld(c) ==
    /\ deletions < MaxDeletions /\ c \in disk.stored
    /\ \A m \in Messages : own[m] = c => stand[m] \notin InFlight
    /\ \A r \in Recipients : ~Locked(<<c, r>>)
    /\ deletions' = deletions + 1
    /\ purged' = purged \cup {c}
    /\ disk' = Without(disk, c)
    /\ db' = Without(db, c)
    /\ UNCHANGED <<flags, sender, run, origin, mailed, bounced, early, since, notices, rollbacks>>

Larger(a, b) == IF a > b THEN a ELSE b
Smaller(a, b) == IF a < b THEN a ELSE b

Later(t) == Table(t.stored, t.status, [p \in Rows |-> Larger(t.due[p] - 1, 0)])

\* An hour begins.  Sending a message takes far less than an hour, so at most
\* one begins between its look at the flags and its last row.
Tick ==
    /\ \A m \in Messages : stand[m] \in InFlight => ~late[m]
    /\ late' = [m \in Messages |-> stand[m] \in InFlight]
    /\ db' = Later(db) /\ disk' = Later(disk)
    /\ wait' = [r \in Recipients |-> IF counter[r] = NoFlag THEN 0
                                     ELSE Larger(wait[r] - 1, -BACKOFF_THRESHOLD)]
    /\ since' = [r \in Recipients |-> IF counter[r] = NoFlag THEN 0
                                      ELSE Smaller(since[r] + 1, WholePeriod)]
    /\ date' = [m \in Messages |-> IF date[m] = NoDate THEN NoDate
                                   ELSE <<date[m][1], Larger(date[m][2] - 1, 0)>>]
    /\ UNCHANGED <<counter, checked, banned, stand, open, hold, own, run,
                   origin, mailed, bounced, early, purged, bounds>>

Next ==
    \/ \E m \in Messages : SendStep(m)
    \/ \E c \in Copies, r \in Recipients : SoftBounce(c, r)
    \/ \E r \in Recipients : BanAddress(r)
    \/ CronStep
    \/ \E c \in Copies : DeleteOld(c)
    \/ Tick

Spec == Init /\ [][Next]_vars

\* Senders and the command are run to their end, the command again and again,
\* and time passes.  Nobody has to notify, delete or fail.
FairSpec ==
    /\ Spec
    /\ \A m \in Messages : WF_vars(SendStep(m))
    /\ WF_vars(CronStep)
    /\ WF_vars(Tick)

----------------------------------------------------------------------------
(* What must hold.                                                         *)

\* A row that waits for its address to be declared deliverable has a backoff
\* flag that the command will still look at, or its address is banned.
WaitingIsWatched ==
    \A t \in {db, disk} : \A p \in Rows :
        t.status[p] = "WAITING" =>
            banned[p[2]] # "no" \/ (counter[p[2]] # NoFlag /\ ~checked[p[2]])

CopiesFor(m, r) == {c \in Copies : origin[c] = m /\ r \in mailed[c]}

IsLast(c, m, r) == c \in CopiesFor(m, r) /\ \A d \in CopiesFor(m, r) : d <= c

\* The last mail of m to r bounced, or m was held back and never mailed.
Owed(m, r) ==
    \/ \E c \in Copies : IsLast(c, m, r) /\ <<c, r>> \in bounced
    \/ /\ CopiesFor(m, r) = {}
       /\ \E c \in Copies : origin[c] = m /\ disk.status[<<c, r>>] # "NONE"

IsQueued(m, r) ==
    \E c \in Copies : origin[c] = m /\ disk.status[<<c, r>>] \in Unsent

\* The run that mailed m to r last was rolled back, and m waits to be sent to
\* all its addresses again because of another one.
SentWithOthers(m, r) ==
    /\ \E c \in Copies : IsLast(c, m, r) /\ c \notin disk.stored
    /\ \E q \in Recipients : IsQueued(m, q)

\* A message an address should have and has not is in the queue, unless the
\* address is banned, an operator deleted a copy of it, or a copy bounced while
\* the run that sent it was still open.
NothingElseIsLost ==
    \A m \in Messages, r \in Recipients :
        Owed(m, r) => \/ IsQueued(m, r) \/ SentWithOthers(m, r)
                      \/ banned[r] # "no"
                      \/ \E c \in purged : origin[c] = m
                      \/ \E c \in Copies : origin[c] = m /\ <<c, r>> \in early

\* A message to a single address is mailed more than once only because copies
\* of it bounced, or because a run was rolled back after it mailed it.
OnlyFailuresRepeat ==
    \A m \in Messages, r \in Recipients :
        To[m] = {r} =>
        Cardinality(CopiesFor(m, r)) <=
            1 + Cardinality({c \in CopiesFor(m, r) : <<c, r>> \in bounced}) + rollbacks

\* An address is banned for its soft bounces only after they went on for the
\* sum of all waiting periods.
BanIsEarned ==
    [][\A r \in Recipients :
          counter[r] # NoFlag /\ counter'[r] = NoFlag => since[r] >= WholePeriod]_vars

\* Every row of the queue is sent, unless its address is banned or the message
\* is deleted.
QueueDrains ==
    \A p \in Rows :
        disk.status[p] \in Unsent ~> disk.status[p] \notin Unsent \/ banned[p[2]] # "no"
=============================================================================
