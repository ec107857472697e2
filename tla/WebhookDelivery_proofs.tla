----------------------- MODULE WebhookDelivery_proofs -----------------------
(***************************************************************************)
(* Proofs about WebhookDelivery, for any finite set of events, any         *)
(* webhooks, retry limit, notification schedule and cut-off, and any       *)
(* number of crashes and settings saves.                                   *)
(*                                                                         *)
(* The invariant IInv below is inductive.  Its parts say what each copy of *)
(* a row looks like for each stand of its task (Rows), that the copies     *)
(* agree outside a round and how they may differ inside one (OutsideOK,    *)
(* IsolationOK), what the row locks protect (BatchOK), and what the        *)
(* counters and mails of the properties remember (AcksOK, NoticeOK,        *)
(* ExhaustOK).                                                             *)
(***************************************************************************)
EXTENDS WebhookDelivery, FiniteSetTheorems, TLAPS

Rows(t) ==
    \A e \in Events :
        /\ t.counter[e] <= MaxRetry + 1
        /\ t.status[e] \in Retryable =>
              t.counter[e] <= MaxRetry /\ task[e] = "done" /\ e \notin DebugEvents
        /\ task[e] \in {"none", "queued"} => t.status[e] = "NONE"
        /\ task[e] \in Live => t.status[e] = "IN_PROGRESS"
        /\ t.status[e] \in {"NONE", "IN_PROGRESS"} => t.counter[e] = 0
        /\ t.status[e] = "SUCCESSFUL" => acks[e] > 0

OutsideOK ==
    /\ daemon \notin InRound => db = disk
    /\ daemon \in {"cut", "restored"} => db.enabled = disk.enabled
    /\ daemon # "sending" => batch = {}

IsolationOK ==
    \A e \in Events :
        db.status[e] # disk.status[e] =>
            disk.status[e] \in Retryable /\ db.status[e] \in Retryable \cup Final

BatchOK ==
    \A e \in batch :
        /\ db.status[e] \in Retryable
        /\ Parent[e] \in locked
        /\ disk.enabled[Parent[e]]

AcksOK ==
    \A e \in Events :
        /\ task[e] = "ok" => acks[e] > 0
        /\ acks[e] <= crashes + 1
        /\ task[e] # "ok" /\ db.status[e] \notin {"SUCCESSFUL", "DELETED"}
              => acks[e] <= crashes

NoticeOK ==
    \A e \in Events :
        <<e, MaxRetry + 1>> \in mailed /\ crashes = 0
            => db.status[e] \in {"FAILED", "DELETED"}

Exhausted(e) == db.status[e] = "FAILED" /\ db.counter[e] = MaxRetry + 1

ExhaustOK ==
    \A w \in Webhooks :
        disk.enabled[w] /\ ~db.enabled[w] =>
            \E e \in Events : Parent[e] = w /\ Exhausted(e)

IInv ==
    /\ TypeOK
    /\ Rows(db) /\ Rows(disk)
    /\ OutsideOK /\ IsolationOK /\ BatchOK
    /\ AcksOK /\ NoticeOK /\ ExhaustOK

----------------------------------------------------------------------------
\* Every delay is a number of ticks.
LEMMA DelayIsInt == \A n \in Nat : get_next_webhook_retry_date(n) \in Int
  BY ScheduleAssumption, SMT DEF get_next_webhook_retry_date

\* The position of date_created among the rows is a number.
LEMMA PositionIsNat ==
  ASSUME NEW S \in SUBSET Events PROVE Cardinality(S) \in Nat
  BY InputAssumption, FS_Subset, FS_CardinalityType DEF InputAssumption

----------------------------------------------------------------------------
(* Every action keeps every part of the invariant.                         *)

\* A task takes a position in date_created order; no row changes.
LEMMA StartTaskKeeps ==
  ASSUME IInv, NEW e \in Events, StartTask(e)
  PROVE  IInv'
<1> USE DEF Status, Final, Retryable, NoRow, Live, InRound, Closed, MaxRetry, SetTask,
            rows, owner, seen, round, tables, TooOld
<1>1. TypeOK'
  BY PositionIsNat DEF StartTask, IInv, TypeOK, TableOK
<1>2. Rows(db)'
  BY DEF StartTask, IInv, Rows
<1>3. Rows(disk)'
  BY DEF StartTask, IInv, Rows
<1>4. OutsideOK' /\ IsolationOK' /\ BatchOK' /\ AcksOK' /\ NoticeOK' /\ ExhaustOK'
  BY DEF StartTask, IInv, OutsideOK, IsolationOK, BatchOK, AcksOK, NoticeOK,
     ExhaustOK, Exhausted
<1> QED BY <1>1, <1>2, <1>3, <1>4 DEF IInv

\* The INSERT puts the same new row in both copies.
LEMMA CreateEventKeeps ==
  ASSUME IInv, NEW e \in Events, CreateEvent(e)
  PROVE  IInv'
<1> USE DEF Status, Final, Retryable, NoRow, Live, InRound, Closed, MaxRetry, SetTask,
            rows, owner, seen, round, tables, TooOld
<1>1. TypeOK'
  BY DEF CreateEvent, Autocommit, WithStatus, WithEvents, Table, IInv, TypeOK,
     TableOK
<1>2. Rows(db)'
  BY DEF CreateEvent, Autocommit, WithStatus, WithEvents, Table, IInv, TypeOK,
     TableOK, Rows
<1>3. Rows(disk)'
  BY DEF CreateEvent, Autocommit, WithStatus, WithEvents, Table, IInv, TypeOK,
     TableOK, Rows
<1>4. OutsideOK'
  BY DEF CreateEvent, Autocommit, WithStatus, WithEvents, Table, IInv, OutsideOK
<1>5. IsolationOK'
  BY DEF CreateEvent, Autocommit, WithStatus, WithEvents, Table, IInv, TypeOK,
     TableOK, IsolationOK
<1>6. AcksOK'
  BY DEF CreateEvent, Autocommit, WithStatus, WithEvents, Table, IInv, AcksOK, Rows
<1>7. BatchOK' /\ NoticeOK' /\ ExhaustOK'
  BY DEF CreateEvent, Autocommit, WithStatus, WithEvents, Table, IInv, BatchOK,
     NoticeOK, ExhaustOK, Rows, Exhausted
<1> QED BY <1>1, <1>2, <1>3, <1>4, <1>5, <1>6, <1>7 DEF IInv

\* An acknowledgement, before it is recorded.
LEMMA PostAnsweredKeeps ==
  ASSUME IInv, NEW e \in Events, PostAnswered(e)
  PROVE  IInv'
<1> USE DEF Status, Final, Retryable, NoRow, Live, InRound, Closed, MaxRetry, SetTask,
            rows, owner, seen, round, tables, TooOld
<1>1. TypeOK'
  BY DEF PostAnswered, IInv, TypeOK, TableOK
<1>2. Rows(db)'
  BY DEF PostAnswered, IInv, Rows
<1>3. Rows(disk)'
  BY DEF PostAnswered, IInv, Rows
<1>4. AcksOK'
  BY DEF PostAnswered, IInv, TypeOK, TableOK, AcksOK, Rows
<1>5. OutsideOK' /\ IsolationOK' /\ BatchOK' /\ NoticeOK' /\ ExhaustOK'
  BY DEF PostAnswered, IInv, OutsideOK, IsolationOK, BatchOK, NoticeOK, ExhaustOK,
     Exhausted
<1> QED BY <1>1, <1>2, <1>3, <1>4, <1>5 DEF IInv

\* A failed POST, before it is recorded.
LEMMA PostFailedKeeps ==
  ASSUME IInv, NEW e \in Events, PostFailed(e)
  PROVE  IInv'
<1> USE DEF Status, Final, Retryable, NoRow, Live, InRound, Closed, MaxRetry, SetTask,
            rows, owner, seen, round, tables, TooOld
<1>1. TypeOK'
  BY DEF PostFailed, IInv, TypeOK, TableOK
<1>2. Rows(db)'
  BY DEF PostFailed, IInv, Rows
<1>3. Rows(disk)'
  BY DEF PostFailed, IInv, Rows
<1>4. OutsideOK' /\ IsolationOK' /\ BatchOK' /\ AcksOK' /\ NoticeOK' /\ ExhaustOK'
  BY DEF PostFailed, IInv, OutsideOK, IsolationOK, BatchOK, AcksOK, NoticeOK,
     ExhaustOK, Exhausted
<1> QED BY <1>1, <1>2, <1>3, <1>4 DEF IInv

\* The verdict of a first attempt that was acknowledged.
LEMMA RecordSuccessKeeps ==
  ASSUME IInv, NEW e \in Events, RecordSuccess(e)
  PROVE  IInv'
<1> USE DEF Status, Final, Retryable, NoRow, Live, InRound, Closed, MaxRetry, SetTask,
            rows, owner, seen, round, tables, TooOld
<1>1. TypeOK'
  BY DEF RecordSuccess, Autocommit, SaveSuccess, WithStatus, WithEvents, Table,
     IInv, TypeOK, TableOK
<1>2. Rows(db)'
  BY DEF RecordSuccess, Autocommit, SaveSuccess, WithStatus, WithEvents, Table,
     IInv, TypeOK, TableOK, Rows, AcksOK
<1>3. Rows(disk)'
  BY DEF RecordSuccess, Autocommit, SaveSuccess, WithStatus, WithEvents, Table,
     IInv, TypeOK, TableOK, Rows, AcksOK
<1>4. OutsideOK'
  BY DEF RecordSuccess, Autocommit, SaveSuccess, WithStatus, WithEvents, Table,
     IInv, OutsideOK
<1>5. IsolationOK'
  BY DEF RecordSuccess, Autocommit, SaveSuccess, WithStatus, WithEvents, Table,
     IInv, TypeOK, TableOK, IsolationOK
<1>6. BatchOK'
  BY DEF RecordSuccess, Autocommit, SaveSuccess, WithStatus, WithEvents, Table,
     IInv, BatchOK, Rows
<1>7. AcksOK'
  BY DEF RecordSuccess, Autocommit, SaveSuccess, WithStatus, WithEvents, Table,
     IInv, TypeOK, TableOK, AcksOK
<1>8. NoticeOK'
  BY DEF RecordSuccess, Autocommit, SaveSuccess, WithStatus, WithEvents, Table,
     IInv, NoticeOK, Rows
<1>9. ExhaustOK'
  BY DEF RecordSuccess, Autocommit, SaveSuccess, WithStatus, WithEvents, Table,
     IInv, ExhaustOK, Rows, Exhausted
<1> QED BY <1>1, <1>2, <1>3, <1>4, <1>5, <1>6, <1>7, <1>8, <1>9 DEF IInv

\* The check reads the webhook and changes nothing.
LEMMA ReadWebhookKeeps ==
  ASSUME IInv, NEW e \in Events, ReadWebhook(e)
  PROVE  IInv'
<1> USE DEF Status, Final, Retryable, NoRow, Live, InRound, Closed, MaxRetry, SetTask,
            rows, owner, seen, round, tables, TooOld
<1>1. TypeOK'
  BY DEF ReadWebhook, Ignored, IInv, TypeOK, TableOK
<1>2. Rows(db)'
  BY DEF ReadWebhook, Ignored, IInv, Rows
<1>3. Rows(disk)'
  BY DEF ReadWebhook, Ignored, IInv, Rows
<1>4. OutsideOK' /\ IsolationOK' /\ BatchOK' /\ AcksOK' /\ NoticeOK' /\ ExhaustOK'
  BY DEF ReadWebhook, Ignored, IInv, OutsideOK, IsolationOK, BatchOK, AcksOK,
     NoticeOK, ExhaustOK, Exhausted
<1> QED BY <1>1, <1>2, <1>3, <1>4 DEF IInv

\* The count of a first failure, outside any round.
LEMMA CountFirstFailureKeeps ==
  ASSUME IInv, NEW e \in Events, CountFirstFailure(e)
  PROVE  IInv'
<1> USE DEF Status, Final, Retryable, NoRow, Live, InRound, Closed, MaxRetry, SetTask,
            rows, owner, seen, round, tables, TooOld
<1>1. TypeOK'
  <2>1. Parent[e] \in Webhooks
    BY InputAssumption DEF InputAssumption
  <2>2. db'.failures \in [Webhooks -> Nat] /\ disk'.failures \in [Webhooks -> Nat]
    BY <2>1 DEF CountFirstFailure, Autocommit, CountFailure, WithWebhooks, Table,
       IInv, TypeOK, TableOK
  <2> QED BY <2>2 DEF CountFirstFailure, Autocommit, CountFailure, WithWebhooks, Table,
         IInv, TypeOK, TableOK
<1>2. Rows(db)'
  BY DEF CountFirstFailure, Autocommit, CountFailure, WithWebhooks, Table, IInv,
     Rows
<1>3. Rows(disk)'
  BY DEF CountFirstFailure, Autocommit, CountFailure, WithWebhooks, Table, IInv,
     Rows
<1>4. OutsideOK'
  BY DEF CountFirstFailure, Autocommit, CountFailure, WithWebhooks, Table, IInv,
     OutsideOK
<1>5. IsolationOK' /\ BatchOK' /\ AcksOK' /\ NoticeOK' /\ ExhaustOK'
  BY DEF CountFirstFailure, Autocommit, CountFailure, WithWebhooks, Table, IInv,
     IsolationOK, BatchOK, AcksOK, NoticeOK, ExhaustOK, Exhausted
<1> QED BY <1>1, <1>2, <1>3, <1>4, <1>5 DEF IInv

\* The event of a failed first attempt starts to wait for its retry.
LEMMA RecordFailureKeeps ==
  ASSUME IInv, NEW e \in Events, RecordFailure(e)
  PROVE  IInv'
<1> USE DEF Status, Final, Retryable, NoRow, Live, InRound, Closed, MaxRetry, SetTask,
            rows, owner, seen, round, tables, TooOld
<1>1. TypeOK'
  BY DelayIsInt DEF RecordFailure, Autocommit, SaveFailure, WithEvents, Table, IInv,
     TypeOK, TableOK
<1>2. Rows(db)'
  BY ScheduleAssumption DEF RecordFailure, Autocommit, SaveFailure, WithEvents,
     Table, IInv, TypeOK, TableOK, Rows, ScheduleAssumption
<1>3. Rows(disk)'
  BY ScheduleAssumption DEF RecordFailure, Autocommit, SaveFailure, WithEvents,
     Table, IInv, TypeOK, TableOK, Rows, ScheduleAssumption
<1>4. OutsideOK'
  BY DEF RecordFailure, Autocommit, SaveFailure, WithEvents, Table, IInv, OutsideOK
<1>5. IsolationOK'
  BY DEF RecordFailure, Autocommit, SaveFailure, WithEvents, Table, IInv, TypeOK,
     TableOK, IsolationOK, Rows
<1>6. BatchOK'
  BY DEF RecordFailure, Autocommit, SaveFailure, WithEvents, Table, IInv, BatchOK,
     Rows
<1>7. AcksOK'
  BY DEF RecordFailure, Autocommit, SaveFailure, WithEvents, Table, IInv, AcksOK,
     Rows
<1>8. NoticeOK'
  BY DEF RecordFailure, Autocommit, SaveFailure, WithEvents, Table, IInv, NoticeOK,
     Rows
<1>9. ExhaustOK'
  <2> SUFFICES ASSUME NEW w \in Webhooks, disk'.enabled[w], ~db'.enabled[w]
               PROVE  \E f \in Events : Parent[f] = w /\ Exhausted(f)'
    BY DEF ExhaustOK
  <2>1. PICK f \in Events : Parent[f] = w /\ Exhausted(f)
    BY DEF RecordFailure, Autocommit, SaveFailure, WithEvents, Table, IInv,
       ExhaustOK
  <2>2. f # e
    BY <2>1 DEF Exhausted, RecordFailure, IInv, Rows
  <2>3. Exhausted(f)'
    BY <2>1, <2>2 DEF Exhausted, RecordFailure, Autocommit, SaveFailure, WithEvents,
       Table, IInv
  <2> QED BY <2>1, <2>3
<1> QED BY <1>1, <1>2, <1>3, <1>4, <1>5, <1>6, <1>7, <1>8, <1>9 DEF IInv

\* A dead task leaves its row IN_PROGRESS.
LEMMA TaskDiesKeeps ==
  ASSUME IInv, NEW e \in Events, TaskDies(e)
  PROVE  IInv'
<1> USE DEF Status, Final, Retryable, NoRow, Live, InRound, Closed, MaxRetry, SetTask,
            rows, owner, seen, round, tables, TooOld
<1>1. TypeOK'
  BY DEF TaskDies, IInv, TypeOK, TableOK
<1>2. Rows(db)'
  BY DEF TaskDies, IInv, Rows
<1>3. Rows(disk)'
  BY DEF TaskDies, IInv, Rows
<1>4. AcksOK'
  BY DEF TaskDies, IInv, TypeOK, TableOK, AcksOK
<1>5. OutsideOK' /\ IsolationOK' /\ BatchOK' /\ NoticeOK' /\ ExhaustOK'
  BY DEF TaskDies, IInv, TypeOK, TableOK, OutsideOK, IsolationOK, BatchOK, NoticeOK,
     ExhaustOK, Exhausted
<1> QED BY <1>1, <1>2, <1>3, <1>4, <1>5 DEF IInv

\* The daily purge, between rounds.
LEMMA DeleteOldKeeps ==
  ASSUME IInv, DeleteOld
  PROVE  IInv'
<1> USE DEF Status, Final, Retryable, NoRow, Live, InRound, Closed, MaxRetry, SetTask,
            rows, owner, seen, round, tables, TooOld
<1>1. TypeOK'
  BY DEF DeleteOld, Autocommit, WithStatus, WithEvents, Table, IInv, TypeOK, TableOK
<1>2. Rows(db)'
  BY DEF DeleteOld, Autocommit, WithStatus, WithEvents, Table, IInv, Rows
<1>3. Rows(disk)'
  BY DEF DeleteOld, Autocommit, WithStatus, WithEvents, Table, IInv, Rows
<1>4. OutsideOK'
  BY DEF DeleteOld, Autocommit, WithStatus, WithEvents, Table, IInv, OutsideOK
<1>5. IsolationOK'
  BY DEF DeleteOld, Autocommit, WithStatus, WithEvents, Table, IInv, IsolationOK
<1>6. BatchOK'
  BY DEF DeleteOld, Autocommit, WithStatus, WithEvents, Table, IInv, BatchOK,
     OutsideOK
<1>7. AcksOK'
  BY DEF DeleteOld, Autocommit, WithStatus, WithEvents, Table, IInv, AcksOK
<1>8. NoticeOK'
  BY DEF DeleteOld, Autocommit, WithStatus, WithEvents, Table, IInv, NoticeOK
<1>9. ExhaustOK'
  BY DEF DeleteOld, Autocommit, WithStatus, WithEvents, Table, IInv, ExhaustOK,
     OutsideOK, Exhausted
<1> QED BY <1>1, <1>2, <1>3, <1>4, <1>5, <1>6, <1>7, <1>8, <1>9 DEF IInv

\* The first statement of a round: from here the copies differ.
LEMMA FailOverdueKeeps ==
  ASSUME IInv, FailOverdue
  PROVE  IInv'
<1> USE DEF Status, Final, Retryable, NoRow, Live, InRound, Closed, MaxRetry, SetTask,
            rows, owner, seen, round, tables, TooOld
<1>1. TypeOK'
  BY DEF FailOverdue, Base, WithStatus, WithEvents, Table, IInv, TypeOK, TableOK
<1>2. Rows(db)'
  BY DEF FailOverdue, Base, WithStatus, WithEvents, Table, IInv, Rows
<1>3. IsolationOK'
  BY DEF FailOverdue, Base, WithStatus, WithEvents, Table, IInv, IsolationOK
<1>4. AcksOK'
  BY DEF FailOverdue, Base, WithStatus, WithEvents, Table, IInv, AcksOK
<1>5. NoticeOK'
  BY DEF FailOverdue, Base, WithStatus, WithEvents, Table, IInv, NoticeOK
<1>6. Rows(disk)' /\ OutsideOK' /\ BatchOK' /\ ExhaustOK'
  BY DEF FailOverdue, Base, WithStatus, WithEvents, Table, IInv, Rows, OutsideOK,
     BatchOK, ExhaustOK, Exhausted
<1> QED BY <1>1, <1>2, <1>3, <1>4, <1>5, <1>6 DEF IInv

\* The second statement touches counters only.
LEMMA RestoreCountersKeeps ==
  ASSUME IInv, RestoreCounters
  PROVE  IInv'
<1> USE DEF Status, Final, Retryable, NoRow, Live, InRound, Closed, MaxRetry, SetTask,
            rows, owner, seen, round, tables, TooOld
<1>1. TypeOK'
  BY DEF RestoreCounters, Parked, Base, WithEvents, Table, IInv, TypeOK, TableOK
<1>2. Rows(db)'
  BY ScheduleAssumption DEF RestoreCounters, Parked, Base, WithEvents, Table, IInv,
     Rows, ScheduleAssumption
<1>3. ExhaustOK'
  BY DEF RestoreCounters, Parked, Base, WithEvents, Table, IInv, ExhaustOK,
     Exhausted
<1>4. Rows(disk)' /\ OutsideOK' /\ IsolationOK' /\ BatchOK' /\ AcksOK' /\ NoticeOK'
  BY DEF RestoreCounters, Parked, Base, WithEvents, Table, IInv, Rows, OutsideOK,
     IsolationOK, BatchOK, AcksOK, NoticeOK
<1> QED BY <1>1, <1>2, <1>3, <1>4 DEF IInv

\* The third statement fills the batch and takes the locks.
LEMMA SelectBatchKeeps ==
  ASSUME IInv, SelectBatch
  PROVE  IInv'
<1> USE DEF Status, Final, Retryable, NoRow, Live, InRound, Closed, MaxRetry, SetTask,
            rows, owner, seen, round, tables, TooOld
<1>1. TypeOK'
  BY InputAssumption DEF SelectBatch, Base, IInv, TypeOK, TableOK, InputAssumption
<1>2. BatchOK'
  BY DEF SelectBatch, Base, IInv, BatchOK, OutsideOK
<1>3. Rows(db)' /\ Rows(disk)' /\ OutsideOK' /\ IsolationOK' /\ AcksOK' /\ NoticeOK' /\ ExhaustOK'
  BY DEF SelectBatch, Base, IInv, Rows, OutsideOK, IsolationOK, AcksOK, NoticeOK,
     ExhaustOK, Exhausted
<1> QED BY <1>1, <1>2, <1>3 DEF IInv

\* A retry that is acknowledged: success in the daemon's copy only.
LEMMA RetryAnsweredKeeps ==
  ASSUME IInv, NEW e \in Events, RetryAnswered(e)
  PROVE  IInv'
<1> USE DEF Status, Final, Retryable, NoRow, Live, InRound, Closed, MaxRetry, SetTask,
            rows, owner, seen, round, tables, TooOld
<1>1. TypeOK'
  BY DEF RetryAnswered, Earliest, SaveSuccess, WithStatus, WithEvents, Table, IInv,
     TypeOK, TableOK
<1>2. Rows(db)'
  BY DEF RetryAnswered, Earliest, SaveSuccess, WithStatus, WithEvents, Table, IInv,
     TypeOK, TableOK, Rows, BatchOK
<1>3. Rows(disk)'
  BY DEF RetryAnswered, Earliest, SaveSuccess, WithStatus, WithEvents, Table, IInv,
     TypeOK, TableOK, Rows
<1>4. OutsideOK'
  BY DEF RetryAnswered, Earliest, SaveSuccess, WithStatus, WithEvents, Table, IInv,
     OutsideOK
<1>5. IsolationOK'
  BY DEF RetryAnswered, Earliest, SaveSuccess, WithStatus, WithEvents, Table, IInv,
     IsolationOK, BatchOK
<1>6. BatchOK'
  BY DEF RetryAnswered, Earliest, SaveSuccess, WithStatus, WithEvents, Table, IInv,
     BatchOK
<1>7. AcksOK'
  BY DEF RetryAnswered, Earliest, SaveSuccess, WithStatus, WithEvents, Table, IInv,
     TypeOK, TableOK, AcksOK, Rows, BatchOK
<1>8. NoticeOK'
  BY DEF RetryAnswered, Earliest, SaveSuccess, WithStatus, WithEvents, Table, IInv,
     NoticeOK, BatchOK
<1>9. ExhaustOK'
  BY DEF RetryAnswered, Earliest, SaveSuccess, WithStatus, WithEvents, Table, IInv,
     ExhaustOK, BatchOK, Exhausted
<1> QED BY <1>1, <1>2, <1>3, <1>4, <1>5, <1>6, <1>7, <1>8, <1>9 DEF IInv

\* What a failed retry does to the tables: e moves on, waiting events of its
\* webhook may be parked, and the webhook goes off only with e's last retry.
RetryEffect(e) ==
    /\ TableOK(db)'
    /\ e \in batch /\ db.counter[e] \in Nat
    /\ db'.counter = [db.counter EXCEPT ![e] = @ + 1]
    /\ db'.status[e] = IF db.counter[e] >= MaxRetry THEN "FAILED" ELSE "ENQUEUED_RETRY"
    /\ \A f \in Events \ {e} :
          \/ db'.status[f] = db.status[f]
          \/ db.status[f] = "ENQUEUED_RETRY" /\ db'.status[f] = "ENDPOINT_DISABLED"
    /\ \A w \in Webhooks :
          \/ db'.enabled[w] = db.enabled[w]
          \/ w = Parent[e] /\ db.counter[e] >= MaxRetry
    /\ mailed' \subseteq mailed \cup {<<e, db.counter[e] + 1>>}

\* RetryEffect holds of every failed retry, whatever check_webhook_failure_count
\* decided.
LEMMA RetryFailedEffect ==
  ASSUME IInv, NEW e \in Events, RetryFailed(e)
  PROVE  RetryEffect(e)
<1> USE DEF Status, Final, Retryable, NoRow, MaxRetry
<1> DEFINE t == check_webhook_failure_count(db, e)
<1>1. e \in batch /\ db.status[e] \in Retryable /\ e \notin DebugEvents /\ Parent[e] \in Webhooks
  BY DEF IInv, TypeOK, TableOK, Rows, BatchOK, RetryFailed, Earliest
<1>2. /\ TableOK(t) /\ t.counter = db.counter /\ t.due = db.due
      /\ \A f \in Events : \/ t.status[f] = db.status[f]
                           \/ /\ db.status[f] = "ENQUEUED_RETRY"
                              /\ t.status[f] = "ENDPOINT_DISABLED"
      /\ \A w \in Webhooks : \/ t.enabled[w] = db.enabled[w]
                             \/ w = Parent[e] /\ db.counter[e] >= MaxRetry
  <2>1. CASE Ignored(db, e)
    BY <2>1 DEF check_webhook_failure_count, IInv, TypeOK
  <2>2. CASE ~Ignored(db, e) /\ db.counter[e] \in NOTIFY_ON /\ db.counter[e] >= MaxRetry
    <3>1. t = CountFailure(Disable(db, Parent[e]), Parent[e])
      BY <2>2 DEF check_webhook_failure_count
    <3> HIDE DEF t
    <3>2. /\ [db.failures EXCEPT ![Parent[e]] = @ + 1] \in [Webhooks -> Nat]
          /\ [db.enabled EXCEPT ![Parent[e]] = FALSE] \in [Webhooks -> BOOLEAN]
      BY <1>1 DEF IInv, TypeOK, TableOK
    <3> QED BY <2>2, <3>1, <3>2, <1>1 DEF CountFailure, Disable, Waiting, WithWebhooks, Table,
         IInv, TypeOK, TableOK
  <2>3. CASE ~Ignored(db, e) /\ ~(db.counter[e] \in NOTIFY_ON /\ db.counter[e] >= MaxRetry)
    <3>1. t = CountFailure(db, Parent[e])
      BY <2>3 DEF check_webhook_failure_count
    <3> HIDE DEF t
    <3>2. [db.failures EXCEPT ![Parent[e]] = @ + 1] \in [Webhooks -> Nat]
      BY <1>1 DEF IInv, TypeOK, TableOK
    <3> QED BY <3>1, <3>2 DEF CountFailure, WithWebhooks, Table, IInv, TypeOK, TableOK
  <2> QED BY <2>1, <2>2, <2>3
<1>3. db' = SaveFailure(t, e)
  BY DEF RetryFailed
<1> HIDE DEF t
<1>4. TableOK(db)'
  BY <1>1, <1>2, <1>3, DelayIsInt DEF SaveFailure, WithEvents, Table, TableOK
<1>5. /\ db'.counter = [db.counter EXCEPT ![e] = @ + 1]
      /\ db'.enabled = t.enabled
      /\ \A f \in Events \ {e} : db'.status[f] = t.status[f]
      /\ db'.status[e] = IF db.counter[e] >= MaxRetry THEN "FAILED" ELSE "ENQUEUED_RETRY"
  BY <1>1, <1>2, <1>3 DEF SaveFailure, WithEvents, Table, TableOK
<1>6. mailed' \subseteq mailed \cup {<<e, db.counter[e] + 1>>}
  BY DEF RetryFailed, Mails
<1> QED BY <1>1, <1>2, <1>4, <1>5, <1>6 DEF RetryEffect, IInv, TypeOK, TableOK

\* A failed retry: its event moves on, younger ones may be parked.
LEMMA RetryFailedKeeps ==
  ASSUME IInv, NEW e \in Events, RetryFailed(e)
  PROVE  IInv'
<1> USE ScheduleAssumption DEF Status, Final, Retryable, NoRow, Live, MaxRetry,
            ScheduleAssumption
<1>0. RetryEffect(e)
  BY RetryFailedEffect
<1> USE <1>0 DEF RetryEffect
<1>1. TypeOK'
  BY DEF RetryFailed, rows, owner, IInv, TypeOK, TableOK
<1>2. Rows(db)' /\ Rows(disk)'
  BY DEF RetryFailed, IInv, Rows, BatchOK
<1>3. OutsideOK'
  BY DEF RetryFailed, IInv, OutsideOK, InRound
<1>4. IsolationOK' /\ BatchOK'
  BY DEF RetryFailed, IInv, TypeOK, TableOK, IsolationOK, BatchOK
<1>5. AcksOK'
  BY DEF RetryFailed, IInv, AcksOK, BatchOK
<1>6. NoticeOK'
  BY DEF RetryFailed, IInv, NoticeOK, BatchOK
<1>7. ExhaustOK'
  <2> SUFFICES ASSUME NEW w \in Webhooks, disk.enabled[w], ~db'.enabled[w]
               PROVE  \E f \in Events : Parent[f] = w /\ Exhausted(f)'
    BY DEF ExhaustOK, RetryFailed
  <2>1. CASE db.enabled[w]
    <3>1. w = Parent[e] /\ db.counter[e] >= MaxRetry
      BY <2>1
    <3>2. db.counter[e] <= MaxRetry
      BY DEF IInv, Rows, BatchOK
    <3>3. Exhausted(e)'
      BY <3>1, <3>2 DEF Exhausted, IInv, TypeOK, TableOK
    <3>4. e \in Events
      OBVIOUS
    <3> QED BY <3>1, <3>3, <3>4
  <2>2. CASE ~db.enabled[w]
    <3>1. PICK f \in Events : Parent[f] = w /\ Exhausted(f)
      BY <2>2 DEF IInv, ExhaustOK
    <3>2. f # e
      BY <3>1 DEF Exhausted, IInv, BatchOK
    <3>3. Exhausted(f)'
      BY <3>1, <3>2 DEF Exhausted, IInv
    <3> QED BY <3>1, <3>3
  <2>3. db.enabled[w] \in BOOLEAN
    BY DEF IInv, TypeOK, TableOK
  <2> QED BY <2>1, <2>2, <2>3
<1> QED BY <1>1, <1>2, <1>3, <1>4, <1>5, <1>6, <1>7 DEF IInv

\* What the round decided becomes what everybody sees.
LEMMA CommitKeeps ==
  ASSUME IInv, Commit
  PROVE  IInv'
<1> USE DEF Status, Final, Retryable, NoRow, Live, InRound, Closed, MaxRetry, SetTask,
            rows, owner, seen, round, tables, TooOld
<1>1. TypeOK'
  BY DEF Commit, EndRound, IInv, TypeOK, TableOK
<1>2. Rows(db)'
  BY DEF Commit, EndRound, IInv, Rows
<1>3. Rows(disk)'
  BY DEF Commit, EndRound, IInv, Rows
<1>4. OutsideOK'
  BY DEF Commit, EndRound, IInv, OutsideOK
<1>5. IsolationOK'
  BY DEF Commit, EndRound, IInv, IsolationOK
<1>6. BatchOK'
  BY DEF Commit, EndRound, IInv, BatchOK
<1>7. AcksOK'
  BY DEF Commit, EndRound, IInv, AcksOK
<1>8. NoticeOK'
  BY DEF Commit, EndRound, IInv, NoticeOK
<1>9. ExhaustOK'
  BY DEF Commit, EndRound, IInv, ExhaustOK, Exhausted
<1> QED BY <1>1, <1>2, <1>3, <1>4, <1>5, <1>6, <1>7, <1>8, <1>9 DEF IInv

\* A round that dies leaves what was committed.
LEMMA DaemonDiesKeeps ==
  ASSUME IInv, DaemonDies
  PROVE  IInv'
<1> USE DEF Status, Final, Retryable, NoRow, Live, InRound, Closed, MaxRetry, SetTask,
            rows, owner, seen, round, tables, TooOld
<1>1. TypeOK'
  BY DEF DaemonDies, Abort, EndRound, IInv, TypeOK, TableOK
<1>2. Rows(db)'
  BY DEF DaemonDies, Abort, EndRound, IInv, Rows
<1>3. Rows(disk)'
  BY DEF DaemonDies, Abort, EndRound, IInv, Rows
<1>4. OutsideOK'
  BY DEF DaemonDies, Abort, EndRound, IInv, OutsideOK
<1>5. IsolationOK'
  BY DEF DaemonDies, Abort, EndRound, IInv, IsolationOK
<1>6. BatchOK'
  BY DEF DaemonDies, Abort, EndRound, IInv, BatchOK
<1>7. AcksOK'
  BY DEF DaemonDies, Abort, EndRound, IInv, TypeOK, TableOK, AcksOK
<1>8. NoticeOK'
  BY DEF DaemonDies, Abort, EndRound, IInv, TypeOK, TableOK, NoticeOK
<1>9. ExhaustOK'
  BY DEF DaemonDies, Abort, EndRound, IInv, ExhaustOK, Exhausted
<1> QED BY <1>1, <1>2, <1>3, <1>4, <1>5, <1>6, <1>7, <1>8, <1>9 DEF IInv

\* So does a round that ends in DoesNotExist.
LEMMA RetryRaisesKeeps ==
  ASSUME IInv, NEW e \in Events, RetryRaises(e)
  PROVE  IInv'
<1> USE DEF Status, Final, Retryable, NoRow, Live, InRound, Closed, MaxRetry, SetTask,
            rows, owner, seen, round, tables, TooOld
<1>1. TypeOK'
  BY DEF RetryRaises, Abort, EndRound, Earliest, IInv, TypeOK, TableOK
<1>2. Rows(db)'
  BY DEF RetryRaises, Abort, EndRound, Earliest, IInv, Rows
<1>3. Rows(disk)'
  BY DEF RetryRaises, Abort, EndRound, Earliest, IInv, Rows
<1>4. OutsideOK'
  BY DEF RetryRaises, Abort, EndRound, Earliest, IInv, OutsideOK
<1>5. IsolationOK'
  BY DEF RetryRaises, Abort, EndRound, Earliest, IInv, IsolationOK
<1>6. BatchOK'
  BY DEF RetryRaises, Abort, EndRound, Earliest, IInv, BatchOK
<1>7. AcksOK'
  BY DEF RetryRaises, Abort, EndRound, Earliest, IInv, TypeOK, TableOK, AcksOK
<1>8. NoticeOK'
  BY DEF RetryRaises, Abort, EndRound, Earliest, IInv, TypeOK, TableOK, NoticeOK
<1>9. ExhaustOK'
  BY DEF RetryRaises, Abort, EndRound, Earliest, IInv, ExhaustOK, Exhausted
<1> QED BY <1>1, <1>2, <1>3, <1>4, <1>5, <1>6, <1>7, <1>8, <1>9 DEF IInv

\* Opening the form only reads.
LEMMA OpenFormKeeps ==
  ASSUME IInv, NEW w \in Webhooks, OpenForm(w)
  PROVE  IInv'
<1> USE DEF Status, Final, Retryable, NoRow, Live, InRound, Closed, MaxRetry, SetTask,
            rows, owner, seen, round, tables, TooOld
<1>1. TypeOK'
  BY DEF OpenForm, IInv, TypeOK, TableOK
<1>2. /\ Rows(db)' /\ Rows(disk)' /\ OutsideOK' /\ IsolationOK'
      /\ BatchOK' /\ AcksOK' /\ NoticeOK' /\ ExhaustOK'
  BY DEF OpenForm, IInv, Rows, OutsideOK, IsolationOK, BatchOK, AcksOK, NoticeOK,
     ExhaustOK, Exhausted
<1> QED BY <1>1, <1>2 DEF IInv

\* The save writes a webhook no batch has locked.
LEMMA SaveFormKeeps ==
  ASSUME IInv, NEW w \in Webhooks, NEW on \in BOOLEAN, SaveForm(w, on)
  PROVE  IInv'
<1> USE DEF Status, Final, Retryable, NoRow, Live, InRound, Closed, MaxRetry, SetTask,
            rows, owner, seen, round, tables, TooOld
<1>1. TypeOK'
  BY DEF SaveForm, Autocommit, WithWebhooks, Table, IInv, TypeOK, TableOK
<1>2. Rows(db)'
  BY DEF SaveForm, Autocommit, WithWebhooks, Table, IInv, Rows
<1>3. Rows(disk)'
  BY DEF SaveForm, Autocommit, WithWebhooks, Table, IInv, Rows
<1>4. OutsideOK'
  BY DEF SaveForm, Autocommit, WithWebhooks, Table, IInv, OutsideOK
<1>5. BatchOK'
  BY DEF SaveForm, Autocommit, WithWebhooks, Table, IInv, BatchOK
<1>6. ExhaustOK'
  BY DEF SaveForm, Autocommit, WithWebhooks, Table, IInv, TypeOK, TableOK,
     ExhaustOK, Exhausted
<1>7. IsolationOK' /\ AcksOK' /\ NoticeOK'
  BY DEF SaveForm, Autocommit, WithWebhooks, Table, IInv, IsolationOK, AcksOK,
     NoticeOK
<1> QED BY <1>1, <1>2, <1>3, <1>4, <1>5, <1>6, <1>7 DEF IInv

\* Time changes due dates and ages, the same way in both copies.
LEMMA TickKeeps ==
  ASSUME IInv, Tick
  PROVE  IInv'
<1> USE DEF Status, Final, Retryable, NoRow, Live, InRound, Closed, MaxRetry, SetTask,
            rows, owner, seen, round, tables, TooOld
<1>1. TypeOK'
  BY ScheduleAssumption DEF Tick, Autocommit, Later, WithEvents, Table, IInv,
     TypeOK, TableOK, ScheduleAssumption
<1>2. Rows(db)'
  BY DEF Tick, Autocommit, Later, WithEvents, Table, IInv, Rows
<1>3. Rows(disk)'
  BY DEF Tick, Autocommit, Later, WithEvents, Table, IInv, Rows
<1>4. OutsideOK'
  BY DEF Tick, Autocommit, Later, WithEvents, Table, IInv, OutsideOK
<1>5. IsolationOK' /\ BatchOK' /\ AcksOK' /\ NoticeOK' /\ ExhaustOK'
  BY DEF Tick, Autocommit, Later, WithEvents, Table, IInv, IsolationOK, BatchOK,
     AcksOK, NoticeOK, ExhaustOK, Exhausted
<1> QED BY <1>1, <1>2, <1>3, <1>4, <1>5 DEF IInv

----------------------------------------------------------------------------
\* The empty tables satisfy the invariant.
LEMMA InitOK == Init => IInv
<1> SUFFICES ASSUME Init PROVE IInv
  OBVIOUS
<1> USE ScheduleAssumption
    DEF Init, Table, Status, Final, Retryable, NoRow, Live, InRound, Closed, MaxRetry,
        ScheduleAssumption
<1>1. TypeOK
  BY DEF TypeOK, TableOK
<1>2. Rows(db) /\ Rows(disk)
  BY DEF Rows
<1>3. OutsideOK /\ IsolationOK /\ BatchOK
  BY DEF OutsideOK, IsolationOK, BatchOK
<1>4. AcksOK /\ NoticeOK /\ ExhaustOK
  BY DEF AcksOK, NoticeOK, ExhaustOK
<1> QED BY <1>1, <1>2, <1>3, <1>4 DEF IInv

\* A stuttering step keeps it.
LEMMA StutterKeeps == IInv /\ UNCHANGED vars => IInv'
  BY DEF vars, tables, rows, round, owner, seen, IInv, TypeOK, TableOK, Rows, OutsideOK,
         IsolationOK, BatchOK, AcksOK, NoticeOK, ExhaustOK, Exhausted, Base, TooOld

\* So does every step.
LEMMA NextKeeps == IInv /\ [Next]_vars => IInv'
<1> SUFFICES ASSUME IInv, [Next]_vars PROVE IInv'
  OBVIOUS
<1>1. ASSUME NEW e \in Events, TaskStep(e) PROVE IInv'
  BY <1>1, CreateEventKeeps, PostAnsweredKeeps, PostFailedKeeps, RecordSuccessKeeps,
     ReadWebhookKeeps, CountFirstFailureKeeps, RecordFailureKeeps DEF TaskStep
<1>2. ASSUME DaemonStep PROVE IInv'
  BY <1>2, FailOverdueKeeps, RestoreCountersKeeps, SelectBatchKeeps, CommitKeeps,
     RetryAnsweredKeeps, RetryFailedKeeps, RetryRaisesKeeps DEF DaemonStep
<1>3. ASSUME FormStep PROVE IInv'
  BY <1>3, OpenFormKeeps, SaveFormKeeps DEF FormStep
<1> QED BY <1>1, <1>2, <1>3, StartTaskKeeps, TaskDiesKeeps, DaemonDiesKeeps, DeleteOldKeeps,
           TickKeeps, StutterKeeps DEF Next

\* IInv holds in every reachable state.
THEOREM Invariance == Spec => []IInv
  BY InitOK, NextKeeps, PTL DEF Spec

\* Every variable keeps its type: the tables their columns, the tasks and the
\* daemon their stands, the counters their ranges.
THEOREM TypeCorrect == Spec => []TypeOK
<1>1. IInv => TypeOK
  BY DEF IInv
<1> QED BY <1>1, Invariance, PTL

\* However many batches, restarts and settings saves there are, an endpoint
\* acknowledges an event at most once more than something died while sending.
THEOREM DuplicatesAreCrashes == Spec => []AtMostOneExtraPerCrash
<1>1. IInv => AtMostOneExtraPerCrash
  BY DEF IInv, TypeOK, AcksOK, AtMostOneExtraPerCrash
<1> QED BY <1>1, Invariance, PTL

\* No event is POSTed after its last retry, so notify_on is never asked about
\* a counter it has no entry for.
THEOREM BudgetIsKept == Spec => []RetryBudget
<1>1. IInv => RetryBudget
  BY ScheduleAssumption DEF IInv, TypeOK, TableOK, Rows, RetryBudget, Retryable, MaxRetry,
     ScheduleAssumption
<1> QED BY <1>1, Invariance, PTL

\* Without a crash, the owner is told "now disabled" only because of an event
\* that really failed for good.
THEOREM NoticesAreTrue == Spec => []NoticeIsTrue
<1>1. IInv => NoticeIsTrue
  BY DEF IInv, NoticeOK, OutsideOK, NoticeIsTrue
<1> QED BY <1>1, Invariance, PTL

\* The row locks protect what a round selected until it has sent it.
THEOREM SelectionIsStable == Spec => []LocksHold
<1>1. IInv => LocksHold
  BY DEF IInv, TypeOK, IsolationOK, BatchOK, LocksHold
<1> QED BY <1>1, Invariance, PTL

----------------------------------------------------------------------------
(* The test button.  TestsOK is inductive once IInv is known.              *)

TestsOK ==
    \A d \in DebugEvents :
        /\ task[d] \in {"none", "queued", "posting"} => acks[d] = 0
        /\ acks[d] <= 1
        /\ task[d] = "done" => disk.status[d] \in Final \cup {"DELETED"}
        /\ \A m \in mailed : m[1] # d

\* A batch holds events whose status is Retryable, and no test has one.
LEMMA NoTestInBatch == IInv => batch \cap DebugEvents = {}
  BY DEF IInv, TypeOK, BatchOK, Rows

\* The steps of a task.
LEMMA TestsKeptByTasks ==
  ASSUME IInv, TestsOK, NEW e \in Events, TaskStep(e) \/ StartTask(e) \/ TaskDies(e)
  PROVE  TestsOK'
<1> USE InputAssumption
    DEF InputAssumption, TestsOK, IInv, TypeOK, TableOK, SetTask, Live, Final, owner, seen,
        tables
<1>1. CASE StartTask(e) \/ TaskDies(e)
  BY <1>1 DEF StartTask, TaskDies
<1>2. CASE CreateEvent(e)
  BY <1>2 DEF CreateEvent, Autocommit, WithStatus, WithEvents, Table
<1>3. CASE PostAnswered(e) \/ PostFailed(e) \/ ReadWebhook(e)
  BY <1>3 DEF PostAnswered, PostFailed, ReadWebhook
<1>4. CASE CountFirstFailure(e)
  BY <1>4 DEF CountFirstFailure, Autocommit, CountFailure, WithWebhooks, Table
<1>5. CASE RecordSuccess(e)
  BY <1>5 DEF RecordSuccess, Autocommit, SaveSuccess, WithStatus, WithEvents, Table
<1>6. CASE RecordFailure(e)
  BY <1>6 DEF RecordFailure, Autocommit, SaveFailure, WithEvents, Table
<1> QED BY <1>1, <1>2, <1>3, <1>4, <1>5, <1>6 DEF TaskStep

\* The steps of the daemon.
LEMMA TestsKeptByDaemon ==
  ASSUME IInv, TestsOK, DaemonStep \/ DaemonDies \/ DeleteOld PROVE TestsOK'
<1> USE InputAssumption
    DEF InputAssumption, TestsOK, IInv, TypeOK, TableOK, Final, owner, seen, tables
<1>1. CASE FailOverdue \/ RestoreCounters \/ SelectBatch
  BY <1>1 DEF FailOverdue, RestoreCounters, SelectBatch
<1>2. ASSUME NEW e \in Events, RetryAnswered(e) PROVE TestsOK'
  BY <1>2, NoTestInBatch DEF RetryAnswered, Earliest
<1>3. ASSUME NEW e \in Events, RetryFailed(e) PROVE TestsOK'
  <2>1. e \notin DebugEvents
    BY <1>3, NoTestInBatch DEF RetryFailed, Earliest
  <2>2. \A m \in Mails(db, e) : m[1] = e
    BY DEF Mails
  <2> QED BY <1>3, <2>1, <2>2 DEF RetryFailed
<1>4. CASE Commit
  BY <1>4 DEF Commit, IsolationOK, Rows
<1>5. CASE DaemonDies \/ \E e \in Events : RetryRaises(e)
  BY <1>5 DEF DaemonDies, RetryRaises, Abort
<1>6. CASE DeleteOld
  BY <1>6 DEF DeleteOld, Autocommit, WithStatus, WithEvents, Table
<1> QED BY <1>1, <1>2, <1>3, <1>4, <1>5, <1>6 DEF DaemonStep

\* The remaining steps, and all together.
LEMMA TestsKept == ASSUME IInv, TestsOK, [Next]_vars PROVE TestsOK'
<1>1. CASE FormStep
  BY <1>1 DEF TestsOK, FormStep, OpenForm, SaveForm, Autocommit, WithWebhooks, Table, seen,
       tables
<1>2. CASE Tick
  BY <1>2 DEF TestsOK, Tick, Autocommit, Later, WithEvents, Table, seen
<1>3. CASE UNCHANGED vars
  BY <1>3 DEF TestsOK, vars, tables, seen
<1> QED BY <1>1, <1>2, <1>3, TestsKeptByTasks, TestsKeptByDaemon DEF Next

\* A test event is sent once, leaves no retry behind and no mail.
THEOREM TestsStaySilent == Spec => []TestsAreSilent
<1>1. Init => TestsOK
  BY InputAssumption DEF Init, InputAssumption, TestsOK
<1>2. TestsOK => TestsAreSilent
  BY DEF TestsOK, TestsAreSilent
<1> QED BY <1>1, <1>2, TestsKept, Invariance, PTL DEF Spec

----------------------------------------------------------------------------
(* What a step may do to the switches, and to the story of an event.       *)

\* Apart from a commit, only the settings form moves a committed switch.
LEMMA SwitchStays ==
  ASSUME Next, ~Commit, UNCHANGED edits, TypeOK PROVE disk'.enabled = disk.enabled
<1> USE DEF Autocommit, WithStatus, WithEvents, WithWebhooks, Table, owner, tables
<1>1. ASSUME NEW e \in Events, TaskStep(e) PROVE disk'.enabled = disk.enabled
  BY <1>1 DEF TaskStep, CreateEvent, PostAnswered, PostFailed, RecordSuccess, ReadWebhook,
       CountFirstFailure, RecordFailure, SaveSuccess, SaveFailure, CountFailure
<1>2. ASSUME DaemonStep PROVE disk'.enabled = disk.enabled
  BY <1>2 DEF DaemonStep, FailOverdue, RestoreCounters, SelectBatch, RetryAnswered,
       RetryFailed, RetryRaises, Abort
<1>3. ASSUME FormStep PROVE disk'.enabled = disk.enabled
  BY <1>3 DEF FormStep, OpenForm, SaveForm, TypeOK
<1>4. ASSUME NEW e \in Events, StartTask(e) \/ TaskDies(e)
      PROVE  disk'.enabled = disk.enabled
  BY <1>4 DEF StartTask, TaskDies
<1>5. ASSUME DaemonDies \/ DeleteOld \/ Tick PROVE disk'.enabled = disk.enabled
  BY <1>5 DEF DaemonDies, Abort, DeleteOld, Tick, Later
<1> QED BY <1>1, <1>2, <1>3, <1>4, <1>5 DEF Next

\* A webhook that a round commits as switched off comes with an event that
\* used up its retries.
THEOREM OnlyExhaustionSwitchesOff == Spec => SwitchedOffByExhaustion
<1>1. ASSUME IInv, [Next]_vars,
             NEW w \in Webhooks, disk.enabled[w], ~disk'.enabled[w], UNCHANGED edits
      PROVE  \E e \in Events : /\ Parent[e] = w
                               /\ disk'.status[e] = "FAILED"
                               /\ disk'.counter[e] = MaxRetry + 1
  <2>1. CASE Commit
    BY <1>1, <2>1 DEF Commit, IInv, ExhaustOK, Exhausted
  <2>2. CASE Next /\ ~Commit
    BY <1>1, <2>2, SwitchStays DEF IInv
  <2>3. CASE UNCHANGED vars
    BY <1>1, <2>3 DEF vars, tables
  <2> QED BY <1>1, <2>1, <2>2, <2>3
<1>2. IInv /\ [Next]_vars =>
        [\A w \in Webhooks :
          disk.enabled[w] /\ ~disk'.enabled[w] /\ UNCHANGED edits
              => \E e \in Events : /\ Parent[e] = w
                                   /\ disk'.status[e] = "FAILED"
                                   /\ disk'.counter[e] = MaxRetry + 1]_vars
  BY <1>1
<1> QED BY <1>2, Invariance, PTL DEF Spec, SwitchedOffByExhaustion

\* The fate of each kind of status.
LEMMA FateFacts ==
  /\ \A s \in Status : FateOf(s) \in Abstract!Fate
  /\ FateOf("NONE") = "none" /\ FateOf("SUCCESSFUL") = "delivered"
  /\ FateOf("FAILED") = "dropped" /\ FateOf("DELETED") = "purged"
  /\ \A s \in Retryable \cup {"IN_PROGRESS"} : FateOf(s) = "open"
  /\ \A s \in Status \ {"NONE"} : FateOf(s) # "none"
  BY DEF FateOf, Abstract!Fate, Status, Retryable, Final, NoRow

fates == [e \in Events |-> FateOf(disk.status[e])]

\* The initial state of WebhookDelivery is one of EventDelivery.
LEMMA InitPromise == Init => Abstract!Init
  BY FateFacts DEF Init, Table, Abstract!Init

\* Steps that change neither a committed status nor an acknowledgement.
LEMMA QuietStep ==
  ASSUME disk'.status = disk.status, acks' = acks PROVE UNCHANGED Abstract!vars
  BY DEF Abstract!vars

\* The INSERT accepts the event.
LEMMA AcceptStep ==
  ASSUME IInv, NEW e \in Events, CreateEvent(e) PROVE Abstract!Accept(e)
<1>1. /\ disk.status[e] = "NONE" /\ disk.status \in [Events -> Status]
      /\ disk'.status = [disk.status EXCEPT ![e] = "IN_PROGRESS"] /\ acks' = acks
  BY DEF CreateEvent, SetTask, Autocommit, WithStatus, WithEvents, Table, IInv, Rows, TypeOK,
       TableOK, seen
<1> QED BY <1>1, FateFacts DEF Abstract!Accept

\* An answered POST acknowledges an event whose committed fate is open.
LEMMA AcknowledgeStep ==
  ASSUME IInv, NEW e \in Events, PostAnswered(e) \/ RetryAnswered(e)
  PROVE  Abstract!Acknowledge(e)
<1>1. disk.status[e] \in Retryable \cup {"IN_PROGRESS"}
  BY DEF PostAnswered, RetryAnswered, SetTask, Earliest, IInv, TypeOK, Rows, IsolationOK,
       BatchOK, Live
<1>2. disk' = disk /\ acks' = [acks EXCEPT ![e] = @ + 1]
  BY DEF PostAnswered, RetryAnswered, tables
<1> QED BY <1>1, <1>2, FateFacts DEF Abstract!Acknowledge

\* Verdicts: the rows that change were open, and those that become delivered
\* had been acknowledged.
LEMMA DecideStep ==
  ASSUME TypeOK, TableOK(disk)', acks' = acks,
         \A e \in Events :
            \/ disk'.status[e] = disk.status[e]
            \/ /\ disk.status[e] \in Retryable \cup {"IN_PROGRESS"}
               /\ disk'.status[e] \in Retryable \cup Final
               /\ disk'.status[e] = "SUCCESSFUL" => acks[e] > 0
  PROVE  Abstract!Decide
<1>1. fates' \in [Events -> Abstract!Fate]
  BY FateFacts DEF fates, TableOK
<1>2. ASSUME NEW e \in Events PROVE Abstract!MayBecome(e, fates'[e])
  BY FateFacts DEF fates, Abstract!MayBecome, Retryable, Final
<1> QED BY <1>1, <1>2 DEF fates, Abstract!Decide

\* The daily purge is the abstract one.
LEMMA PurgeStep == ASSUME IInv, IInv', DeleteOld PROVE Abstract!Purge
<1>1. \A e \in Events : \/ disk'.status[e] = disk.status[e]
                        \/ disk.status[e] \notin NoRow /\ disk'.status[e] = "DELETED"
  BY DEF DeleteOld, Autocommit, WithStatus, WithEvents, Table, IInv, OutsideOK, InRound,
       TypeOK, TableOK
<1>2. fates' \in [Events -> Abstract!Fate]
  BY FateFacts DEF fates, IInv, TypeOK, TableOK
<1>3. disk.status \in [Events -> Status] /\ acks' = acks
  BY DEF IInv, TypeOK, TableOK, DeleteOld, seen
<1>4. ASSUME NEW e \in Events, fates'[e] # fates[e]
      PROVE  fates[e] # "none" /\ fates'[e] = "purged"
  BY <1>1, <1>3, <1>4, FateFacts DEF fates, NoRow
<1> QED BY <1>2, <1>3, <1>4 DEF fates, Abstract!Purge

\* Every step is a step of EventDelivery or changes nothing it can see.
LEMMA StepPromise == ASSUME IInv, IInv', [Next]_vars PROVE [Abstract!Next]_(Abstract!vars)
<1> USE DEF tables, seen
<1>1. ASSUME NEW e \in Events, TaskStep(e) PROVE [Abstract!Next]_(Abstract!vars)
  <2>1. CASE CreateEvent(e)
    BY <2>1, AcceptStep DEF Abstract!Next
  <2>2. CASE PostAnswered(e)
    BY <2>2, AcknowledgeStep DEF Abstract!Next
  <2>3. CASE RecordSuccess(e) \/ RecordFailure(e)
    <3>1. /\ disk.status \in [Events -> Status] /\ acks' = acks
          /\ disk.status[e] = "IN_PROGRESS"
          /\ disk'.status[e] \in Retryable \cup Final
          /\ disk'.status[e] = "SUCCESSFUL" => acks[e] > 0
          /\ \A f \in Events \ {e} : disk'.status[f] = disk.status[f]
      BY <2>3 DEF RecordSuccess, RecordFailure, SetTask, Autocommit, SaveSuccess, SaveFailure,
           WithStatus, WithEvents, Table, IInv, TypeOK, TableOK, Rows, AcksOK, Live,
           Retryable, Final
    <3>2. Abstract!Decide
      BY <3>1, DecideStep DEF IInv, TypeOK
    <3> QED BY <3>2 DEF Abstract!Next
  <2>4. CASE PostFailed(e) \/ ReadWebhook(e) \/ CountFirstFailure(e)
    BY <2>4, QuietStep DEF PostFailed, ReadWebhook, CountFirstFailure, Autocommit,
         CountFailure, WithWebhooks, Table
  <2> QED BY <1>1, <2>1, <2>2, <2>3, <2>4 DEF TaskStep
<1>2. ASSUME DaemonStep PROVE [Abstract!Next]_(Abstract!vars)
  <2>1. CASE Commit
    <3>1. Abstract!Decide
      BY <2>1, DecideStep DEF Commit, IInv, TypeOK, IsolationOK, Rows, TableOK
    <3> QED BY <3>1 DEF Abstract!Next
  <2>2. CASE \E e \in Events : RetryAnswered(e)
    BY <2>2, AcknowledgeStep DEF Abstract!Next
  <2>3. CASE FailOverdue \/ RestoreCounters \/ SelectBatch
    BY <2>3, QuietStep DEF FailOverdue, RestoreCounters, SelectBatch
  <2>4. CASE \E e \in Events : RetryFailed(e) \/ RetryRaises(e)
    BY <2>4, QuietStep DEF RetryFailed, RetryRaises, Abort
  <2> QED BY <1>2, <2>1, <2>2, <2>3, <2>4 DEF DaemonStep
<1>3. CASE DeleteOld
  BY <1>3, PurgeStep DEF Abstract!Next
<1>4. CASE DaemonDies
  BY <1>4, QuietStep DEF DaemonDies, Abort
<1>5. CASE Tick
  BY <1>5, QuietStep DEF Tick, Autocommit, Later, WithEvents, Table
<1>6. CASE \E e \in Events : StartTask(e) \/ TaskDies(e)
  BY <1>6, QuietStep DEF StartTask, TaskDies
<1>7. CASE FormStep
  BY <1>7, QuietStep DEF FormStep, OpenForm, SaveForm, Autocommit, WithWebhooks, Table
<1>8. CASE UNCHANGED vars
  BY <1>8, QuietStep DEF vars
<1> QED BY <1>1, <1>2, <1>3, <1>4, <1>5, <1>6, <1>7,
         <1>8 DEF Next

\* WebhookDelivery implements EventDelivery: an event reported delivered was
\* acknowledged, and a verdict is never taken back.
THEOREM Refinement == Spec => Promise
<1>1. Spec => []IInv
  BY Invariance
<1>2. IInv /\ IInv' /\ [Next]_vars => [Abstract!Next]_(Abstract!vars)
  BY StepPromise
<1> QED BY <1>1, <1>2, InitPromise, PTL DEF Spec, Promise, Abstract!Spec

----------------------------------------------------------------------------
(* The cut-off, when nothing fails and retries are at most MaxLate late.   *)

\* A waiting event of a webhook that is on is as young as the timetable says,
\* an event parked with its webhook is not taken up, and none has failed before
\* its last retry.
OnSchedule(latest, t) ==
    \A e \in Events :
        /\ t.status[e] \in Retryable =>
              /\ t.counter[e] \in 1..MaxRetry
              /\ t.due[e] >= -MaxLate
              /\ t.enabled[Parent[e]] =>
                    /\ t.status[e] = "ENQUEUED_RETRY"
                    /\ age[e] + t.due[e]
                          <= latest[t.counter[e]] + get_next_webhook_retry_date(t.counter[e] - 1)
        /\ e \notin DebugEvents /\ t.status[e] = "FAILED" => t.counter[e] = MaxRetry + 1

\* No tick passes during the first attempt.
FirstIsSoon == \A e \in Events : task[e] \in Live \cup {"none", "queued"} => age[e] = 0

PInv(latest) ==
    IInv /\ OnSchedule(latest, db) /\ OnSchedule(latest, disk) /\ FirstIsSoon

\* An event that is due has not reached the cut-off.
LEMMA DueIsYoung ==
  ASSUME NEW latest, Timetable(latest), PInv(latest), NEW e \in Base(db)
  PROVE  ~TooOld(e) /\ db.status[e] = "ENQUEUED_RETRY"
<1> DEFINE n == db.counter[e]
           d == get_next_webhook_retry_date(n - 1)
<1>1. /\ e \in Events /\ n \in 1..MaxRetry /\ db.due[e] >= -MaxLate
      /\ db.status[e] = "ENQUEUED_RETRY" /\ age[e] + db.due[e] <= latest[n] + d
  BY DEF PInv, OnSchedule, Base
<1>2. MaxRetry \in Nat /\ MaxLate \in Nat /\ CUT_OFF \in Nat
  BY ScheduleAssumption, InputAssumption DEF ScheduleAssumption, InputAssumption
<1>3. /\ latest[n + 1] = latest[n] + d + MaxLate
      /\ d \in Nat /\ latest[n] \in 0..CUT_OFF /\ latest[n + 1] \in 0..CUT_OFF
  <2>1. n + 1 \in 1..(MaxRetry + 1) /\ n \in 1..(MaxRetry + 1)
    BY <1>1, <1>2
  <2> QED
    BY <1>1, <2>1 DEF Timetable
<1>4. age[e] \in Nat /\ db.due[e] \in Int
  BY <1>1, <1>2 DEF PInv, IInv, TypeOK, TableOK
<1> HIDE DEF n, d
<1> QED
  BY <1>1, <1>2, <1>3, <1>4 DEF TooOld

\* A failed retry sets the date of its event alone and parks others only with
\* their webhook.
LEMMA RetryFailedDates ==
  ASSUME IInv, NEW e \in Events, RetryFailed(e)
  PROVE  /\ db'.due[e] = IF db.counter[e] >= MaxRetry THEN db.due[e]
                         ELSE get_next_webhook_retry_date(db.counter[e])
         /\ \A f \in Events : f # e =>
               /\ db'.due[f] = db.due[f]
               /\ db'.status[f] = db.status[f]
                  \/ (db.status[f] \in Retryable /\ db'.status[f] = "ENDPOINT_DISABLED"
                      /\ ~db'.enabled[Parent[f]])
         /\ \A w \in Webhooks : db'.enabled[w] => db.enabled[w]
<1> DEFINE t == check_webhook_failure_count(db, e)
<1>1. db' = SaveFailure(t, e) /\ Parent[e] \in Webhooks
  BY InputAssumption DEF RetryFailed, InputAssumption
<1>2. TableOK(db)
  BY DEF IInv, TypeOK
<1>3. /\ t.due = db.due /\ t.counter = db.counter
      /\ \A f \in Events : \/ t.status[f] = db.status[f]
                           \/ /\ db.status[f] = "ENQUEUED_RETRY"
                              /\ t.status[f] = "ENDPOINT_DISABLED"
                              /\ ~t.enabled[Parent[f]]
      /\ \A w \in Webhooks : t.enabled[w] => db.enabled[w]
      /\ t.status \in [Events -> Status] /\ t.due \in [Events -> Int]
  <2>1. CASE Ignored(db, e)
    <3>1. t = db
      BY <2>1 DEF check_webhook_failure_count
    <3> QED
      BY <1>2, <3>1 DEF TableOK, Status, Retryable
  <2>2. CASE ~Ignored(db, e) /\ db.counter[e] \in NOTIFY_ON /\ db.counter[e] >= MaxRetry
    <3>1. t = CountFailure(Disable(db, Parent[e]), Parent[e])
      BY <2>2 DEF check_webhook_failure_count
    <3> HIDE DEF t
    <3>2. /\ t.due = db.due /\ t.counter = db.counter
          /\ t.status = [f \in Events |-> IF f \in Waiting(db, Parent[e])
                                          THEN "ENDPOINT_DISABLED" ELSE db.status[f]]
          /\ t.enabled = [db.enabled EXCEPT ![Parent[e]] = FALSE]
      BY <3>1 DEF CountFailure, Disable, WithWebhooks, Table
    <3> QED
      BY <1>1, <1>2, <3>2 DEF Waiting, TableOK, Status, Retryable
  <2>3. CASE ~Ignored(db, e) /\ ~(db.counter[e] \in NOTIFY_ON /\ db.counter[e] >= MaxRetry)
    <3>1. t = CountFailure(db, Parent[e])
      BY <2>3 DEF check_webhook_failure_count
    <3> HIDE DEF t
    <3>2. /\ t.due = db.due /\ t.counter = db.counter /\ t.status = db.status
          /\ t.enabled = db.enabled
      BY <3>1 DEF CountFailure, WithWebhooks, Table
    <3> QED
      BY <1>2, <3>2 DEF TableOK, Status, Retryable
  <2> QED
    BY <2>1, <2>2, <2>3
<1> HIDE DEF t
<1>4. /\ db'.due = [t.due EXCEPT ![e] = IF t.counter[e] >= MaxRetry THEN @
                                        ELSE get_next_webhook_retry_date(t.counter[e])]
      /\ db'.enabled = t.enabled
      /\ \A f \in Events : f # e => db'.status[f] = t.status[f]
  BY <1>1, <1>3 DEF SaveFailure, WithEvents, Table
<1> QED
  BY <1>2, <1>3, <1>4 DEF TableOK, Retryable

LEMMA ScheduleRetryFailed ==
  ASSUME NEW latest, Timetable(latest), PInv(latest), NEW e \in Events, RetryFailed(e)
  PROVE  OnSchedule(latest, db)' /\ OnSchedule(latest, disk)'
<1>1. RetryEffect(e) /\ UNCHANGED <<disk, age>> /\ db.counter[e] \in Nat
  BY RetryFailedEffect DEF PInv, RetryFailed, rows, RetryEffect
<1>2. OnSchedule(latest, disk)'
  BY <1>1 DEF PInv, OnSchedule
<1>3. Parent \in [Events -> Webhooks] /\ TableOK(db)
  BY InputAssumption DEF InputAssumption, PInv, IInv, TypeOK
<1>4. ASSUME NEW f \in Events, f # e
      PROVE  /\ db'.status[f] \in Retryable =>
                  /\ db'.counter[f] \in 1..MaxRetry
                  /\ db'.due[f] >= -MaxLate
                  /\ db'.enabled[Parent[f]] =>
                        /\ db'.status[f] = "ENQUEUED_RETRY"
                        /\ age[f] + db'.due[f]
                              <= latest[db'.counter[f]] + get_next_webhook_retry_date(db'.counter[f] - 1)
             /\ f \notin DebugEvents /\ db'.status[f] = "FAILED" => db'.counter[f] = MaxRetry + 1
  <2>1. db'.counter[f] = db.counter[f] /\ db'.due[f] = db.due[f]
    BY <1>1, <1>3, <1>4, RetryFailedDates DEF PInv, RetryEffect, TableOK
  <2>2. Parent[f] \in Webhooks
    BY <1>3
  <2>3. db'.enabled[Parent[f]] => db.enabled[Parent[f]]
    BY <2>2, RetryFailedDates DEF PInv
  <2>4. \/ db'.status[f] = db.status[f]
        \/ db.status[f] \in Retryable /\ db'.status[f] = "ENDPOINT_DISABLED"
           /\ ~db'.enabled[Parent[f]]
    BY <1>4, RetryFailedDates DEF PInv
  <2> QED
    BY <2>1, <2>3, <2>4 DEF PInv, OnSchedule
<1>5. /\ db'.status[e] \in Retryable =>
                  /\ db'.counter[e] \in 1..MaxRetry
                  /\ db'.due[e] >= -MaxLate
                  /\ db'.enabled[Parent[e]] =>
                        /\ db'.status[e] = "ENQUEUED_RETRY"
                        /\ age[e] + db'.due[e]
                              <= latest[db'.counter[e]] + get_next_webhook_retry_date(db'.counter[e] - 1)
      /\ e \notin DebugEvents /\ db'.status[e] = "FAILED" => db'.counter[e] = MaxRetry + 1
  <2> DEFINE n == db.counter[e]
             d == get_next_webhook_retry_date(n - 1)
             dd == get_next_webhook_retry_date(n)
  <2>1. db.status[e] \in Retryable /\ n \in 1..MaxRetry /\ db.due[e] >= -MaxLate
    BY <1>1 DEF PInv, IInv, BatchOK, OnSchedule, RetryEffect
  <2>2. MaxRetry \in Nat /\ MaxLate \in Nat /\ db.due[e] \in Int /\ age[e] \in Int
    BY <1>3, ScheduleAssumption, InputAssumption
       DEF ScheduleAssumption, InputAssumption, PInv, IInv, TypeOK, TableOK
  <2>3. /\ latest[n + 1] = latest[n] + d + MaxLate /\ d \in Nat
        /\ latest[n] \in Nat /\ latest[n + 1] \in Nat
        /\ n < MaxRetry => dd \in Nat
    <3>1. n + 1 \in 1..(MaxRetry + 1) /\ n \in 1..(MaxRetry + 1)
      BY <2>1, <2>2
    <3>2. n < MaxRetry => n + 1 \in 1..MaxRetry /\ (n + 1) - 1 = n
      BY <2>1, <2>2
    <3> QED
      BY <2>1, <3>1, <3>2 DEF Timetable
  <2>4. /\ db'.counter[e] = n + 1
        /\ db'.status[e] = IF n >= MaxRetry THEN "FAILED" ELSE "ENQUEUED_RETRY"
        /\ n < MaxRetry => db'.due[e] = dd
    BY <1>1, <1>3, <2>1, <2>2, RetryFailedDates DEF RetryEffect, TableOK, PInv
  <2>5. db'.enabled[Parent[e]] => age[e] + db.due[e] <= latest[n] + d
    <3>1. db'.enabled[Parent[e]] => db.enabled[Parent[e]]
      BY <1>3, RetryFailedDates DEF PInv
    <3> QED
      BY <2>1, <3>1 DEF PInv, OnSchedule
  <2>6. (n + 1) - 1 = n
    BY <2>1, <2>2
  <2> HIDE DEF n, d, dd
  <2>7. CASE n < MaxRetry
    <3>1. n + 1 \in 1..MaxRetry /\ dd >= -MaxLate /\ db'.due[e] = dd
          /\ db'.status[e] = "ENQUEUED_RETRY"
      BY <2>1, <2>2, <2>3, <2>4, <2>7
    <3>2. db'.enabled[Parent[e]] => age[e] + dd <= latest[n + 1] + dd
      BY <2>1, <2>2, <2>3, <2>5, <2>7
    <3> QED
      BY <2>4, <2>6, <3>1, <3>2 DEF dd
  <2>8. CASE n >= MaxRetry
    BY <2>1, <2>2, <2>4, <2>8 DEF Retryable
  <2> QED
    BY <2>1, <2>2, <2>7, <2>8
<1>6. OnSchedule(latest, db)'
  BY <1>1, <1>4, <1>5 DEF OnSchedule
<1> QED
  BY <1>2, <1>6

\* The first failure is dated from an age of 0.
LEMMA ScheduleFirstFailure ==
  ASSUME NEW latest, Timetable(latest), NEW t, TableOK(t), Rows(t), OnSchedule(latest, t),
         NEW e \in Events, task[e] = "saving", age[e] = 0
  PROVE  OnSchedule(latest, SaveFailure(t, e))
<1> DEFINE u == SaveFailure(t, e)
<1>1. t.status[e] = "IN_PROGRESS" /\ t.counter[e] = 0
  BY DEF Rows, Live
<1>2. MaxRetry \in Nat \ {0} /\ MaxLate \in Nat
  BY ScheduleAssumption, InputAssumption DEF ScheduleAssumption, InputAssumption
<1>3. /\ u.status = [t.status EXCEPT ![e] = IF e \in DebugEvents THEN "FAILED"
                                            ELSE "ENQUEUED_RETRY"]
      /\ u.counter = [t.counter EXCEPT ![e] = 1]
      /\ u.due = [t.due EXCEPT ![e] = get_next_webhook_retry_date(0)]
      /\ u.enabled = t.enabled
  BY <1>1, <1>2 DEF SaveFailure, WithEvents, Table, TableOK
<1>4. get_next_webhook_retry_date(1 - 1) \in Nat /\ latest[1] \in Nat
  <2>1. 1 \in 1..MaxRetry /\ 1 \in 1..(MaxRetry + 1)
    BY <1>2
  <2> QED
    BY <2>1 DEF Timetable
<1>5. get_next_webhook_retry_date(1 - 1) = get_next_webhook_retry_date(0)
  OBVIOUS
<1> DEFINE d == get_next_webhook_retry_date(0)
<1>6. d \in Nat /\ d >= -MaxLate /\ 0 + d <= latest[1] + d /\ 1 \in 1..MaxRetry
  BY <1>2, <1>4, <1>5
<1> HIDE DEF u, d
<1>7. ASSUME NEW f \in Events, f # e
      PROVE  /\ u.status[f] = t.status[f] /\ u.counter[f] = t.counter[f]
             /\ u.due[f] = t.due[f]
  BY <1>3, <1>7 DEF TableOK
<1>8. /\ u.status[e] = IF e \in DebugEvents THEN "FAILED" ELSE "ENQUEUED_RETRY"
      /\ u.counter[e] = 1 /\ u.due[e] = d
  BY <1>3 DEF TableOK, d
<1>9. OnSchedule(latest, u)
  <2> SUFFICES ASSUME NEW f \in Events
               PROVE  /\ u.status[f] \in Retryable =>
                           /\ u.counter[f] \in 1..MaxRetry
                           /\ u.due[f] >= -MaxLate
                           /\ u.enabled[Parent[f]] =>
                                /\ u.status[f] = "ENQUEUED_RETRY"
                                /\ age[f] + u.due[f]
                                     <= latest[u.counter[f]]
                                        + get_next_webhook_retry_date(u.counter[f] - 1)
                      /\ f \notin DebugEvents /\ u.status[f] = "FAILED"
                            => u.counter[f] = MaxRetry + 1
    BY DEF OnSchedule
  <2>1. CASE f = e
    BY <1>5, <1>6, <1>8, <2>1 DEF Retryable, d
  <2>2. CASE f # e
    BY <1>3, <1>7, <2>2 DEF OnSchedule
  <2> QED
    BY <2>1, <2>2
<1> QED
  BY <1>9 DEF u

\* The first attempt keeps the schedule.
LEMMA ScheduleTask ==
  ASSUME NEW latest, Timetable(latest), PInv(latest), NEW e \in Events,
         StartTask(e) \/ TaskStep(e)
  PROVE  OnSchedule(latest, db)' /\ OnSchedule(latest, disk)' /\ FirstIsSoon'
<1>1. age' = age
  BY DEF StartTask, TaskStep, CreateEvent, PostAnswered, PostFailed, RecordSuccess, ReadWebhook,
     CountFirstFailure, RecordFailure, rows
<1>2. /\ task[e] \in Live \cup {"none", "queued"}
      /\ \A f \in Events : f # e => task'[f] = task[f]
      /\ task \in [Events -> Live \cup {"none", "queued", "done", "dead"}]
  BY DEF StartTask, TaskStep, CreateEvent, PostAnswered, PostFailed, RecordSuccess, ReadWebhook,
     CountFirstFailure, RecordFailure, SetTask, Live, PInv, IInv, TypeOK
<1>3. FirstIsSoon'
  BY <1>1, <1>2 DEF FirstIsSoon, PInv
<1>4. TableOK(db) /\ TableOK(disk) /\ Rows(db) /\ Rows(disk)
  BY DEF PInv, IInv, TypeOK
<1>5. CASE StartTask(e) \/ PostAnswered(e) \/ PostFailed(e) \/ ReadWebhook(e)
  BY <1>1, <1>3, <1>5 DEF StartTask, PostAnswered, PostFailed, ReadWebhook, tables, PInv,
     OnSchedule
<1>6. CASE CountFirstFailure(e)
  BY <1>1, <1>3, <1>6 DEF CountFirstFailure, Autocommit, CountFailure, WithWebhooks, Table, PInv,
     OnSchedule
<1>7. CASE CreateEvent(e) \/ RecordSuccess(e)
  <2>1. /\ \E s \in {"IN_PROGRESS", "SUCCESSFUL"} :
             /\ db'.status = [db.status EXCEPT ![e] = s]
             /\ disk'.status = [disk.status EXCEPT ![e] = s]
        /\ db'.counter = db.counter /\ db'.due = db.due /\ db'.enabled = db.enabled
        /\ disk'.counter = disk.counter /\ disk'.due = disk.due
        /\ disk'.enabled = disk.enabled
    BY <1>7 DEF CreateEvent, RecordSuccess, Autocommit, SaveSuccess, WithStatus, WithEvents,
       Table
  <2>2. \A f \in Events : /\ db'.status[f] = db.status[f]
                             \/ db'.status[f] \in {"IN_PROGRESS", "SUCCESSFUL"}
                          /\ disk'.status[f] = disk.status[f]
                             \/ disk'.status[f] \in {"IN_PROGRESS", "SUCCESSFUL"}
    BY <1>4, <2>1 DEF TableOK
  <2>3. OnSchedule(latest, db)'
    BY <1>1, <2>1, <2>2 DEF OnSchedule, PInv, Retryable
  <2>4. OnSchedule(latest, disk)'
    BY <1>1, <2>1, <2>2 DEF OnSchedule, PInv, Retryable
  <2> QED
    BY <1>3, <2>3, <2>4
<1>8. CASE RecordFailure(e)
  <2>1. /\ task[e] = "saving" /\ age[e] = 0
        /\ db' = SaveFailure(db, e) /\ disk' = SaveFailure(disk, e)
    BY <1>8 DEF RecordFailure, SetTask, Autocommit, PInv, FirstIsSoon, Live
  <2>2. OnSchedule(latest, SaveFailure(db, e)) /\ OnSchedule(latest, SaveFailure(disk, e))
    BY <1>4, <2>1, ScheduleFirstFailure DEF PInv
  <2>3. OnSchedule(latest, db)' /\ OnSchedule(latest, disk)'
    BY <1>1, <2>1, <2>2 DEF OnSchedule
  <2> QED
    BY <1>3, <2>3
<1> QED
  BY <1>5, <1>6, <1>7, <1>8 DEF TaskStep

\* A round fails nothing before its time, takes up no parked event, and ends with
\* the schedule it kept.
LEMMA ScheduleDaemon ==
  ASSUME NEW latest, Timetable(latest), PInv(latest), DaemonStep
  PROVE  OnSchedule(latest, db)' /\ OnSchedule(latest, disk)' /\ FirstIsSoon'
<1>1. age' = age /\ task' = task
  BY DEF DaemonStep, FailOverdue, RestoreCounters, SelectBatch, Commit, RetryAnswered, RetryFailed,
     RetryRaises, Abort, rows
<1>2. FirstIsSoon'
  BY <1>1 DEF FirstIsSoon, PInv
<1>3. TableOK(db) /\ TableOK(disk)
  BY DEF PInv, IInv, TypeOK
<1>4. CASE FailOverdue
  <2>1. \A e \in Events : ~(e \in Base(db) /\ TooOld(e))
    BY DueIsYoung
  <2>2. /\ db'.status = [e \in Events |-> IF e \in Base(db) /\ TooOld(e) THEN "FAILED"
                                          ELSE db.status[e]]
        /\ db'.counter = db.counter /\ db'.due = db.due /\ db'.enabled = db.enabled
        /\ disk' = disk
    BY <1>4 DEF FailOverdue, WithStatus, WithEvents, Table
  <2>3. \A e \in Events : db'.status[e] = db.status[e]
    BY <2>1, <2>2
  <2> QED
    BY <1>1, <1>2, <2>2, <2>3 DEF PInv, OnSchedule
<1>5. CASE RestoreCounters
  <2>1. \A e \in Events : e \notin Parked
    BY DueIsYoung DEF Parked
  <2>2. /\ db'.counter = [e \in Events |-> IF e \in Parked THEN 0 ELSE db.counter[e]]
        /\ db'.status = db.status /\ db'.due = db.due /\ db'.enabled = db.enabled
        /\ disk' = disk
    BY <1>5 DEF RestoreCounters, WithEvents, Table
  <2>3. \A e \in Events : db'.counter[e] = db.counter[e]
    BY <2>1, <2>2
  <2> QED
    BY <1>1, <1>2, <2>2, <2>3 DEF PInv, OnSchedule
<1>6. CASE SelectBatch \/ Commit \/ \E e \in Events : RetryRaises(e)
  BY <1>1, <1>2, <1>6 DEF SelectBatch, Commit, RetryRaises, Abort, tables, PInv, OnSchedule
<1>7. ASSUME NEW e \in Events, RetryAnswered(e)
      PROVE  OnSchedule(latest, db)' /\ OnSchedule(latest, disk)'
  <2>1. /\ db'.status = [db.status EXCEPT ![e] = "SUCCESSFUL"]
        /\ db'.counter = db.counter /\ db'.due = db.due /\ db'.enabled = db.enabled
        /\ disk' = disk
    BY <1>7 DEF RetryAnswered, SaveSuccess, WithStatus, WithEvents, Table
  <2>2. \A f \in Events : db'.status[f] = db.status[f] \/ db'.status[f] = "SUCCESSFUL"
    BY <1>3, <2>1 DEF TableOK
  <2> QED
    BY <1>1, <2>1, <2>2 DEF PInv, OnSchedule, Retryable
<1>8. ASSUME NEW e \in Events, RetryFailed(e)
      PROVE  OnSchedule(latest, db)' /\ OnSchedule(latest, disk)'
  BY <1>8, ScheduleRetryFailed
<1> QED
  BY <1>2, <1>4, <1>5, <1>6, <1>7, <1>8 DEF DaemonStep

\* A tick ages the waiting events and brings their dates nearer; none of them is
\* so late already that it would not show.
LEMMA ScheduleTick ==
  ASSUME NEW latest, Timetable(latest), PInv(latest), OnTime, Tick
  PROVE  OnSchedule(latest, db)' /\ OnSchedule(latest, disk)' /\ FirstIsSoon'
<1>1. db = disk /\ db' = Later(db) /\ disk' = db'
  BY DEF OnTime, Tick, Autocommit, PInv, IInv, OutsideOK, InRound
<1>2. TableOK(db) /\ age \in [Events -> 0..(CUT_OFF + 1)]
  BY DEF PInv, IInv, TypeOK
<1>3. \A e \in Events : age'[e] = IF disk.status[e] \in NoRow \/ TooOld(e) THEN age[e]
                                  ELSE age[e] + 1
  BY <1>2 DEF Tick
<1>4. MaxRetry \in Nat /\ MaxLate \in Nat /\ CUT_OFF \in Nat
  BY ScheduleAssumption, InputAssumption DEF ScheduleAssumption, InputAssumption
<1>5. /\ db'.status = db.status /\ db'.counter = db.counter /\ db'.enabled = db.enabled
      /\ \A e \in Events :
            db'.due[e] = IF db.due[e] > -MaxLate THEN db.due[e] - 1 ELSE db.due[e]
  BY <1>1 DEF Later, WithEvents, Table
<1>6. FirstIsSoon'
  <2> SUFFICES ASSUME NEW e \in Events, task[e] \in Live \cup {"none", "queued"}
               PROVE  age'[e] = 0
    BY DEF FirstIsSoon, Tick
  <2>1. age[e] = 0 /\ task[e] \in {"none", "queued"}
    BY DEF PInv, FirstIsSoon, OnTime
  <2>2. disk.status[e] \in NoRow
    BY <2>1 DEF PInv, IInv, Rows, NoRow
  <2> QED
    BY <1>3, <2>1, <2>2
<1>7. ASSUME NEW e \in Events, db.status[e] \in Retryable
      PROVE  /\ db'.counter[e] \in 1..MaxRetry
             /\ db'.due[e] >= -MaxLate
             /\ db'.enabled[Parent[e]] =>
                   /\ db'.status[e] = "ENQUEUED_RETRY"
                   /\ age'[e] + db'.due[e]
                         <= latest[db'.counter[e]] + get_next_webhook_retry_date(db'.counter[e] - 1)
  <2> DEFINE n == db.counter[e]
             d == get_next_webhook_retry_date(n - 1)
  <2>1. /\ n \in 1..MaxRetry /\ db.due[e] >= -MaxLate /\ e \notin DebugEvents
        /\ db.enabled[Parent[e]] =>
              db.status[e] = "ENQUEUED_RETRY" /\ age[e] + db.due[e] <= latest[n] + d
    BY <1>7 DEF PInv, OnSchedule, IInv, Rows
  <2>2. latest[n] \in Nat /\ d \in Nat
    <3>1. n \in 1..(MaxRetry + 1)
      BY <1>4, <2>1
    <3> QED
      BY <2>1, <3>1 DEF Timetable
  <2>3. db.due[e] \in Int /\ age[e] \in Nat /\ age'[e] \in Nat /\ age'[e] <= age[e] + 1
    BY <1>2, <1>3 DEF TableOK
  <2>4. db.enabled[Parent[e]] => db.due[e] > -MaxLate
    <3>1. db.enabled[Parent[e]] /\ db.due[e] <= 0 => e \in Base(db)
      BY <1>7, <2>1 DEF Base
    <3>2. e \in Base(db) => db.due[e] > -MaxLate
      BY DEF OnTime
    <3> QED
      BY <1>4, <2>1, <2>3, <3>1, <3>2
  <2> HIDE DEF n, d
  <2>5. db'.due[e] >= -MaxLate
    BY <1>4, <1>5, <2>1, <2>3
  <2>6. db.enabled[Parent[e]] => age'[e] + db'.due[e] <= latest[n] + d
    BY <1>4, <1>5, <2>1, <2>2, <2>3, <2>4
  <2> QED
    BY <1>5, <2>1, <2>5, <2>6 DEF n, d
<1>8. OnSchedule(latest, db)'
  BY <1>5, <1>7 DEF OnSchedule, PInv
<1>9. OnSchedule(latest, disk)'
  BY <1>1, <1>8 DEF OnSchedule
<1> QED
  BY <1>6, <1>8, <1>9

\* PInv is inductive for the punctual steps.
LEMMA PunctualKeeps ==
  ASSUME NEW latest, Timetable(latest), PInv(latest), [PunctualNext]_vars
  PROVE  PInv(latest)'
<1>1. IInv'
  BY NextKeeps DEF PInv, PunctualNext, Next
<1>2. OnSchedule(latest, db)' /\ OnSchedule(latest, disk)' /\ FirstIsSoon'
  <2>1. CASE \E e \in Events : StartTask(e) \/ TaskStep(e)
    BY <2>1, ScheduleTask
  <2>2. CASE DaemonStep
    BY <2>2, ScheduleDaemon
  <2>3. CASE OnTime /\ Tick
    BY <2>3, ScheduleTick
  <2>4. CASE UNCHANGED vars
    BY <2>4 DEF vars, tables, rows, PInv, OnSchedule, FirstIsSoon
  <2> QED
    BY <2>1, <2>2, <2>3, <2>4 DEF PunctualNext
<1> QED
  BY <1>1, <1>2 DEF PInv

\* cl_retry_webhooks.py computes HOURS_WEBHOOKS_CUT_OFF from the delays by hand: with any
\* schedule of retries whose last one, each of them MaxLate late, comes within the
\* cut-off, FailOverdue fails no event that still has a retry to come.
THEOREM CutOffIsLateEnough ==
  ASSUME CONSTANT latest, Timetable(latest)
  PROVE  PunctualSpec => []CutOffSparesRetries
<1>1. Init => PInv(latest)
  BY InitOK DEF Init, Table, PInv, OnSchedule, FirstIsSoon, Retryable
<1>2. PInv(latest) /\ [PunctualNext]_vars => PInv(latest)'
  BY PunctualKeeps
<1>3. PInv(latest) => CutOffSparesRetries
  BY DEF PInv, OnSchedule, CutOffSparesRetries
<1> QED
  BY <1>1, <1>2, <1>3, PTL DEF PunctualSpec
=============================================================================
