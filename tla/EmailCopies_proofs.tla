------------------------- MODULE EmailCopies_proofs -------------------------
(***************************************************************************)
(* Proofs about EmailBackoff that follow a message through its copies:     *)
(* that none is lost and none repeated but for the reasons given, for any  *)
(* messages, addresses and bounds.                                         *)
(***************************************************************************)
EXTENDS EmailBackoff_proofs, FiniteSetTheorems

\* Copies are stored one after the other.
Contiguous ==
    \A c, d \in Copies : origin[c] = NoMessage /\ c <= d => origin[d] = NoMessage

\* What is known of the mail that is out and of the copies stored.
RecordsOK ==
    /\ \A p \in Rows :
          /\ p \in bounced => p[2] \in mailed[p[1]]
          /\ p[2] \in mailed[p[1]] => p[2] \in To[origin[p[1]]]
    /\ \A c \in db.stored \cup purged : origin[c] \in Messages
    /\ disk.stored \subseteq db.stored
    /\ purged \cap db.stored = {}

\* A row belongs to a stored copy and an address of its message, which was
\* held back or bounced.
RowsOK(t) ==
    \A p \in Rows : t.status[p] # "NONE" =>
        /\ p[1] \in t.stored
        /\ p[2] \in To[origin[p[1]]]
        /\ p[2] \in mailed[p[1]] => p \in bounced

\* The open transaction of the command differs from what is committed in the
\* rows it has sent and in the copies it has stored.
RunOK ==
    /\ cron # "sending" => batch = {} /\ db = disk
    /\ \A p \in batch : disk.status[p] \in Queued /\ db.status[p] = disk.status[p]
    /\ \A p \in Rows :
          /\ p[1] \in disk.stored /\ disk.status[p] = "NONE" => db.status[p] = "NONE"
          /\ p[1] \in db.stored \ disk.stored /\ p[2] \in mailed[p[1]]
                => db.status[p] = "NONE"

\* A message that is being sent is at its first copy, and has neither a row nor
\* mail for the addresses it still has to come to.
SenderAt(m) ==
    /\ open[m] \cup hold[m] \subseteq To[m]
    /\ stand[m] \in {"new", "open"} => \A c \in Copies : origin[c] # m
    /\ stand[m] \in InFlight =>
          /\ own[m] \in disk.stored
          /\ mailed[own[m]] = {}
          /\ open[m] \cap hold[m] = {}
          /\ \A r \in open[m] \cup hold[m] :
                db.status[<<own[m], r>>] = "NONE" /\ disk.status[<<own[m], r>>] = "NONE"

SenderOK == \A m \in Messages : SenderAt(m)

CopiesOK ==
    Contiguous /\ RecordsOK /\ RowsOK(db) /\ RowsOK(disk) /\ RunOK /\ SenderOK

----------------------------------------------------------------------------
(* What the operators on tables do to copies and rows.                     *)

LEMMA StoredOf ==
  ASSUME NEW t
  PROVE  /\ \A c, r, s, d : WithRow(t, c, r, s, d).stored = t.stored
         /\ \A c : WithCopy(t, c).stored = t.stored \cup {c}
         /\ \A P, s : WithStatus(t, P, s).stored = t.stored
         /\ \A c, R : HoldBack(t, c, R).stored = t.stored
         /\ \A R : Schedule(t, R).stored = t.stored
         /\ \A c : Without(t, c).stored = t.stored \ {c}
         /\ Later(t).stored = t.stored
BY DEF WithRow, WithCopy, WithStatus, HoldBack, Schedule, Without, Later, Table

LEMMA RowParts ==
  /\ \A p \in Rows : p[1] \in Copies /\ p[2] \in Recipients /\ p = <<p[1], p[2]>>
  /\ \A c \in Copies, r \in Recipients : <<c, r>> \in Rows
BY DEF Rows

LEMMA Statuses ==
  /\ \A t, r : NewStatus(t, r) \in {"ENQUEUED", "WAITING"}
  /\ Unsent = {"ENQUEUED", "ENQUEUED_DELIVERY", "WAITING"}
  /\ Queued = {"ENQUEUED", "ENQUEUED_DELIVERY"}
BY DEF NewStatus, Unsent, Queued

\* enqueue_email makes a row in both tables, or finds one and makes none.
LEMMA EnqueueEffect ==
  ASSUME TypeOK, NEW c \in Copies, NEW r \in Recipients, NEW d \in Nat, Enqueue(c, r, d)
  PROVE  /\ db'.stored = db.stored /\ disk'.stored = disk.stored
         /\ db = disk => db' = disk'
         /\ \/ disk.status[<<c, r>>] # "NONE" /\ UNCHANGED tables
            \/ /\ disk.status[<<c, r>>] = "NONE"
               /\ \E s \in {"ENQUEUED", "WAITING"} : \A p \in Rows :
                     /\ db'.status[p] = IF p = <<c, r>> THEN s ELSE db.status[p]
                     /\ disk'.status[p] = IF p = <<c, r>> THEN s ELSE disk.status[p]
<1>1. CASE disk.status[<<c, r>>] # "NONE"
  <2>1. UNCHANGED tables
    BY <1>1 DEF Enqueue
  <2> QED
    BY <1>1, <2>1 DEF tables
<1>2. CASE disk.status[<<c, r>>] = "NONE"
  <2> DEFINE s == NewStatus(disk, r)
  <2>1. /\ disk' = WithRow(disk, c, r, s, d)
        /\ db' = WithRow(db, c, r, s, d)
    BY <1>2 DEF Enqueue
  <2>2. s \in {"ENQUEUED", "WAITING"} /\ s \in Status
    BY Statuses, StatusTypes
  <2>3. TableOK(db) /\ TableOK(disk)
    BY DEF TypeOK
  <2> HIDE DEF s
  <2>4. \A p \in Rows :
            /\ db'.status[p] = IF p = <<c, r>> THEN s ELSE db.status[p]
            /\ disk'.status[p] = IF p = <<c, r>> THEN s ELSE disk.status[p]
    BY <2>1, <2>2, <2>3, StatusOf
  <2>5. db'.stored = db.stored /\ disk'.stored = disk.stored /\ (db = disk => db' = disk')
    BY <2>1, StoredOf
  <2> QED
    BY <1>2, <2>2, <2>4, <2>5
<1> QED
  BY <1>1, <1>2

\* A retry of the row <<c, r>> that stores the copy n, mails it to B and holds it
\* back for H: whoever of the message is not banned is in B or in H.
SendsAgain(c, r, n, B, H) ==
    /\ IsFresh(n)
    /\ origin' = [origin EXCEPT ![n] = origin[c]]
    /\ mailed' = [mailed EXCEPT ![n] = B]
    /\ B \cap H = {}
    /\ \A q \in To[origin[c]] : banned[q] # "no" \/ q \in B \/ q \in H
    /\ db'.stored = db.stored \cup {n}
    /\ \A p \in Rows :
          /\ p = <<c, r>> => db'.status[p] = "SUCCESSFUL"
          /\ p # <<c, r>> /\ p[1] = n /\ p[2] \in H => db'.status[p] \in {"ENQUEUED", "WAITING"}
          /\ p # <<c, r>> /\ ~(p[1] = n /\ p[2] \in H) => db'.status[p] = db.status[p]

\* All its addresses are banned: the row is done and nothing is sent.
SendsNothing(c, r) ==
    /\ \A q \in To[origin[c]] : banned[q] # "no"
    /\ UNCHANGED <<origin, mailed>>
    /\ db'.stored = db.stored
    /\ \A p \in Rows : db'.status[p] = IF p = <<c, r>> THEN "SUCCESSFUL" ELSE db.status[p]

LEMMA RetryEffect ==
  ASSUME TypeOK, OriginsOK, NEW c \in Copies, NEW r \in Recipients, Retry(c, r)
  PROVE  /\ cron = "sending" /\ <<c, r>> \in batch /\ <<c, r>> \in Rows
         /\ batch' = batch \ {<<c, r>>} /\ origin[c] \in Messages
         /\ UNCHANGED <<disk, banned, sender, cron, bounced, early, purged, rollbacks>>
         /\ \/ SendsNothing(c, r)
            \/ \E n \in Copies, B, H \in SUBSET To[origin[c]] : SendsAgain(c, r, n, B, H)
<1> DEFINE R == Unbanned(Resent(c, r))
           H == BackingOff(R)
           B == R \ H
<1>1. /\ cron = "sending" /\ <<c, r>> \in batch /\ <<c, r>> \in Rows
      /\ batch' = batch \ {<<c, r>>}
      /\ UNCHANGED <<disk, banned, sender, cron, bounced, early, purged, rollbacks>>
  BY DEF Retry, Rows, flags, bounds
<1>2. origin[c] \in Messages
  BY <1>1 DEF OriginsOK
<1>3. /\ R \in SUBSET To[origin[c]] /\ H \in SUBSET To[origin[c]] /\ B \in SUBSET To[origin[c]]
      /\ \A q \in To[origin[c]] : banned[q] # "no" \/ q \in R
  BY DEF Unbanned, Resent, BackingOff
<1>4. To[origin[c]] \in SUBSET Recipients
  BY <1>2, MailAssumption DEF MailAssumption
<1>5. TableOK(db)
  BY DEF TypeOK
<1>6. CASE R = {}
  <2>1. db' = WithStatus(db, {<<c, r>>}, "SUCCESSFUL") /\ UNCHANGED <<origin, mailed>>
    BY <1>6 DEF Retry
  <2>2. SendsNothing(c, r)
    <3>1. db'.stored = db.stored
      BY <2>1, StoredOf
    <3>2. \A p \in Rows : db'.status[p] = IF p = <<c, r>> THEN "SUCCESSFUL" ELSE db.status[p]
      BY <1>1, <1>5, <2>1, StatusOf, StatusTypes
    <3> QED
      BY <1>3, <1>6, <2>1, <3>1, <3>2 DEF SendsNothing
  <2> QED
    BY <1>1, <1>2, <2>2
<1>7. CASE R # {}
  <2>1. PICK n \in Copies :
          /\ IsFresh(n)
          /\ origin' = [origin EXCEPT ![n] = origin[c]]
          /\ mailed' = [mailed EXCEPT ![n] = B]
          /\ db' = WithStatus(HoldBack(WithStatus(WithCopy(db, n), {<<c, r>>}, "IN_PROGRESS"),
                                       n, H),
                              {<<c, r>>}, "SUCCESSFUL")
    BY <1>7 DEF Retry
  <2> DEFINE t1 == WithCopy(db, n)
             t2 == WithStatus(t1, {<<c, r>>}, "IN_PROGRESS")
             t3 == HoldBack(t2, n, H)
  <2>2. TableOK(t1) /\ TableOK(t2)
    <3>1. 0 \in Nat /\ {<<c, r>>} \in SUBSET Rows
      BY <1>1
    <3> QED
      BY <1>5, <3>1, TablesStayTyped, StatusTypes
  <2>3. TableOK(t3)
    <3> HIDE DEF t2
    <3> QED
      BY <2>2, <1>3, <1>4, StatusTypes, DatesAreNat DEF HoldBack, NewStatus, TableOK, Table, Rows
  <2>4. \A p \in Rows : t2.status[p] = IF p = <<c, r>> THEN "IN_PROGRESS" ELSE db.status[p]
    BY <1>1 DEF WithStatus, WithCopy, Table
  <2>5. ASSUME NEW p \in Rows
        PROVE db'.status[p] = IF p = <<c, r>> THEN "SUCCESSFUL"
                              ELSE IF p[1] = n /\ p[2] \in H THEN NewStatus(t2, p[2])
                              ELSE db.status[p]
    <3>1. db'.status[p] = IF p = <<c, r>> THEN "SUCCESSFUL" ELSE t3.status[p]
      BY <2>1, <2>3, <1>1, StatusOf, StatusTypes
    <3>2. H \in SUBSET Recipients
      BY <1>3, <1>4
    <3>3. t3.status[p] = IF p[1] = n /\ p[2] \in H THEN NewStatus(t2, p[2]) ELSE t2.status[p]
      BY <2>2, <3>2, StatusOf
    <3> QED
      BY <3>1, <3>3, <2>4
  <2>6. db'.stored = db.stored \cup {n}
    BY <2>1 DEF WithStatus, HoldBack, WithCopy, Table
  <2> HIDE DEF t2, R, H
  <2>7. SendsAgain(c, r, n, B, H)
    BY <1>3, <2>1, <2>5, <2>6, Statuses DEF SendsAgain
  <2> QED
    BY <1>1, <1>2, <1>3, <2>7
<1> QED
  BY <1>6, <1>7

----------------------------------------------------------------------------
(* Copies, mail and rows, action by action.                                *)

\* A message that a step does not touch.
LEMMA SenderStays ==
  ASSUME TypeOK, OriginsOK, NEW m \in Messages, SenderAt(m),
         /\ stand'[m] = stand[m] /\ open'[m] = open[m]
         /\ hold'[m] = hold[m] /\ own'[m] = own[m],
         \A c \in Copies : origin'[c] = m => origin[c] = m,
         stand[m] \in InFlight =>
            /\ own[m] \in disk'.stored /\ mailed'[own[m]] = mailed[own[m]]
            /\ \A r \in Recipients :
                  /\ db'.status[<<own[m], r>>] = db.status[<<own[m], r>>]
                  /\ disk'.status[<<own[m], r>>] = disk.status[<<own[m], r>>]
  PROVE  SenderAt(m)'
<1>1. open[m] \in SUBSET Recipients /\ hold[m] \in SUBSET Recipients
  BY DEF TypeOK
<1> QED
  BY <1>1 DEF SenderAt

\* A step of a message leaves the others where they stand.
LEMMA OthersStand ==
  ASSUME TypeOK, NEW m \in Messages, SendStep(m), NEW k \in Messages, k # m
  PROVE  /\ stand'[k] = stand[k] /\ open'[k] = open[k]
         /\ hold'[k] = hold[k] /\ own'[k] = own[k]
BY DEF TypeOK, SendStep, CheckBans, CheckBackoff, ReadDate, InsertRow, Deliver, SendRaises

LEMMA CopiesCheckBackoff ==
  ASSUME TypeOK, OriginsOK, CopiesOK, NEW m \in Messages, CheckBackoff(m)
  PROVE  CopiesOK'
<1>1. PICK c \in Copies : /\ IsFresh(c)
                          /\ origin' = [origin EXCEPT ![c] = m]
                          /\ own' = [own EXCEPT ![m] = c]
                          /\ disk' = WithCopy(disk, c)
                          /\ db' = WithCopy(db, c)
  BY DEF CheckBackoff
<1>2. /\ stand[m] = "open"
      /\ stand' = [stand EXCEPT ![m] = "queue"]
      /\ hold' = [hold EXCEPT ![m] = BackingOff(open[m])]
      /\ open' = [open EXCEPT ![m] = open[m] \ BackingOff(open[m])]
      /\ UNCHANGED <<mailed, bounced, purged, cron, batch>>
  BY DEF CheckBackoff, run
<1>3. origin[c] = NoMessage /\ \A k \in Copies : k < c => origin[k] # NoMessage
  BY <1>1 DEF IsFresh, Copies
<1>4. \A k \in Copies : origin'[k] = IF k = c THEN m ELSE origin[k]
  BY <1>1 DEF TypeOK
<1>5. \A p \in Rows : p[1] = c =>
          /\ db.status[p] = "NONE" /\ disk.status[p] = "NONE" /\ p[2] \notin mailed[p[1]]
  BY <1>3, MailAssumption DEF OriginsOK, MailAssumption
<1>6. c \notin db.stored /\ c \notin purged
  BY <1>3, MailAssumption DEF CopiesOK, RecordsOK, MailAssumption
<1>7. /\ \A p \in Rows : db'.status[p] = db.status[p] /\ disk'.status[p] = disk.status[p]
      /\ db'.stored = db.stored \cup {c} /\ disk'.stored = disk.stored \cup {c}
  BY <1>1 DEF WithCopy, Table
<1>8. Contiguous'
  BY <1>3, <1>4, MailAssumption DEF CopiesOK, Contiguous, MailAssumption, Copies
<1>9. RecordsOK'
  BY <1>2, <1>4, <1>5, <1>6, <1>7, RowParts DEF CopiesOK, RecordsOK, TypeOK, TableOK
<1>10. RowsOK(db)' /\ RowsOK(disk)'
  BY <1>2, <1>4, <1>5, <1>7, RowParts DEF CopiesOK, RowsOK
<1>11. RunOK'
  BY <1>1, <1>2, <1>5, <1>7, RowParts DEF CopiesOK, RunOK, TypeOK
<1>12. SenderAt(m)'
  <2>1. /\ own'[m] = c /\ hold'[m] = BackingOff(open[m]) /\ stand'[m] = "queue"
        /\ open'[m] = open[m] \ BackingOff(open[m])
    BY <1>1, <1>2 DEF TypeOK
  <2>2. BackingOff(open[m]) \subseteq open[m] /\ open[m] \in SUBSET Recipients
    BY DEF BackingOff, TypeOK
  <2>3. open[m] \subseteq To[m]
    BY DEF CopiesOK, SenderOK, SenderAt
  <2>4. mailed[c] = {}
    <3>1. \A q \in Recipients : <<c, q>> \in Rows
      BY RowParts
    <3>2. \A q \in Recipients : q \notin mailed[c]
      BY <1>5, <3>1
    <3> QED
      BY <3>2 DEF TypeOK
  <2>5. \A q \in Recipients : /\ db'.status[<<c, q>>] = "NONE"
                              /\ disk'.status[<<c, q>>] = "NONE"
    BY <1>5, <1>7, RowParts
  <2> QED
    BY <1>2, <1>7, <2>1, <2>2, <2>3, <2>4, <2>5 DEF SenderAt
<1>13. ASSUME NEW k \in Messages, k # m PROVE SenderAt(k)'
  <2>1. SendStep(m) /\ SenderAt(k)
    BY DEF SendStep, CopiesOK, SenderOK
  <2>2. stand[k] \in InFlight => own[k] \in Copies
    BY DEF OriginsOK
  <2> QED
    BY <1>2, <1>4, <1>7, <1>13, <2>1, <2>2, OthersStand, SenderStays, RowParts
       DEF CopiesOK, SenderOK, SenderAt
<1> QED
  BY <1>8, <1>9, <1>10, <1>11, <1>12, <1>13 DEF CopiesOK, SenderOK

\* A step that adds no copy and no row, sends nothing and hears of nothing.
LEMMA RecordsStay ==
  ASSUME CopiesOK, UNCHANGED <<origin, mailed, bounced, purged>>,
         db'.stored = db.stored /\ disk'.stored = disk.stored,
         \A p \in Rows :
            /\ db'.status[p] # "NONE" => db.status[p] # "NONE"
            /\ disk'.status[p] # "NONE" => disk.status[p] # "NONE"
  PROVE  Contiguous' /\ RecordsOK' /\ RowsOK(db)' /\ RowsOK(disk)'
<1>1. Contiguous' /\ RecordsOK'
  BY DEF CopiesOK, Contiguous, RecordsOK
<1>2. RowsOK(db)' /\ RowsOK(disk)'
  BY DEF CopiesOK, RowsOK
<1> QED
  BY <1>1, <1>2

\* The steps of a message before it has a copy, between its rows, and the one
\* that fails.
LEMMA CopiesQuietSend ==
  ASSUME TypeOK, OriginsOK, CopiesOK, NEW m \in Messages,
         CheckBans(m) \/ (\E r \in Recipients : ReadDate(m, r)) \/ SendRaises(m)
  PROVE  CopiesOK'
<1>1. UNCHANGED <<db, disk, cron, batch, origin, mailed, bounced, purged, own>>
  BY DEF CheckBans, ReadDate, SendRaises, tables, run, past
<1>2. Contiguous' /\ RecordsOK' /\ RowsOK(db)' /\ RowsOK(disk)'
  BY <1>1, RecordsStay
<1>3. RunOK'
  BY <1>1 DEF CopiesOK, RunOK
<1>4. SendStep(m)
  BY DEF SendStep
<1>5. SenderAt(m)'
  <2>1. SenderAt(m)
    BY DEF CopiesOK, SenderOK
  <2>2. CASE CheckBans(m)
    BY <1>1, <2>1, <2>2 DEF CheckBans, SenderAt, TypeOK, Unbanned, InFlight
  <2>3. ASSUME NEW r \in Recipients, ReadDate(m, r) PROVE SenderAt(m)'
    BY <1>1, <2>1, <2>3 DEF ReadDate, SenderAt, TypeOK, InFlight
  <2>4. CASE SendRaises(m)
    BY <1>1, <2>1, <2>4 DEF SendRaises, SenderAt, TypeOK, InFlight
  <2> QED
    BY <2>2, <2>3, <2>4
<1>6. ASSUME NEW k \in Messages, k # m PROVE SenderAt(k)'
  <2>1. SenderAt(k)
    BY DEF CopiesOK, SenderOK
  <2>2. stand[k] \in InFlight => own[k] \in disk'.stored
    BY <1>1, <2>1 DEF SenderAt
  <2> QED
    BY <1>1, <1>4, <1>6, <2>1, <2>2, OthersStand, SenderStays
<1> QED
  BY <1>2, <1>3, <1>5, <1>6 DEF CopiesOK, SenderOK

LEMMA CopiesDeliver ==
  ASSUME TypeOK, OriginsOK, CopiesOK, NEW m \in Messages, Deliver(m)
  PROVE  CopiesOK'
<1>1. /\ stand[m] = "queue"
      /\ mailed' = [mailed EXCEPT ![own[m]] = open[m]]
      /\ stand' = [stand EXCEPT ![m] = "done"]
      /\ UNCHANGED <<db, disk, cron, batch, origin, bounced, purged, open, hold, own>>
  BY DEF Deliver, tables, run
<1>2. own[m] \in Copies /\ origin[own[m]] = m
  BY <1>1 DEF OriginsOK, InFlight
<1>3. /\ own[m] \in disk.stored /\ mailed[own[m]] = {} /\ open[m] \subseteq To[m]
      /\ \A r \in open[m] : db.status[<<own[m], r>>] = "NONE" /\ disk.status[<<own[m], r>>] = "NONE"
  BY <1>1 DEF CopiesOK, SenderOK, SenderAt, InFlight
<1>4. \A k \in Copies : mailed'[k] = IF k = own[m] THEN open[m] ELSE mailed[k]
  BY <1>1 DEF TypeOK
<1>5. Contiguous'
  BY <1>1 DEF CopiesOK, Contiguous
<1>6. RecordsOK'
  BY <1>1, <1>2, <1>3, <1>4, RowParts DEF CopiesOK, RecordsOK
<1>7. RowsOK(db)' /\ RowsOK(disk)'
  <2>1. \A p \in Rows : p[1] = own[m] /\ p[2] \in open[m] =>
            db.status[p] = "NONE" /\ disk.status[p] = "NONE"
    BY <1>3, RowParts
  <2> QED
    BY <1>1, <1>2, <1>4, <2>1, RowParts DEF CopiesOK, RowsOK
<1>8. RunOK'
  BY <1>1, <1>2, <1>3, <1>4, RowParts DEF CopiesOK, RunOK
<1>9. SenderAt(m)'
  BY <1>1 DEF CopiesOK, SenderOK, SenderAt, TypeOK, InFlight
<1>10. ASSUME NEW k \in Messages, k # m PROVE SenderAt(k)'
  <2>1. SendStep(m) /\ SenderAt(k)
    BY DEF SendStep, CopiesOK, SenderOK
  <2>2. stand[k] \in InFlight => own[k] \in Copies /\ own[k] # own[m] /\ own[k] \in disk'.stored
    BY <1>1, <1>2, <1>10, <2>1 DEF OriginsOK, SenderAt
  <2> QED
    BY <1>1, <1>4, <1>10, <2>1, <2>2, OthersStand, SenderStays
<1> QED
  BY <1>5, <1>6, <1>7, <1>8, <1>9, <1>10 DEF CopiesOK, SenderOK

\* A new row of a committed copy, for an address of its message that was held
\* back or bounced.
LEMMA CopiesEnqueue ==
  ASSUME TypeOK, OriginsOK, CopiesOK, NEW c \in Copies, NEW r \in Recipients, NEW d \in Nat,
         Enqueue(c, r, d), c \in disk.stored, r \in To[origin[c]],
         UNCHANGED <<cron, batch, origin, mailed, purged>>,
         bounced \subseteq bounced',
         \A p \in Rows : p \in bounced' => p[2] \in mailed[p[1]],
         r \in mailed[c] => <<c, r>> \in bounced'
  PROVE  Contiguous' /\ RecordsOK' /\ RowsOK(db)' /\ RowsOK(disk)' /\ RunOK'
<1>1. /\ db'.stored = db.stored /\ disk'.stored = disk.stored
      /\ db = disk => db' = disk'
      /\ \/ disk.status[<<c, r>>] # "NONE" /\ UNCHANGED tables
         \/ /\ disk.status[<<c, r>>] = "NONE"
            /\ \E s \in {"ENQUEUED", "WAITING"} : \A p \in Rows :
                  /\ db'.status[p] = IF p = <<c, r>> THEN s ELSE db.status[p]
                  /\ disk'.status[p] = IF p = <<c, r>> THEN s ELSE disk.status[p]
  BY EnqueueEffect
<1>2. Contiguous'
  BY DEF CopiesOK, Contiguous
<1>3. RecordsOK'
  BY <1>1 DEF CopiesOK, RecordsOK
<1>4. c \in db.stored
  BY DEF CopiesOK, RecordsOK
<1>5. CASE UNCHANGED tables
  <2>1. db' = db /\ disk' = disk
    BY <1>5 DEF tables
  <2>2. RowsOK(db)' /\ RowsOK(disk)'
    BY <2>1 DEF CopiesOK, RowsOK
  <2>3. RunOK'
    BY <2>1 DEF CopiesOK, RunOK
  <2> QED
    BY <1>2, <1>3, <2>2, <2>3
<1>6. ASSUME disk.status[<<c, r>>] = "NONE", NEW s \in {"ENQUEUED", "WAITING"},
             \A p \in Rows :
                  /\ db'.status[p] = IF p = <<c, r>> THEN s ELSE db.status[p]
                  /\ disk'.status[p] = IF p = <<c, r>> THEN s ELSE disk.status[p]
      PROVE RowsOK(db)' /\ RowsOK(disk)' /\ RunOK'
  <2>1. RowsOK(db)' /\ RowsOK(disk)'
    BY <1>1, <1>4, <1>6, RowParts DEF CopiesOK, RowsOK
  <2>2. <<c, r>> \notin batch
    BY <1>6 DEF CopiesOK, RunOK, Queued
  <2>3. RunOK'
    BY <1>1, <1>4, <1>6, <2>2, RowParts DEF CopiesOK, RunOK, TypeOK
  <2> QED
    BY <2>1, <2>3
<1> QED
  BY <1>1, <1>2, <1>3, <1>5, <1>6

\* Messages stay as they stand when only rows of other copies are made.
LEMMA SendersStay ==
  ASSUME TypeOK, OriginsOK, CopiesOK, UNCHANGED <<sender, origin, mailed>>,
         disk.stored \subseteq disk'.stored,
         \A m \in Messages : stand[m] \in InFlight => \A r \in open[m] \cup hold[m] :
            /\ db'.status[<<own[m], r>>] = db.status[<<own[m], r>>]
            /\ disk'.status[<<own[m], r>>] = disk.status[<<own[m], r>>]
  PROVE  SenderOK'
<1>1. UNCHANGED <<stand, open, hold, own>>
  BY DEF sender
<1> QED
  BY <1>1 DEF CopiesOK, SenderOK, SenderAt

LEMMA CopiesInsertRow ==
  ASSUME TypeOK, OriginsOK, WatchOK, CopiesOK, NEW m \in Messages, InsertRow(m)
  PROVE  CopiesOK'
<1> DEFINE c == own[m]
           r == date[m][1]
<1>1. /\ stand[m] = "insert" /\ Enqueue(c, r, date[m][2])
      /\ hold' = [hold EXCEPT ![m] =
                     IF disk.status[<<c, r>>] # "NONE" THEN {} ELSE hold[m] \ {r}]
      /\ stand' = [stand EXCEPT ![m] = "queue"]
      /\ UNCHANGED <<open, own, cron, batch, origin, mailed, bounced, purged>>
  BY DEF InsertRow, run, past
<1>2. c \in Copies /\ origin[c] = m /\ date[m] # NoDate
  BY <1>1 DEF OriginsOK, InFlight
<1>3. r \in Recipients /\ date[m][2] \in Nat /\ r \in hold[m]
  BY <1>1, <1>2 DEF TypeOK, WatchOK, DateOK
<1>4. c \in disk.stored /\ r \in To[origin[c]] /\ mailed[c] = {}
      /\ disk.status[<<c, r>>] = "NONE" /\ SenderAt(m)
  BY <1>1, <1>2, <1>3 DEF CopiesOK, SenderOK, SenderAt, InFlight
<1> HIDE DEF c, r
<1>5. Contiguous' /\ RecordsOK' /\ RowsOK(db)' /\ RowsOK(disk)' /\ RunOK'
  <2>1. bounced \subseteq bounced' /\ \A p \in Rows : p \in bounced' => p[2] \in mailed[p[1]]
    BY <1>1 DEF CopiesOK, RecordsOK
  <2> QED
    BY <1>1, <1>2, <1>3, <1>4, <2>1, CopiesEnqueue
<1>6. /\ db'.stored = db.stored /\ disk'.stored = disk.stored
      /\ \A p \in Rows : p # <<c, r>> =>
            db'.status[p] = db.status[p] /\ disk'.status[p] = disk.status[p]
  BY <1>1, <1>2, <1>3, EnqueueEffect DEF tables
<1>7. SenderAt(m)'
  <2>1. stand'[m] = "queue" /\ hold'[m] = hold[m] \ {r} /\ open'[m] = open[m] /\ own'[m] = c
    BY <1>1, <1>4 DEF TypeOK, c
  <2>2. open[m] \in SUBSET Recipients /\ hold[m] \in SUBSET Recipients
    BY DEF TypeOK
  <2>3. own[m] = c /\ stand[m] \in InFlight
    BY <1>1 DEF c, InFlight
  <2>4. ASSUME NEW q \in open[m] \cup (hold[m] \ {r})
        PROVE db'.status[<<c, q>>] = "NONE" /\ disk'.status[<<c, q>>] = "NONE"
    <3>1. q # r /\ <<c, q>> \in Rows
      BY <1>2, <1>3, <1>4, <2>2, <2>3, RowParts DEF SenderAt
    <3> QED
      BY <1>4, <1>6, <2>3, <3>1 DEF SenderAt
  <2> QED
    BY <1>1, <1>4, <1>6, <2>1, <2>3, <2>4 DEF SenderAt
<1>8. ASSUME NEW k \in Messages, k # m PROVE SenderAt(k)'
  <2>1. SendStep(m) /\ SenderAt(k)
    BY DEF SendStep, CopiesOK, SenderOK
  <2>2. stand[k] \in InFlight => own[k] \in Copies /\ own[k] # c /\ own[k] \in disk'.stored
    BY <1>2, <1>6, <1>8, <2>1 DEF OriginsOK, SenderAt
  <2> QED
    BY <1>1, <1>6, <1>8, <2>1, <2>2, OthersStand, SenderStays, RowParts
<1> QED
  BY <1>5, <1>7, <1>8 DEF CopiesOK, SenderOK

LEMMA CopiesBounce ==
  ASSUME TypeOK, OriginsOK, CopiesOK, NEW c \in Copies, NEW r \in Recipients, SoftBounce(c, r)
  PROVE  CopiesOK'
<1>1. /\ r \in mailed[c] /\ bounced' = bounced \cup {<<c, r>>}
      /\ UNCHANGED <<sender, cron, batch, origin, mailed, purged>>
  BY DEF SoftBounce, run
<1>2. r \in To[origin[c]]
  BY <1>1, RowParts DEF CopiesOK, RecordsOK
<1>3. \A p \in Rows : p \in bounced' => p[2] \in mailed[p[1]]
  BY <1>1 DEF CopiesOK, RecordsOK
<1>4. CASE UNCHANGED tables
  <2>1. db' = db /\ disk' = disk
    BY <1>4 DEF tables
  <2>2. Contiguous' /\ RecordsOK'
    BY <1>1, <1>3, <2>1 DEF CopiesOK, Contiguous, RecordsOK
  <2>3. RowsOK(db)' /\ RowsOK(disk)' /\ RunOK'
    BY <1>1, <2>1 DEF CopiesOK, RowsOK, RunOK
  <2>4. SenderOK'
    BY <1>1, <2>1, SendersStay
  <2> QED
    BY <2>2, <2>3, <2>4 DEF CopiesOK
<1>5. ASSUME c \in disk.stored, Enqueue(c, r, get_next_retry_date(r)') PROVE CopiesOK'
  <2>1. get_next_retry_date(r)' \in Nat
    BY TypeBounce, NextDateIsNat DEF TypeOK, FlagsTyped
  <2>2. Contiguous' /\ RecordsOK' /\ RowsOK(db)' /\ RowsOK(disk)' /\ RunOK'
    BY <1>1, <1>2, <1>3, <1>5, <2>1, CopiesEnqueue
  <2>3. disk'.stored = disk.stored /\ \A p \in Rows : p # <<c, r>> =>
            db'.status[p] = db.status[p] /\ disk'.status[p] = disk.status[p]
    BY <1>5, <2>1, EnqueueEffect DEF tables
  <2>4. ASSUME NEW m \in Messages, stand[m] \in InFlight, NEW q \in open[m] \cup hold[m]
        PROVE  /\ db'.status[<<own[m], q>>] = db.status[<<own[m], q>>]
               /\ disk'.status[<<own[m], q>>] = disk.status[<<own[m], q>>]
    <3>1. own[m] # c /\ own[m] \in Copies /\ q \in Recipients
      BY <1>1, <2>4 DEF CopiesOK, SenderOK, SenderAt, OriginsOK, TypeOK
    <3> QED
      BY <2>3, <3>1, RowParts
  <2>5. SenderOK'
    BY <1>1, <2>3, <2>4, SendersStay
  <2> QED
    BY <2>2, <2>5 DEF CopiesOK
<1> QED
  BY <1>4, <1>5 DEF SoftBounce

LEMMA CopiesCheck ==
  ASSUME TypeOK, OriginsOK, CopiesOK, CheckDeliverability
  PROVE  CopiesOK'
<1>1. PICK R \in SUBSET Recipients : disk' = Schedule(disk, R) /\ db' = Schedule(db, R)
  BY DEF CheckDeliverability
<1>2. cron = "idle" /\ cron' = "checked"
      /\ UNCHANGED <<sender, batch, origin, mailed, bounced, purged>>
  BY DEF CheckDeliverability, past
<1>3. \A p \in Rows : /\ db'.status[p] = "NONE" <=> db.status[p] = "NONE"
                      /\ disk'.status[p] = "NONE" <=> disk.status[p] = "NONE"
  BY <1>1, StatusOf DEF TypeOK
<1>4. db'.stored = db.stored /\ disk'.stored = disk.stored
  BY <1>1, StoredOf
<1>5. Contiguous' /\ RecordsOK' /\ RowsOK(db)' /\ RowsOK(disk)'
  BY <1>2, <1>3, <1>4, RecordsStay
<1>6. RunOK'
  BY <1>1, <1>2, <1>3, <1>4 DEF CopiesOK, RunOK
<1>7. SenderOK'
  <2>1. \A m \in Messages : open[m] \in SUBSET Recipients /\ hold[m] \in SUBSET Recipients
    BY DEF TypeOK
  <2> QED
    BY <1>2, <1>3, <1>4, <2>1, RowParts DEF CopiesOK, SenderOK, SenderAt, OriginsOK, sender
<1> QED
  BY <1>5, <1>6, <1>7 DEF CopiesOK

LEMMA CopiesRetry ==
  ASSUME TypeOK, OriginsOK, CopiesOK, NEW c \in Copies, NEW r \in Recipients, Retry(c, r)
  PROVE  CopiesOK'
<1>1. /\ cron = "sending" /\ <<c, r>> \in batch /\ <<c, r>> \in Rows
      /\ batch' = batch \ {<<c, r>>} /\ origin[c] \in Messages
      /\ UNCHANGED <<disk, sender, cron, bounced, purged>>
  BY RetryEffect
<1>2. disk.status[<<c, r>>] \in Queued /\ db.status[<<c, r>>] = disk.status[<<c, r>>]
      /\ db.status[<<c, r>>] # "NONE"
  BY <1>1 DEF CopiesOK, RunOK, Queued
<1>3. \A m \in Messages : stand[m] \in InFlight => \A q \in open[m] \cup hold[m] :
          /\ own[m] \in Copies /\ origin[own[m]] = m /\ <<own[m], q>> \in Rows
          /\ <<own[m], q>> # <<c, r>>
  <2>1. \A m \in Messages : open[m] \cup hold[m] \subseteq Recipients
    BY DEF TypeOK
  <2> QED
    BY <1>2, <2>1, RowParts DEF CopiesOK, SenderOK, SenderAt, OriginsOK
<1>4. CASE SendsNothing(c, r)
  <2>1. /\ UNCHANGED <<origin, mailed>> /\ db'.stored = db.stored
        /\ \A p \in Rows : db'.status[p] = IF p = <<c, r>> THEN "SUCCESSFUL" ELSE db.status[p]
    BY <1>4 DEF SendsNothing
  <2>2. Contiguous' /\ RecordsOK' /\ RowsOK(db)' /\ RowsOK(disk)'
    BY <1>1, <1>2, <2>1, RecordsStay
  <2>3. RunOK'
    <3>1. \A p \in batch' : disk.status[p] \in Queued /\ db'.status[p] = disk.status[p]
      BY <1>1, <2>1 DEF CopiesOK, RunOK, TypeOK
    <3>2. \A p \in Rows : p[1] \in disk.stored /\ disk.status[p] = "NONE" => db'.status[p] = "NONE"
      BY <1>2, <2>1 DEF CopiesOK, RunOK, Queued
    <3>3. ASSUME NEW p \in Rows, p[1] \in db'.stored \ disk.stored, p[2] \in mailed'[p[1]]
          PROVE db'.status[p] = "NONE"
      <4>1. c \in disk.stored
        BY <1>1, <1>2, RowParts DEF CopiesOK, RowsOK
      <4> QED
        BY <2>1, <3>3, <4>1 DEF CopiesOK, RunOK
    <3> QED
      BY <1>1, <3>1, <3>2, <3>3 DEF RunOK
  <2>4. SenderOK'
    BY <1>1, <1>3, <2>1, SendersStay
  <2> QED
    BY <2>2, <2>3, <2>4 DEF CopiesOK
<1>5. ASSUME NEW n \in Copies, NEW B \in SUBSET To[origin[c]], NEW H \in SUBSET To[origin[c]],
             SendsAgain(c, r, n, B, H)
      PROVE CopiesOK'
  <2>1. /\ B \cap H = {} /\ db'.stored = db.stored \cup {n}
        /\ \A p \in Rows :
              /\ p = <<c, r>> => db'.status[p] = "SUCCESSFUL"
              /\ p # <<c, r>> /\ p[1] = n /\ p[2] \in H => db'.status[p] \in {"ENQUEUED", "WAITING"}
              /\ p # <<c, r>> /\ ~(p[1] = n /\ p[2] \in H) => db'.status[p] = db.status[p]
    BY <1>5 DEF SendsAgain
  <2>2. origin[n] = NoMessage /\ (\A k \in Copies : k < n => origin[k] # NoMessage) /\ n # c
    BY <1>1, <1>5, MailAssumption DEF SendsAgain, IsFresh, Copies, MailAssumption
  <2>3. \A k \in Copies : /\ origin'[k] = IF k = n THEN origin[c] ELSE origin[k]
                          /\ mailed'[k] = IF k = n THEN B ELSE mailed[k]
    BY <1>5 DEF SendsAgain, TypeOK
  <2>4. \A p \in Rows : p[1] = n =>
            /\ db.status[p] = "NONE" /\ disk.status[p] = "NONE" /\ p[2] \notin mailed[p[1]]
            /\ p \notin batch
    BY <2>2, MailAssumption DEF OriginsOK, MailAssumption
  <2>5. n \notin db.stored /\ n \notin purged /\ n \notin disk.stored
    BY <2>2, MailAssumption DEF CopiesOK, RecordsOK, MailAssumption
  <2>6. c \in disk.stored
    BY <1>1, <1>2, RowParts DEF CopiesOK, RowsOK
  <2>7. Contiguous'
    BY <1>1, <2>2, <2>3, MailAssumption DEF CopiesOK, Contiguous, MailAssumption, Copies
  <2>8. RecordsOK'
    <3>1. \A p \in Rows : /\ p \in bounced' => p[2] \in mailed'[p[1]]
                          /\ p[2] \in mailed'[p[1]] => p[2] \in To[origin'[p[1]]]
      BY <1>1, <2>3, <2>4, RowParts DEF CopiesOK, RecordsOK
    <3>2. ASSUME NEW k \in db'.stored \cup purged' PROVE origin'[k] \in Messages
      <4>1. k \in Copies
        BY <1>1, <2>1 DEF TypeOK, TableOK
      <4>2. k = n \/ k \in db.stored \cup purged
        BY <1>1, <2>1
      <4> QED
        BY <1>1, <2>3, <4>1, <4>2 DEF CopiesOK, RecordsOK
    <3>3. disk'.stored \subseteq db'.stored /\ purged' \cap db'.stored = {}
      BY <1>1, <2>1, <2>5 DEF CopiesOK, RecordsOK
    <3> QED
      BY <3>1, <3>2, <3>3 DEF RecordsOK
  <2>9. RowsOK(db)'
    <3>1. ASSUME NEW p \in Rows, db'.status[p] # "NONE"
          PROVE  /\ p[1] \in db'.stored
                 /\ p[2] \in To[origin'[p[1]]]
                 /\ p[2] \in mailed'[p[1]] => p \in bounced'
      <4>1. CASE p[1] = n
        <5>1. p[2] \in H
          BY <2>1, <2>2, <2>4, <3>1, <4>1
        <5> QED
          BY <2>1, <2>3, <4>1, <5>1
      <4>2. CASE p[1] # n
        <5>1. db.status[p] # "NONE"
          BY <1>2, <2>1, <3>1, <4>2
        <5> QED
          BY <1>1, <2>1, <2>3, <4>2, <5>1, RowParts DEF CopiesOK, RowsOK
      <4> QED
        BY <4>1, <4>2
    <3> QED
      BY <3>1 DEF RowsOK
  <2>10. RowsOK(disk)'
    BY <1>1, <2>3, <2>4, RowParts DEF CopiesOK, RowsOK
  <2>11. RunOK'
    <3>1. \A p \in batch' : disk.status[p] \in Queued /\ db'.status[p] = disk.status[p]
      BY <1>1, <2>1, <2>4 DEF CopiesOK, RunOK, TypeOK
    <3>2. ASSUME NEW p \in Rows, p[1] \in disk.stored, disk.status[p] = "NONE"
          PROVE db'.status[p] = "NONE"
      BY <1>2, <2>1, <2>5, <3>2 DEF CopiesOK, RunOK, Queued
    <3>3. ASSUME NEW p \in Rows, p[1] \in db'.stored \ disk.stored, p[2] \in mailed'[p[1]]
          PROVE db'.status[p] = "NONE"
      <4>1. p # <<c, r>>
        BY <2>6, <3>3
      <4>2. CASE p[1] = n
        BY <2>1, <2>3, <2>4, <3>3, <4>1, <4>2
      <4>3. CASE p[1] # n
        BY <2>1, <2>3, <3>3, <4>1, <4>3, RowParts DEF CopiesOK, RunOK
      <4> QED
        BY <4>2, <4>3
    <3> QED
      BY <1>1, <3>1, <3>2, <3>3 DEF RunOK
  <2>12. SenderOK'
    <3>1. ASSUME NEW m \in Messages PROVE SenderAt(m)'
      <4>1. SenderAt(m)
        BY DEF CopiesOK, SenderOK
      <4>2. stand[m] \in {"new", "open"} => origin[c] # m
        BY <4>1 DEF SenderAt
      <4>3. stand[m] \in InFlight => own[m] # n /\ own[m] \in Copies
        BY <2>2, MailAssumption DEF OriginsOK, MailAssumption
      <4>4. UNCHANGED <<stand, open, hold, own>>
        BY <1>1 DEF sender
      <4>5. stand[m] \in {"new", "open"} => \A k \in Copies : origin'[k] # m
        BY <2>3, <4>1, <4>2 DEF SenderAt
      <4> QED
        BY <1>1, <1>3, <2>1, <2>3, <4>1, <4>3, <4>4, <4>5 DEF SenderAt
    <3> QED
      BY <3>1 DEF SenderOK
  <2> QED
    BY <2>7, <2>8, <2>9, <2>10, <2>11, <2>12 DEF CopiesOK
<1> QED
  BY <1>4, <1>5, RetryEffect

LEMMA CopiesEndRun ==
  ASSUME TypeOK, OriginsOK, CopiesOK, SelectBatch \/ CommitRun \/ RunRaises
  PROVE  CopiesOK'
<1>1. UNCHANGED <<sender, origin, mailed, bounced, purged>>
  BY DEF SelectBatch, CommitRun, RunRaises, past
<1>2. CASE SelectBatch
  <2>1. db = disk /\ UNCHANGED <<db, disk>> /\ batch' = Due(disk) /\ cron' = "sending"
    BY <1>2 DEF SelectBatch, CopiesOK, RunOK, tables
  <2>2. Contiguous' /\ RecordsOK' /\ RowsOK(db)' /\ RowsOK(disk)'
    BY <1>1, <2>1, RecordsStay
  <2>3. RunOK'
    BY <1>1, <2>1 DEF CopiesOK, RunOK, Due
  <2>4. SenderOK'
    BY <1>1, <2>1, SendersStay
  <2> QED
    BY <2>2, <2>3, <2>4 DEF CopiesOK
<1>3. CASE CommitRun
  <2>1. db' = db /\ disk' = db /\ batch' = {} /\ cron' = "idle"
    BY <1>3 DEF CommitRun
  <2>2. Contiguous' /\ RecordsOK' /\ RowsOK(db)' /\ RowsOK(disk)'
    BY <1>1, <2>1 DEF CopiesOK, Contiguous, RecordsOK, RowsOK
  <2>3. RunOK'
    BY <1>1, <2>1 DEF CopiesOK, RunOK
  <2>4. SenderOK'
    BY <1>1, <2>1 DEF CopiesOK, RecordsOK, SenderOK, SenderAt, sender
  <2> QED
    BY <2>2, <2>3, <2>4 DEF CopiesOK
<1>4. CASE RunRaises
  <2>1. db' = disk /\ disk' = disk /\ batch' = {} /\ cron' = "idle"
    BY <1>4 DEF RunRaises
  <2>2. Contiguous' /\ RecordsOK' /\ RowsOK(db)' /\ RowsOK(disk)'
    BY <1>1, <2>1 DEF CopiesOK, Contiguous, RecordsOK, RowsOK
  <2>3. RunOK'
    BY <1>1, <2>1 DEF CopiesOK, RunOK
  <2>4. SenderOK'
    BY <1>1, <2>1 DEF CopiesOK, SenderOK, SenderAt, sender
  <2> QED
    BY <2>2, <2>3, <2>4 DEF CopiesOK
<1> QED
  BY <1>2, <1>3, <1>4

LEMMA CopiesDelete ==
  ASSUME TypeOK, OriginsOK, CopiesOK, NEW c \in Copies, DeleteOld(c)
  PROVE  CopiesOK'
<1>1. /\ c \in disk.stored /\ purged' = purged \cup {c}
      /\ \A m \in Messages : own[m] = c => stand[m] \notin InFlight
      /\ \A r \in Recipients : <<c, r>> \notin batch /\ db.status[<<c, r>>] = disk.status[<<c, r>>]
      /\ UNCHANGED <<sender, cron, batch, origin, mailed, bounced>>
  BY DEF DeleteOld, Locked, run
<1>2. disk' = Without(disk, c) /\ db' = Without(db, c)
  BY DEF DeleteOld
<1>3. \A p \in Rows :
          /\ db'.status[p] = IF p[1] = c THEN "NONE" ELSE db.status[p]
          /\ disk'.status[p] = IF p[1] = c THEN "NONE" ELSE disk.status[p]
  BY <1>2, StatusOf DEF TypeOK
<1>4. db'.stored = db.stored \ {c} /\ disk'.stored = disk.stored \ {c}
  BY <1>2 DEF Without, Table
<1>5. c \in db.stored
  BY <1>1 DEF CopiesOK, RecordsOK
<1>6. Contiguous' /\ RecordsOK'
  BY <1>1, <1>4, <1>5 DEF CopiesOK, Contiguous, RecordsOK
<1>7. RowsOK(db)' /\ RowsOK(disk)'
  BY <1>1, <1>3, <1>4, RowParts DEF CopiesOK, RowsOK
<1>8. RunOK'
  <2>1. cron # "sending" => batch = {} /\ db' = disk'
    BY <1>2 DEF CopiesOK, RunOK
  <2>2. \A p \in batch : p \in Rows /\ p[1] # c
    BY <1>1, RowParts DEF TypeOK
  <2> QED
    BY <1>1, <1>3, <1>4, <2>1, <2>2, RowParts DEF CopiesOK, RunOK
<1>9. SenderOK'
  <2>1. ASSUME NEW m \in Messages PROVE SenderAt(m)'
    <3>1. SenderAt(m) /\ UNCHANGED <<stand, open, hold, own>>
      BY <1>1 DEF CopiesOK, SenderOK, sender
    <3>2. stand[m] \in InFlight => own[m] # c /\ own[m] \in Copies
      BY <1>1 DEF OriginsOK
    <3>3. open[m] \cup hold[m] \subseteq Recipients
      BY DEF TypeOK
    <3> QED
      BY <1>1, <1>3, <1>4, <3>1, <3>2, <3>3, RowParts DEF SenderAt
  <2> QED
    BY <2>1 DEF SenderOK
<1> QED
  BY <1>6, <1>7, <1>8, <1>9 DEF CopiesOK

LEMMA CopiesTick ==
  ASSUME TypeOK, OriginsOK, CopiesOK, Tick
  PROVE  CopiesOK'
<1>1. db' = Later(db) /\ disk' = Later(disk)
      /\ UNCHANGED <<stand, open, hold, own, cron, batch, origin, mailed, bounced, purged>>
  BY DEF Tick, run
<1>2. \A p \in Rows : db'.status[p] = db.status[p] /\ disk'.status[p] = disk.status[p]
  BY <1>1, StatusOf DEF TypeOK
<1>3. db'.stored = db.stored /\ disk'.stored = disk.stored
  BY <1>1, StoredOf
<1>4. Contiguous' /\ RecordsOK' /\ RowsOK(db)' /\ RowsOK(disk)'
  BY <1>1, <1>2, <1>3, RecordsStay
<1>5. RunOK'
  BY <1>1, <1>2, <1>3 DEF CopiesOK, RunOK, TypeOK
<1>6. SenderOK'
  <2>1. \A m \in Messages : open[m] \cup hold[m] \subseteq Recipients
    BY DEF TypeOK
  <2> QED
    BY <1>1, <1>2, <1>3, <2>1, RowParts DEF CopiesOK, SenderOK, SenderAt, OriginsOK
<1> QED
  BY <1>4, <1>5, <1>6 DEF CopiesOK

LEMMA CopiesStep ==
  ASSUME TypeOK, OriginsOK, WatchOK, CopiesOK, [Next]_vars
  PROVE  CopiesOK'
<1>1. ASSUME UNCHANGED <<tables, sender, run, origin, mailed, bounced, purged>>
      PROVE CopiesOK'
  <2>1. UNCHANGED <<db, disk, stand, open, hold, own, cron, batch, origin, mailed, bounced, purged>>
    BY <1>1 DEF tables, sender, run
  <2>2. Contiguous' /\ RecordsOK' /\ RowsOK(db)' /\ RowsOK(disk)'
    BY <2>1, RecordsStay
  <2>3. RunOK' /\ SenderOK'
    BY <2>1 DEF CopiesOK, RunOK, SenderOK, SenderAt
  <2> QED
    BY <2>2, <2>3 DEF CopiesOK
<1>2. ASSUME NEW m \in Messages, SendStep(m) PROVE CopiesOK'
  BY <1>2, CopiesCheckBackoff, CopiesQuietSend, CopiesInsertRow, CopiesDeliver DEF SendStep
<1>3. ASSUME NEW c \in Copies, NEW r \in Recipients, SoftBounce(c, r) PROVE CopiesOK'
  BY <1>3, CopiesBounce
<1>4. ASSUME NEW r \in Recipients, BanAddress(r) PROVE CopiesOK'
  BY <1>1, <1>4 DEF BanAddress, past
<1>5. CASE CronStep
  BY <1>5, CopiesCheck, CopiesRetry, CopiesEndRun, RowParts DEF CronStep
<1>6. ASSUME NEW c \in Copies, DeleteOld(c) PROVE CopiesOK'
  BY <1>6, CopiesDelete
<1>7. CASE Tick
  BY <1>7, CopiesTick
<1>8. CASE UNCHANGED vars
  BY <1>1, <1>8 DEF vars, past
<1> QED
  BY <1>2, <1>3, <1>4, <1>5, <1>6, <1>7, <1>8 DEF Next

LEMMA InitCopies == Init => CopiesOK
<1> SUFFICES ASSUME Init PROVE CopiesOK
  OBVIOUS
<1> USE DEF Init
<1>1. \A p \in Rows : /\ db.status[p] = "NONE" /\ disk.status[p] = "NONE"
                      /\ p \notin bounced /\ p[2] \notin mailed[p[1]]
  BY RowParts DEF Table
<1>2. db.stored = {} /\ disk.stored = {} /\ db = disk
  BY DEF Table
<1>3. Contiguous
  BY DEF Contiguous
<1>4. RecordsOK
  BY <1>1, <1>2 DEF RecordsOK
<1>5. RowsOK(db) /\ RowsOK(disk)
  BY <1>1 DEF RowsOK
<1>6. RunOK
  BY <1>1, <1>2 DEF RunOK
<1>7. SenderOK
  <2>1. \A m \in Messages : stand[m] = "new" /\ open[m] = {} /\ hold[m] = {}
    OBVIOUS
  <2>2. \A c \in Copies, m \in Messages : origin[c] # m
    BY MailAssumption DEF MailAssumption
  <2> QED
    BY <2>1, <2>2 DEF SenderOK, SenderAt, InFlight
<1> QED
  BY <1>3, <1>4, <1>5, <1>6, <1>7 DEF CopiesOK

----------------------------------------------------------------------------
(* No message is lost.                                                     *)

\* The reasons for which an address may go without a message.
Exempt(m, r) ==
    \/ banned[r] # "no"
    \/ \E c \in purged : origin[c] = m
    \/ \E c \in Copies : origin[c] = m /\ <<c, r>> \in early

QueuedIn(t, m, r) == \E c \in Copies : origin[c] = m /\ t.status[<<c, r>>] \in Unsent

\* A row of m is in the queue for r when its last mail to r bounced and when r
\* has only been held back; it is for anybody when the table does not know of
\* the last mail.
Served(t, m, r) ==
    \/ Exempt(m, r)
    \/ /\ \A c \in Copies :
             IsLast(c, m, r) /\ c \notin t.stored => \E q \in Recipients : QueuedIn(t, m, q)
       /\ \A c \in Copies :
             IsLast(c, m, r) /\ c \in t.stored /\ <<c, r>> \in bounced => QueuedIn(t, m, r)
       /\ CopiesFor(m, r) = {}
             /\ (\E c \in Copies : origin[c] = m /\ t.status[<<c, r>>] # "NONE")
          => QueuedIn(t, m, r)

ServedOK == \A m \in Messages, r \in Recipients : Served(db, m, r) /\ Served(disk, m, r)

LEMMA ServedIsEnough == ASSUME TypeOK, ServedOK PROVE NothingElseIsLost
<1> SUFFICES ASSUME NEW m \in Messages, NEW r \in Recipients, Owed(m, r), ~Exempt(m, r),
                    ~IsQueued(m, r)
             PROVE SentWithOthers(m, r)
  BY DEF NothingElseIsLost, Exempt
<1>1. ~QueuedIn(disk, m, r)
  BY DEF QueuedIn, IsQueued
<1>2. Served(disk, m, r)
  BY DEF ServedOK
<1>3. ~(CopiesFor(m, r) = {} /\ \E c \in Copies : origin[c] = m /\ disk.status[<<c, r>>] # "NONE")
  BY <1>1, <1>2 DEF Served
<1>4. PICK c \in Copies : IsLast(c, m, r) /\ <<c, r>> \in bounced
  BY <1>3 DEF Owed
<1>5. c \notin disk.stored
  BY <1>1, <1>2, <1>4 DEF Served
<1>6. \E q \in Recipients : QueuedIn(disk, m, q)
  BY <1>2, <1>4, <1>5 DEF Served
<1> QED
  BY <1>4, <1>5, <1>6 DEF SentWithOthers, QueuedIn, IsQueued

\* An address is served as before by a step that takes no row of its message
\* from the queue and sends nothing to it that is not stored.
LEMMA ServedFrame ==
  ASSUME NEW m \in Messages, NEW r \in Recipients, Served(db, m, r), Served(disk, m, r),
         purged \subseteq Copies,
         banned[r] # "no" => banned'[r] # "no",
         purged \subseteq purged' /\ early \subseteq early',
         \A c \in Copies : origin[c] = m => origin'[c] = m,
         CopiesFor(m, r)' = {} => CopiesFor(m, r) = {},
         \A c \in Copies : IsLast(c, m, r)' =>
            \/ c \in db'.stored /\ c \in disk'.stored /\ <<c, r>> \notin bounced'
            \/ /\ IsLast(c, m, r)
               /\ c \in db'.stored <=> c \in db.stored
               /\ c \in disk'.stored <=> c \in disk.stored
               /\ <<c, r>> \in bounced' => <<c, r>> \in bounced,
         \A c \in Copies, q \in Recipients : origin[c] = m =>
            /\ db.status[<<c, q>>] \in Unsent => db'.status[<<c, q>>] \in Unsent
            /\ disk.status[<<c, q>>] \in Unsent => disk'.status[<<c, q>>] \in Unsent,
         \A c \in Copies : origin'[c] = m =>
            /\ db'.status[<<c, r>>] # "NONE" =>
                  db'.status[<<c, r>>] \in Unsent \/ (origin[c] = m /\ db.status[<<c, r>>] # "NONE")
            /\ disk'.status[<<c, r>>] # "NONE" =>
                  disk'.status[<<c, r>>] \in Unsent \/ (origin[c] = m /\ disk.status[<<c, r>>] # "NONE")
  PROVE  Served(db, m, r)' /\ Served(disk, m, r)'
<1>1. Exempt(m, r) => Exempt(m, r)'
  BY DEF Exempt
<1>2. \A q \in Recipients : /\ QueuedIn(db, m, q) => QueuedIn(db, m, q)'
                            /\ QueuedIn(disk, m, q) => QueuedIn(disk, m, q)'
  BY DEF QueuedIn
<1>3. ASSUME NEW c \in Copies, origin'[c] = m, db'.status[<<c, r>>] # "NONE", CopiesFor(m, r)' = {},
             ~Exempt(m, r)
      PROVE QueuedIn(db, m, r)'
  BY <1>2, <1>3 DEF QueuedIn, Served
<1>4. ASSUME NEW c \in Copies, origin'[c] = m, disk'.status[<<c, r>>] # "NONE", CopiesFor(m, r)' = {},
             ~Exempt(m, r)
      PROVE QueuedIn(disk, m, r)'
  BY <1>2, <1>4 DEF QueuedIn, Served
<1>5. ASSUME NEW c \in Copies, IsLast(c, m, r)', ~Exempt(m, r)
      PROVE  /\ c \notin db'.stored => \E q \in Recipients : QueuedIn(db, m, q)'
             /\ c \notin disk'.stored => \E q \in Recipients : QueuedIn(disk, m, q)'
             /\ c \in db'.stored /\ <<c, r>> \in bounced' => QueuedIn(db, m, r)'
             /\ c \in disk'.stored /\ <<c, r>> \in bounced' => QueuedIn(disk, m, r)'
  BY <1>2, <1>5 DEF Served
<1>6. CASE Exempt(m, r)
  BY <1>1, <1>6 DEF Served
<1>7. CASE ~Exempt(m, r)
  <2>1. Served(db, m, r)'
    BY <1>3, <1>5, <1>7 DEF Served
  <2>2. Served(disk, m, r)'
    BY <1>4, <1>5, <1>7 DEF Served
  <2> QED
    BY <2>1, <2>2
<1> QED
  BY <1>6, <1>7

\* Whoever is no address of a message is owed nothing of it.
LEMMA ServedStranger ==
  ASSUME CopiesOK', NEW m \in Messages, NEW r \in Recipients, r \notin To[m]
  PROVE  Served(db, m, r)' /\ Served(disk, m, r)'
<1>1. CopiesFor(m, r)' = {}
  BY RowParts DEF CopiesFor, CopiesOK, RecordsOK
<1>2. \A c \in Copies : origin'[c] = m =>
          db'.status[<<c, r>>] = "NONE" /\ disk'.status[<<c, r>>] = "NONE"
  BY RowParts DEF CopiesOK, RowsOK
<1> QED
  BY <1>1, <1>2 DEF Served, IsLast

\* The steps that send nothing, hear of nothing and take nothing from the queue.
LEMMA ServedQuiet ==
  ASSUME TypeOK, ServedOK, UNCHANGED <<origin, mailed, bounced, purged, early>>,
         \A r \in Recipients : banned[r] # "no" => banned'[r] # "no",
         db'.stored = db.stored /\ disk'.stored = disk.stored,
         \A p \in Rows :
            /\ db.status[p] \in Unsent => db'.status[p] \in Unsent
            /\ disk.status[p] \in Unsent => disk'.status[p] \in Unsent
            /\ db.status[p] = "NONE" => db'.status[p] \in Unsent \cup {"NONE"}
            /\ disk.status[p] = "NONE" => disk'.status[p] \in Unsent \cup {"NONE"}
  PROVE  ServedOK'
<1>1. ASSUME NEW m \in Messages, NEW r \in Recipients
      PROVE Served(db, m, r)' /\ Served(disk, m, r)'
  <2>1. CopiesFor(m, r)' = CopiesFor(m, r) /\ \A c : IsLast(c, m, r)' <=> IsLast(c, m, r)
    BY DEF CopiesFor, IsLast
  <2>2. Served(db, m, r) /\ Served(disk, m, r) /\ purged \subseteq Copies
    BY DEF ServedOK, TypeOK
  <2> QED
    BY <2>1, <2>2, RowParts, ServedFrame
<1> QED
  BY <1>1 DEF ServedOK

LEMMA ServedCheckBackoff ==
  ASSUME TypeOK, OriginsOK, CopiesOK, ServedOK, NEW k \in Messages, CheckBackoff(k)
  PROVE  ServedOK'
<1>1. PICK n \in Copies : /\ IsFresh(n)
                          /\ origin' = [origin EXCEPT ![n] = k]
                          /\ disk' = WithCopy(disk, n)
                          /\ db' = WithCopy(db, n)
  BY DEF CheckBackoff
<1>2. UNCHANGED <<banned, mailed, bounced, early, purged>>
  BY DEF CheckBackoff, flags
<1>3. origin[n] = NoMessage /\ NoMessage \notin Messages
  BY <1>1, MailAssumption DEF IsFresh, MailAssumption
<1>4. \A c \in Copies : origin'[c] = IF c = n THEN k ELSE origin[c]
  BY <1>1 DEF TypeOK
<1>5. \A q \in Recipients : /\ db.status[<<n, q>>] = "NONE" /\ disk.status[<<n, q>>] = "NONE"
                            /\ q \notin mailed[n]
  BY <1>3, RowParts DEF OriginsOK
<1>6. /\ db'.stored = db.stored \cup {n} /\ disk'.stored = disk.stored \cup {n}
      /\ db'.status = db.status /\ disk'.status = disk.status
  BY <1>1 DEF WithCopy, Table
<1>7. ASSUME NEW m \in Messages, NEW r \in Recipients
      PROVE Served(db, m, r)' /\ Served(disk, m, r)'
  <2>1. CopiesFor(m, r)' = CopiesFor(m, r) /\ n \notin CopiesFor(m, r)
    BY <1>2, <1>3, <1>4, <1>5 DEF CopiesFor
  <2>2. \A c : IsLast(c, m, r)' <=> IsLast(c, m, r)
    BY <2>1 DEF IsLast
  <2>3. \A c \in Copies : IsLast(c, m, r) => c # n
    BY <2>1 DEF IsLast
  <2>4. Served(db, m, r) /\ Served(disk, m, r) /\ purged \subseteq Copies
    BY DEF ServedOK, TypeOK
  <2>5. \A c \in Copies : origin[c] = m => origin'[c] = m
    BY <1>3, <1>4
  <2>6. \A c \in Copies : origin'[c] = m =>
            \/ c = n /\ db'.status[<<c, r>>] = "NONE" /\ disk'.status[<<c, r>>] = "NONE"
            \/ origin[c] = m
    BY <1>4, <1>5, <1>6
  <2> QED
    BY <1>2, <1>6, <2>1, <2>2, <2>3, <2>4, <2>5, <2>6, ServedFrame
<1> QED
  BY <1>7 DEF ServedOK

LEMMA ServedDeliver ==
  ASSUME TypeOK, OriginsOK, CopiesOK, ServedOK, NEW k \in Messages, Deliver(k)
  PROVE  ServedOK'
<1>1. /\ stand[k] = "queue"
      /\ mailed' = [mailed EXCEPT ![own[k]] = open[k]]
      /\ UNCHANGED <<db, disk, banned, origin, bounced, early, purged>>
  BY DEF Deliver, tables, flags
<1>2. own[k] \in Copies /\ origin[own[k]] = k
  BY <1>1 DEF OriginsOK, InFlight
<1>3. own[k] \in disk.stored /\ own[k] \in db.stored /\ mailed[own[k]] = {}
  BY <1>1 DEF CopiesOK, SenderOK, SenderAt, RecordsOK, InFlight
<1>4. \A c \in Copies : mailed'[c] = IF c = own[k] THEN open[k] ELSE mailed[c]
  BY <1>1 DEF TypeOK
<1>5. \A r \in Recipients : <<own[k], r>> \notin bounced
  BY <1>2, <1>3, RowParts DEF CopiesOK, RecordsOK
<1>6. ASSUME NEW m \in Messages, NEW r \in Recipients
      PROVE Served(db, m, r)' /\ Served(disk, m, r)'
  <2>1. /\ CopiesFor(m, r) \subseteq CopiesFor(m, r)'
        /\ CopiesFor(m, r)' \subseteq CopiesFor(m, r) \cup {own[k]}
    BY <1>1, <1>3, <1>4 DEF CopiesFor
  <2>2. \A c \in Copies : IsLast(c, m, r)' => c = own[k] \/ IsLast(c, m, r)
    BY <2>1 DEF IsLast
  <2>3. Served(db, m, r) /\ Served(disk, m, r) /\ purged \subseteq Copies
    BY DEF ServedOK, TypeOK
  <2> QED
    BY <1>1, <1>3, <1>5, <2>1, <2>2, <2>3, ServedFrame
<1> QED
  BY <1>6 DEF ServedOK

LEMMA ServedSend ==
  ASSUME TypeOK, OriginsOK, WatchOK, CopiesOK, ServedOK, NEW m \in Messages, SendStep(m)
  PROVE  ServedOK'
<1>1. ASSUME CheckBans(m) \/ (\E r \in Recipients : ReadDate(m, r)) \/ SendRaises(m)
      PROVE ServedOK'
  <2>1. UNCHANGED <<db, disk, banned, origin, mailed, bounced, early, purged>>
    BY <1>1 DEF CheckBans, ReadDate, SendRaises, tables, flags, past
  <2> QED
    BY <2>1, ServedQuiet
<1>2. CASE InsertRow(m)
  <2> DEFINE c == own[m]
             r == date[m][1]
  <2>1. /\ stand[m] = "insert" /\ Enqueue(c, r, date[m][2])
        /\ UNCHANGED <<banned, origin, mailed, bounced, early, purged>>
    BY <1>2 DEF InsertRow, flags, past
  <2>2. c \in Copies /\ r \in Recipients /\ date[m][2] \in Nat
    BY <2>1 DEF OriginsOK, TypeOK, InFlight
  <2> HIDE DEF c, r
  <2>3. /\ db'.stored = db.stored /\ disk'.stored = disk.stored
        /\ \A p \in Rows :
              /\ db'.status[p] = db.status[p] \/ db'.status[p] \in Unsent
              /\ disk'.status[p] = disk.status[p] \/ disk'.status[p] \in Unsent
    BY <2>1, <2>2, EnqueueEffect, Statuses DEF tables
  <2> QED
    BY <2>1, <2>3, ServedQuiet
<1> QED
  BY <1>1, <1>2, ServedCheckBackoff, ServedDeliver DEF SendStep

LEMMA ServedBounce ==
  ASSUME TypeOK, OriginsOK, CopiesOK, ServedOK, NEW c \in Copies, NEW r \in Recipients,
         SoftBounce(c, r)
  PROVE  ServedOK'
<1>1. /\ r \in mailed[c] /\ bounced' = bounced \cup {<<c, r>>} /\ early \subseteq early'
      /\ c \in db.stored \ disk.stored => <<c, r>> \in early'
      /\ UNCHANGED <<origin, mailed, purged>>
  BY DEF SoftBounce
<1>2. origin[c] \in Messages
  BY <1>1, RowParts DEF OriginsOK
<1>3. \A q \in Recipients : banned[q] # "no" => banned'[q] # "no"
  BY DEF SoftBounce, StartBackoff, RestartBackoff, IgnoreBounce, ExtendBackoff,
         BanAfterRetries, flags, TypeOK
<1>4. \/ banned'[r] # "no" /\ UNCHANGED tables
      \/ c \notin disk.stored /\ UNCHANGED tables
      \/ c \in disk.stored /\ Enqueue(c, r, get_next_retry_date(r)')
  BY DEF SoftBounce, BanAfterRetries, TypeOK
<1>5. get_next_retry_date(r)' \in Nat
  BY TypeBounce, NextDateIsNat DEF TypeOK, FlagsTyped
<1>6. /\ db'.stored = db.stored /\ disk'.stored = disk.stored
      /\ \A p \in Rows :
            /\ db'.status[p] = db.status[p] \/ db'.status[p] \in Unsent
            /\ disk'.status[p] = disk.status[p] \/ disk'.status[p] \in Unsent
  <2>1. CASE UNCHANGED tables
    BY <2>1 DEF tables
  <2>2. CASE Enqueue(c, r, get_next_retry_date(r)')
    BY <1>5, <2>2, EnqueueEffect, Statuses DEF tables
  <2> QED
    BY <1>4, <2>1, <2>2
<1>7. \A m, q : CopiesFor(m, q)' = CopiesFor(m, q)
  BY <1>1 DEF CopiesFor
<1>8. \A k, m, q : IsLast(k, m, q)' <=> IsLast(k, m, q)
  BY <1>7 DEF IsLast
<1>9. ASSUME NEW m \in Messages, NEW q \in Recipients,
             \A k \in Copies : IsLast(k, m, q) /\ <<k, q>> \in bounced' => <<k, q>> \in bounced
      PROVE Served(db, m, q)' /\ Served(disk, m, q)'
  <2>1. Served(db, m, q) /\ Served(disk, m, q) /\ purged \subseteq Copies
    BY DEF ServedOK, TypeOK
  <2> QED
    BY <1>1, <1>3, <1>6, <1>7, <1>8, <1>9, <2>1, RowParts, ServedFrame
<1>10. ASSUME NEW m \in Messages, NEW q \in Recipients
       PROVE Served(db, m, q)' /\ Served(disk, m, q)'
  <2>1. CASE ~IsLast(c, m, q) \/ q # r \/ <<c, r>> \in bounced
    BY <1>1, <1>9, <2>1
  <2>2. CASE IsLast(c, m, q) /\ q = r /\ <<c, r>> \notin bounced
    <3>1. origin[c] = m
      BY <2>2 DEF IsLast, CopiesFor
    <3>2. CASE banned'[r] # "no"
      BY <2>2, <3>2 DEF Served, Exempt
    <3>3. CASE c \in db.stored \ disk.stored
      BY <1>1, <2>2, <3>1, <3>3 DEF Served, Exempt
    <3>4. CASE c \notin db.stored /\ c \notin disk.stored /\ UNCHANGED tables
      <4>1. \A k \in Copies : IsLast(k, m, q) => k = c
        BY <2>2 DEF IsLast, Copies, CopiesFor
      <4>2. CopiesFor(m, q) # {}
        BY <2>2 DEF IsLast
      <4>3. Served(db, m, q) /\ Served(disk, m, q) /\ db' = db /\ disk' = disk
        BY <3>4 DEF ServedOK, tables
      <4>4. Exempt(m, q) => Exempt(m, q)'
        BY <1>1, <1>3 DEF Exempt
      <4>5. \A k : /\ QueuedIn(db, m, k)' <=> QueuedIn(db, m, k)
                   /\ QueuedIn(disk, m, k)' <=> QueuedIn(disk, m, k)
        BY <1>1, <4>3 DEF QueuedIn
      <4> QED
        BY <1>7, <1>8, <2>2, <3>4, <4>1, <4>2, <4>3, <4>4, <4>5 DEF Served
    <3>5. CASE c \in disk.stored /\ Enqueue(c, r, get_next_retry_date(r)')
      <4>1. disk.status[<<c, r>>] = "NONE"
        BY <1>1, <2>2, RowParts DEF CopiesOK, RowsOK
      <4>2. db'.status[<<c, r>>] \in Unsent /\ disk'.status[<<c, r>>] \in Unsent
        BY <1>5, <3>5, <4>1, EnqueueEffect, Statuses, RowParts
      <4>3. QueuedIn(db, m, r)' /\ QueuedIn(disk, m, r)'
        BY <1>1, <3>1, <4>2 DEF QueuedIn
      <4> QED
        BY <2>2, <4>3 DEF Served
    <3> QED
      BY <1>4, <3>2, <3>3, <3>4, <3>5 DEF CopiesOK, RecordsOK
  <2> QED
    BY <2>1, <2>2
<1> QED
  BY <1>10 DEF ServedOK

LEMMA ServedRetry ==
  ASSUME TypeOK, OriginsOK, CopiesOK, CopiesOK', ServedOK,
         NEW c \in Copies, NEW r \in Recipients, Retry(c, r)
  PROVE  ServedOK'
<1>1. /\ cron = "sending" /\ <<c, r>> \in batch /\ <<c, r>> \in Rows
      /\ origin[c] \in Messages
      /\ UNCHANGED <<disk, banned, bounced, early, purged>>
  BY RetryEffect
<1>2. disk.status[<<c, r>>] \in Unsent
  BY <1>1 DEF CopiesOK, RunOK, Unsent
<1>3. CASE SendsNothing(c, r)
  <2>1. /\ \A q \in To[origin[c]] : banned[q] # "no"
        /\ UNCHANGED <<origin, mailed>> /\ db'.stored = db.stored
        /\ \A p \in Rows : db'.status[p] = IF p = <<c, r>> THEN "SUCCESSFUL" ELSE db.status[p]
    BY <1>3 DEF SendsNothing
  <2>2. ASSUME NEW m \in Messages, NEW q \in Recipients
        PROVE Served(db, m, q)' /\ Served(disk, m, q)'
    <3>1. CASE q \notin To[m]
      BY <3>1, ServedStranger
    <3>2. CASE q \in To[m] /\ m = origin[c]
      BY <1>1, <2>1, <3>2 DEF Served, Exempt
    <3>3. CASE m # origin[c]
      <4>1. CopiesFor(m, q)' = CopiesFor(m, q) /\ \A k : IsLast(k, m, q)' <=> IsLast(k, m, q)
        BY <2>1 DEF CopiesFor, IsLast
      <4>2. Served(db, m, q) /\ Served(disk, m, q) /\ purged \subseteq Copies
        BY DEF ServedOK, TypeOK
      <4>3. \A k \in Copies, z \in Recipients : origin[k] = m =>
                db'.status[<<k, z>>] = db.status[<<k, z>>]
        BY <2>1, <3>3, RowParts
      <4> QED
        BY <1>1, <2>1, <4>1, <4>2, <4>3, ServedFrame
    <3> QED
      BY <3>1, <3>2, <3>3
  <2> QED
    BY <2>2 DEF ServedOK
<1>4. ASSUME NEW n \in Copies, NEW B \in SUBSET To[origin[c]], NEW H \in SUBSET To[origin[c]],
             SendsAgain(c, r, n, B, H)
      PROVE ServedOK'
  <2>1. /\ \A q \in To[origin[c]] : banned[q] # "no" \/ q \in B \/ q \in H
        /\ B \cap H = {} /\ db'.stored = db.stored \cup {n}
        /\ \A p \in Rows :
              /\ p # <<c, r>> /\ p[1] = n /\ p[2] \in H => db'.status[p] \in {"ENQUEUED", "WAITING"}
              /\ p # <<c, r>> /\ ~(p[1] = n /\ p[2] \in H) => db'.status[p] = db.status[p]
    BY <1>4 DEF SendsAgain
  <2>2. origin[n] = NoMessage /\ NoMessage \notin Messages /\ n # c
    BY <1>1, <1>4, MailAssumption DEF SendsAgain, IsFresh, MailAssumption
  <2>3. \A k \in Copies : /\ origin'[k] = IF k = n THEN origin[c] ELSE origin[k]
                          /\ mailed'[k] = IF k = n THEN B ELSE mailed[k]
    BY <1>4 DEF SendsAgain, TypeOK
  <2>4. \A q \in Recipients : db.status[<<n, q>>] = "NONE" /\ disk.status[<<n, q>>] = "NONE"
                              /\ q \notin mailed[n] /\ <<n, q>> \notin bounced
    BY <2>2, RowParts DEF OriginsOK, CopiesOK, RecordsOK
  <2>5. n \notin disk.stored
    BY <2>2, MailAssumption DEF CopiesOK, RecordsOK
  <2>6. \A k \in Copies : origin[k] # NoMessage => k < n
    BY <2>2 DEF CopiesOK, Contiguous, Copies
  <2>7. \A k \in Copies, z \in Recipients : k # c /\ k # n => db'.status[<<k, z>>] = db.status[<<k, z>>]
    BY <2>1, RowParts
  <2>8. ASSUME NEW m \in Messages, NEW q \in Recipients
        PROVE Served(db, m, q)' /\ Served(disk, m, q)'
    <3>1. CASE q \notin To[m]
      BY <3>1, ServedStranger
    <3>2. CASE m # origin[c]
      <4>1. CopiesFor(m, q)' = CopiesFor(m, q) /\ \A k : IsLast(k, m, q)' <=> IsLast(k, m, q)
        BY <2>2, <2>3, <3>2 DEF CopiesFor, IsLast
      <4>2. Served(db, m, q) /\ Served(disk, m, q) /\ purged \subseteq Copies
        BY DEF ServedOK, TypeOK
      <4>3. \A k \in Copies : origin[k] = m => k # c /\ k # n
        BY <2>2, <3>2
      <4>4. \A k \in Copies : IsLast(k, m, q) => k # n
        BY <4>3 DEF IsLast, CopiesFor
      <4>5. \A k \in Copies : origin'[k] = m <=> origin[k] = m
        BY <2>2, <2>3, <3>2
      <4> QED
        BY <1>1, <2>1, <2>7, <4>1, <4>2, <4>3, <4>4, <4>5, ServedFrame
    <3>3. CASE m = origin[c] /\ banned[q] # "no"
      BY <1>1, <3>3 DEF Served, Exempt
    <3>4. CASE m = origin[c] /\ q \in B
      <4>1. n \in CopiesFor(m, q)'
        BY <2>3, <3>4 DEF CopiesFor
      <4>2. \A k \in Copies : k \in CopiesFor(m, q)' => k = n \/ k < n
        BY <2>2, <2>3, <2>6, <3>4 DEF CopiesFor
      <4>3. \A k \in Copies : IsLast(k, m, q)' => k = n
        BY <4>1, <4>2 DEF IsLast, Copies
      <4>4. QueuedIn(disk, m, r)'
        BY <1>1, <1>2, <2>2, <2>3, <3>4 DEF QueuedIn
      <4>5. Served(db, m, q)'
        BY <1>1, <2>1, <2>4, <4>1, <4>3 DEF Served
      <4>6. Served(disk, m, q)'
        BY <1>1, <2>5, <4>1, <4>3, <4>4 DEF Served
      <4> QED
        BY <4>5, <4>6
    <3>5. CASE m = origin[c] /\ q \in H /\ q \notin B
      <4>1. CopiesFor(m, q)' = CopiesFor(m, q)
        BY <2>2, <2>3, <2>4, <3>5 DEF CopiesFor
      <4>2. \A k : IsLast(k, m, q)' <=> IsLast(k, m, q)
        BY <4>1 DEF IsLast
      <4>3. db'.status[<<n, q>>] \in Unsent
        BY <2>1, <2>2, <3>5, RowParts, Statuses
      <4>4. Served(db, m, q)'
        BY <2>3, <3>5, <4>3 DEF Served, QueuedIn
      <4>5. Served(disk, m, q)'
        <5>1. Served(disk, m, q)
          BY DEF ServedOK
        <5>2. Exempt(m, q) => Exempt(m, q)'
          BY <1>1, <2>2, <2>3 DEF Exempt, TypeOK
        <5>3. \A k \in Recipients : QueuedIn(disk, m, k) => QueuedIn(disk, m, k)'
          BY <1>1, <2>2, <2>3 DEF QueuedIn
        <5>4. \A k \in Copies : origin'[k] = m /\ disk.status[<<k, q>>] # "NONE" => origin[k] = m
          BY <2>3, <2>4
        <5> QED
          BY <1>1, <4>1, <4>2, <5>1, <5>2, <5>3, <5>4 DEF Served
      <4> QED
        BY <4>4, <4>5
    <3> QED
      BY <2>1, <3>1, <3>2, <3>3, <3>4, <3>5
  <2> QED
    BY <2>8 DEF ServedOK
<1> QED
  BY <1>3, <1>4, RetryEffect

LEMMA ServedCron ==
  ASSUME TypeOK, OriginsOK, CopiesOK, CopiesOK', ServedOK, CronStep
  PROVE  ServedOK'
<1>1. CASE CheckDeliverability
  <2>1. PICK R \in SUBSET Recipients : disk' = Schedule(disk, R) /\ db' = Schedule(db, R)
    BY <1>1 DEF CheckDeliverability
  <2>2. UNCHANGED <<banned, origin, mailed, bounced, early, purged>>
    BY <1>1 DEF CheckDeliverability, past
  <2>3. db'.stored = db.stored /\ disk'.stored = disk.stored
    BY <2>1, StoredOf
  <2>4. \A p \in Rows :
            /\ db'.status[p] = db.status[p] \/ (db.status[p] # "NONE" /\ db'.status[p] \in Unsent)
            /\ disk'.status[p] = disk.status[p] \/ (disk.status[p] # "NONE" /\ disk'.status[p] \in Unsent)
    BY <2>1, StatusOf, Statuses DEF TypeOK
  <2> QED
    BY <2>2, <2>3, <2>4, ServedQuiet
<1>2. CASE SelectBatch
  <2>1. UNCHANGED <<db, disk, banned, origin, mailed, bounced, early, purged>>
    BY <1>2 DEF SelectBatch, tables, flags, past
  <2> QED
    BY <2>1, ServedQuiet
<1>3. ASSUME NEW c \in Copies, NEW r \in Recipients, Retry(c, r) PROVE ServedOK'
  BY <1>3, ServedRetry
<1>4. CASE CommitRun \/ RunRaises
  <2>1. /\ (db' = db /\ disk' = db) \/ (db' = disk /\ disk' = disk)
        /\ UNCHANGED <<banned, origin, mailed, bounced, early, purged>>
    BY <1>4 DEF CommitRun, RunRaises, flags, past
  <2>2. \A m, r : /\ CopiesFor(m, r)' = CopiesFor(m, r) /\ (Exempt(m, r)' <=> Exempt(m, r))
                  /\ \A k : IsLast(k, m, r)' <=> IsLast(k, m, r)
    BY <2>1 DEF CopiesFor, Exempt, IsLast
  <2>3. CASE db' = db /\ disk' = db
    <3>1. \A m, r : /\ QueuedIn(db, m, r)' <=> QueuedIn(db, m, r)
                    /\ QueuedIn(disk, m, r)' <=> QueuedIn(db, m, r)
      BY <2>1, <2>3 DEF QueuedIn
    <3> QED
      BY <2>1, <2>2, <2>3, <3>1 DEF ServedOK, Served
  <2>4. CASE db' = disk /\ disk' = disk
    <3>1. \A m, r : /\ QueuedIn(db, m, r)' <=> QueuedIn(disk, m, r)
                    /\ QueuedIn(disk, m, r)' <=> QueuedIn(disk, m, r)
      BY <2>1, <2>4 DEF QueuedIn
    <3> QED
      BY <2>1, <2>2, <2>4, <3>1 DEF ServedOK, Served
  <2> QED
    BY <2>1, <2>3, <2>4
<1> QED
  BY <1>1, <1>2, <1>3, <1>4, RowParts DEF CronStep

LEMMA ServedDelete ==
  ASSUME TypeOK, OriginsOK, CopiesOK, ServedOK, NEW c \in Copies, DeleteOld(c)
  PROVE  ServedOK'
<1>1. /\ purged' = purged \cup {c} /\ disk' = Without(disk, c) /\ db' = Without(db, c)
      /\ UNCHANGED <<banned, origin, mailed, bounced, early>>
  BY DEF DeleteOld, flags
<1>2. \A k \in Copies, q \in Recipients : k # c =>
          db'.status[<<k, q>>] = db.status[<<k, q>>] /\ disk'.status[<<k, q>>] = disk.status[<<k, q>>]
  BY <1>1, StatusOf, RowParts DEF TypeOK
<1>3. db'.stored = db.stored \ {c} /\ disk'.stored = disk.stored \ {c}
  BY <1>1 DEF Without, Table
<1>4. ASSUME NEW m \in Messages, NEW r \in Recipients
      PROVE Served(db, m, r)' /\ Served(disk, m, r)'
  <2>1. CASE origin[c] = m
    BY <1>1, <2>1 DEF Served, Exempt
  <2>2. CASE origin[c] # m
    <3>1. CopiesFor(m, r)' = CopiesFor(m, r) /\ \A k : IsLast(k, m, r)' <=> IsLast(k, m, r)
      BY <1>1 DEF CopiesFor, IsLast
    <3>2. \A k \in Copies : IsLast(k, m, r) => k # c
      BY <2>2 DEF IsLast, CopiesFor
    <3>3. Served(db, m, r) /\ Served(disk, m, r) /\ purged \subseteq Copies
      BY DEF ServedOK, TypeOK
    <3>4. \A k \in Copies : origin[k] = m => k # c
      BY <2>2
    <3> QED
      BY <1>1, <1>2, <1>3, <3>1, <3>2, <3>3, <3>4, ServedFrame
  <2> QED
    BY <2>1, <2>2
<1> QED
  BY <1>4 DEF ServedOK

LEMMA ServedStep ==
  ASSUME TypeOK, OriginsOK, WatchOK, CopiesOK, CopiesOK', ServedOK, [Next]_vars
  PROVE  ServedOK'
<1>1. ASSUME NEW m \in Messages, SendStep(m) PROVE ServedOK'
  BY <1>1, ServedSend
<1>2. ASSUME NEW c \in Copies, NEW r \in Recipients, SoftBounce(c, r) PROVE ServedOK'
  BY <1>2, ServedBounce
<1>3. ASSUME NEW r \in Recipients, BanAddress(r) PROVE ServedOK'
  <2>1. /\ banned' = [banned EXCEPT ![r] = "hard"]
        /\ UNCHANGED <<db, disk, origin, mailed, bounced, early, purged>>
    BY <1>3 DEF BanAddress, tables, past
  <2>2. \A q \in Recipients : banned[q] # "no" => banned'[q] # "no"
    BY <2>1 DEF TypeOK
  <2> QED
    BY <2>1, <2>2, ServedQuiet
<1>4. CASE CronStep
  BY <1>4, ServedCron
<1>5. ASSUME NEW c \in Copies, DeleteOld(c) PROVE ServedOK'
  BY <1>5, ServedDelete
<1>6. CASE Tick
  <2>1. /\ db' = Later(db) /\ disk' = Later(disk)
        /\ UNCHANGED <<banned, origin, mailed, bounced, early, purged>>
    BY <1>6 DEF Tick
  <2>2. /\ \A p \in Rows : db'.status[p] = db.status[p] /\ disk'.status[p] = disk.status[p]
        /\ db'.stored = db.stored /\ disk'.stored = disk.stored
    BY <2>1, StatusOf, StoredOf DEF TypeOK
  <2> QED
    BY <2>1, <2>2, ServedQuiet
<1>7. CASE UNCHANGED vars
  <2>1. UNCHANGED <<db, disk, banned, origin, mailed, bounced, early, purged>>
    BY <1>7 DEF vars, tables, flags, past
  <2> QED
    BY <2>1, ServedQuiet
<1> QED
  BY <1>1, <1>2, <1>3, <1>4, <1>5, <1>6, <1>7 DEF Next

LEMMA InitServed == Init => ServedOK
<1> SUFFICES ASSUME Init, NEW m \in Messages, NEW r \in Recipients
             PROVE Served(db, m, r) /\ Served(disk, m, r)
  BY DEF ServedOK
<1>1. CopiesFor(m, r) = {}
  BY DEF Init, CopiesFor
<1>2. \A c \in Copies : origin[c] # m
  BY MailAssumption DEF Init, MailAssumption
<1> QED
  BY <1>1, <1>2 DEF Served, IsLast

----------------------------------------------------------------------------
(* No message is repeated without a reason.                                *)

\* A copy of which more mail to r may still come, or whose mail to r arrived
\* as far as the table knows.
Live(t, c, r) ==
    \/ t.status[<<c, r>>] \in Unsent
    \/ r \in mailed[c] /\ c \in t.stored /\ t.status[<<c, r>>] = "NONE"
    \/ r \in mailed[c] /\ c \in purged /\ <<c, r>> \notin bounced

\* The first copy of m has not come to all its addresses.
Sending(m) ==
    \/ stand[m] \in {"new", "open"}
    \/ stand[m] \in InFlight /\ open[m] \cup hold[m] # {}

\* At any time one copy of m is alive, and none before the first one is out.
OneThread(t, m, r) ==
    /\ \A c, d \in Copies :
          origin[c] = m /\ origin[d] = m /\ Live(t, c, r) /\ Live(t, d, r) => c = d
    /\ Sending(m) => \A c \in Copies : origin[c] = m => ~Live(t, c, r)

\* The copies that were mailed to r by runs that were rolled back.
RolledBack(m, r) == {c \in CopiesFor(m, r) : c \notin db.stored \cup purged}

Thread(m, r) ==
    /\ OneThread(db, m, r) /\ OneThread(disk, m, r)
    /\ Cardinality(RolledBack(m, r)) <= rollbacks

ThreadOK == \A m \in Messages, r \in Recipients : To[m] = {r} => Thread(m, r)

LEMMA CopiesFinite ==
  /\ IsFiniteSet(Copies)
  /\ \A S \in SUBSET Copies : IsFiniteSet(S) /\ Cardinality(S) \in Nat
<1>1. IsFiniteSet(Copies)
  BY FS_Interval, MailAssumption DEF Copies, MailAssumption
<1>2. \A S \in SUBSET Copies : IsFiniteSet(S)
  BY <1>1, FS_Subset
<1> QED
  BY <1>1, <1>2, FS_CardinalityType

LEMMA ThreadFrame ==
  ASSUME TypeOK, NEW m \in Messages, NEW r \in Recipients, Thread(m, r),
         \A c \in Copies : origin'[c] = m =>
            /\ Live(db, c, r)' => origin[c] = m /\ Live(db, c, r)
            /\ Live(disk, c, r)' => origin[c] = m /\ Live(disk, c, r),
         Sending(m)' => Sending(m),
         RolledBack(m, r)' \subseteq RolledBack(m, r), rollbacks' = rollbacks
  PROVE  Thread(m, r)'
<1>1. OneThread(db, m, r)' /\ OneThread(disk, m, r)'
  BY DEF Thread, OneThread
<1>2. RolledBack(m, r) \in SUBSET Copies /\ RolledBack(m, r)' \in SUBSET Copies
  BY DEF RolledBack, CopiesFor
<1>3. Cardinality(RolledBack(m, r)') <= Cardinality(RolledBack(m, r))
  BY <1>2, CopiesFinite, FS_Subset
<1>4. Cardinality(RolledBack(m, r)') \in Nat /\ Cardinality(RolledBack(m, r)) \in Nat
  BY <1>2, CopiesFinite
<1>5. Cardinality(RolledBack(m, r)') <= rollbacks'
  BY <1>3, <1>4 DEF Thread, TypeOK
<1> QED
  BY <1>1, <1>5 DEF Thread

\* The steps that store, send, queue and hear of nothing.
LEMMA ThreadQuiet ==
  ASSUME TypeOK, ThreadOK, UNCHANGED <<origin, mailed, bounced, purged, rollbacks>>,
         db'.stored = db.stored /\ disk'.stored = disk.stored,
         \A p \in Rows :
            /\ db'.status[p] \in Unsent => db.status[p] \in Unsent
            /\ disk'.status[p] \in Unsent => disk.status[p] \in Unsent
            /\ db'.status[p] = "NONE" => db.status[p] = "NONE"
            /\ disk'.status[p] = "NONE" => disk.status[p] = "NONE",
         \A m \in Messages : Sending(m)' => Sending(m)
  PROVE  ThreadOK'
<1>1. ASSUME NEW m \in Messages, NEW r \in Recipients, To[m] = {r}
      PROVE Thread(m, r)'
  <2>1. \A c \in Copies : /\ Live(db, c, r)' => Live(db, c, r)
                          /\ Live(disk, c, r)' => Live(disk, c, r)
    BY RowParts DEF Live
  <2>2. RolledBack(m, r)' = RolledBack(m, r)
    BY DEF RolledBack, CopiesFor
  <2>3. Thread(m, r)
    BY <1>1 DEF ThreadOK
  <2> QED
    BY <2>1, <2>2, <2>3, ThreadFrame
<1> QED
  BY <1>1 DEF ThreadOK

\* Of a message to a single address only the copies that bounced, the ones of
\* runs that were rolled back, and one more are out.
LEMMA ThreadIsEnough == ASSUME TypeOK, CopiesOK, ThreadOK PROVE OnlyFailuresRepeat
<1> SUFFICES ASSUME NEW m \in Messages, NEW r \in Recipients, To[m] = {r}
             PROVE Cardinality(CopiesFor(m, r)) <=
                     1 + Cardinality({c \in CopiesFor(m, r) : <<c, r>> \in bounced}) + rollbacks
  BY DEF OnlyFailuresRepeat
<1> DEFINE A == CopiesFor(m, r)
           B == {c \in A : <<c, r>> \in bounced}
           R == RolledBack(m, r)
           X == A \ (B \cup R)
<1>1. Thread(m, r)
  BY DEF ThreadOK
<1>2. \A c \in X : c \in Copies /\ origin[c] = m /\ Live(db, c, r)
  <2>1. ASSUME NEW c \in X PROVE c \in Copies /\ origin[c] = m /\ Live(db, c, r)
    <3>1. c \in Copies /\ origin[c] = m /\ r \in mailed[c] /\ <<c, r>> \notin bounced
      BY DEF CopiesFor
    <3>2. c \in db.stored \/ c \in purged
      BY DEF RolledBack
    <3>3. c \in db.stored => db.status[<<c, r>>] = "NONE"
      BY <3>1, RowParts DEF CopiesOK, RowsOK
    <3> QED
      BY <3>1, <3>2, <3>3 DEF Live
  <2> QED
    BY <2>1
<1>3. \A c, d \in X : c = d
  BY <1>1, <1>2 DEF Thread, OneThread
<1>4. A \in SUBSET Copies /\ B \in SUBSET Copies /\ R \in SUBSET Copies /\ X \in SUBSET Copies
  BY DEF CopiesFor, RolledBack
<1> HIDE DEF X
<1>5. Cardinality(X) <= 1
  <2>1. CASE X = {}
    <3>1. Cardinality(X) = 0
      BY <2>1, FS_EmptySet
    <3> QED
      BY <3>1
  <2>2. ASSUME NEW x \in X PROVE Cardinality(X) <= 1
    <3>1. X = {x}
      BY <1>3, <2>2
    <3>2. Cardinality(X) = 1
      BY <3>1, FS_Singleton
    <3> QED
      BY <3>2
  <2> QED
    BY <2>1, <2>2
<1>6. Cardinality(R) <= rollbacks
  BY <1>1 DEF Thread
<1>7. A \subseteq B \cup R \cup X
  BY DEF X
<1>8. ASSUME NEW S \in SUBSET Copies, NEW T \in SUBSET Copies
      PROVE Cardinality(S \cup T) <= Cardinality(S) + Cardinality(T)
  <2>1. IsFiniteSet(S) /\ IsFiniteSet(T) /\ IsFiniteSet(S \cap T)
    BY CopiesFinite
  <2>2. Cardinality(S \cup T) = Cardinality(S) + Cardinality(T) - Cardinality(S \cap T)
    BY <2>1, FS_Union
  <2>3. Cardinality(S) \in Nat /\ Cardinality(T) \in Nat /\ Cardinality(S \cap T) \in Nat
    BY <2>1, FS_CardinalityType
  <2> QED
    BY <2>2, <2>3
<1> HIDE DEF A, B, R
<1>9. Cardinality(A) <= Cardinality(B \cup R \cup X)
  BY <1>4, <1>7, CopiesFinite, FS_Subset
<1>10. /\ Cardinality(B \cup R \cup X) <= Cardinality(B \cup R) + Cardinality(X)
       /\ Cardinality(B \cup R) <= Cardinality(B) + Cardinality(R)
  BY <1>4, <1>8
<1>11. /\ Cardinality(A) \in Nat /\ Cardinality(B) \in Nat /\ Cardinality(R) \in Nat
       /\ Cardinality(X) \in Nat /\ Cardinality(B \cup R) \in Nat
       /\ Cardinality(B \cup R \cup X) \in Nat /\ rollbacks \in Nat
  BY <1>4, CopiesFinite DEF TypeOK
<1>12. Cardinality(A) <= 1 + Cardinality(B) + rollbacks
  BY <1>5, <1>6, <1>9, <1>10, <1>11
<1> QED
  BY <1>12 DEF A, B

LEMMA ThreadCheckBackoff ==
  ASSUME TypeOK, OriginsOK, CopiesOK, ThreadOK, NEW k \in Messages, CheckBackoff(k)
  PROVE  ThreadOK'
<1>1. PICK n \in Copies : /\ IsFresh(n)
                          /\ origin' = [origin EXCEPT ![n] = k]
                          /\ disk' = WithCopy(disk, n)
                          /\ db' = WithCopy(db, n)
  BY DEF CheckBackoff
<1>2. stand[k] = "open" /\ UNCHANGED <<mailed, bounced, purged, rollbacks>>
  BY DEF CheckBackoff, bounds
<1>3. origin[n] = NoMessage /\ NoMessage \notin Messages
  BY <1>1, MailAssumption DEF IsFresh, MailAssumption
<1>4. \A c \in Copies : origin'[c] = IF c = n THEN k ELSE origin[c]
  BY <1>1 DEF TypeOK
<1>5. \A q \in Recipients : /\ db.status[<<n, q>>] = "NONE" /\ disk.status[<<n, q>>] = "NONE"
                            /\ q \notin mailed[n]
  BY <1>3, RowParts DEF OriginsOK
<1>6. /\ db'.stored = db.stored \cup {n} /\ disk'.stored = disk.stored \cup {n}
      /\ db'.status = db.status /\ disk'.status = disk.status
  BY <1>1 DEF WithCopy, Table
<1>7. \A m \in Messages : Sending(m)' => Sending(m)
  <2>1. SendStep(k)
    BY DEF SendStep
  <2> QED
    BY <1>2, <2>1, OthersStand DEF Sending
<1>8. ASSUME NEW m \in Messages, NEW r \in Recipients, To[m] = {r}
      PROVE Thread(m, r)'
  <2>1. ASSUME NEW c \in Copies, origin'[c] = m
        PROVE  /\ Live(db, c, r)' => origin[c] = m /\ Live(db, c, r)
               /\ Live(disk, c, r)' => origin[c] = m /\ Live(disk, c, r)
    <3>1. CASE c = n
      BY <1>2, <1>5, <1>6, <3>1, Statuses DEF Live
    <3>2. CASE c # n
      BY <1>2, <1>4, <1>6, <2>1, <3>2 DEF Live
    <3> QED
      BY <3>1, <3>2
  <2>2. RolledBack(m, r)' \subseteq RolledBack(m, r)
    BY <1>2, <1>3, <1>4, <1>5, <1>6 DEF RolledBack, CopiesFor
  <2>3. Thread(m, r)
    BY <1>8 DEF ThreadOK
  <2> QED
    BY <1>2, <1>7, <2>1, <2>2, <2>3, ThreadFrame
<1> QED
  BY <1>8 DEF ThreadOK

LEMMA ThreadDeliver ==
  ASSUME TypeOK, OriginsOK, CopiesOK, ThreadOK, NEW k \in Messages, Deliver(k)
  PROVE  ThreadOK'
<1>1. /\ stand[k] = "queue" /\ stand' = [stand EXCEPT ![k] = "done"]
      /\ mailed' = [mailed EXCEPT ![own[k]] = open[k]]
      /\ UNCHANGED <<db, disk, open, hold, origin, bounced, purged, rollbacks>>
  BY DEF Deliver, tables, bounds
<1>2. own[k] \in Copies /\ origin[own[k]] = k
  BY <1>1 DEF OriginsOK, InFlight
<1>3. own[k] \in db.stored /\ mailed[own[k]] = {}
  BY <1>1 DEF CopiesOK, SenderOK, SenderAt, RecordsOK, InFlight
<1>4. \A c \in Copies : mailed'[c] = IF c = own[k] THEN open[k] ELSE mailed[c]
  BY <1>1 DEF TypeOK
<1>5. \A m \in Messages : stand'[m] = IF m = k THEN "done" ELSE stand[m]
  BY <1>1 DEF TypeOK
<1>6. \A m \in Messages : Sending(m)' => Sending(m) /\ m # k
  BY <1>1, <1>5 DEF Sending, InFlight
<1>7. ASSUME NEW m \in Messages, NEW r \in Recipients, To[m] = {r}
      PROVE Thread(m, r)'
  <2>1. \A c \in Copies : c # own[k] => /\ Live(db, c, r)' <=> Live(db, c, r)
                                        /\ Live(disk, c, r)' <=> Live(disk, c, r)
    BY <1>1, <1>4 DEF Live
  <2>2. RolledBack(m, r)' \subseteq RolledBack(m, r)
    BY <1>1, <1>2, <1>3, <1>4 DEF RolledBack, CopiesFor
  <2>3. Thread(m, r)
    BY <1>7 DEF ThreadOK
  <2>4. CASE m # k \/ r \notin open[k]
    <3>1. ASSUME NEW c \in Copies, origin'[c] = m
          PROVE  /\ Live(db, c, r)' => Live(db, c, r)
                 /\ Live(disk, c, r)' => Live(disk, c, r)
      <4>1. r \in mailed'[c] => r \in mailed[c]
        BY <1>1, <1>2, <1>4, <2>4, <3>1
      <4> QED
        BY <1>1, <4>1 DEF Live
    <3> QED
      BY <1>1, <1>6, <2>2, <2>3, <3>1, ThreadFrame
  <2>5. CASE m = k /\ r \in open[k]
    <3>1. Sending(m)
      BY <1>1, <2>5 DEF Sending, InFlight
    <3>2. \A c \in Copies : origin[c] = m => ~Live(db, c, r) /\ ~Live(disk, c, r)
      BY <2>3, <3>1 DEF Thread, OneThread
    <3>3. \A c \in Copies : origin'[c] = m /\ (Live(db, c, r)' \/ Live(disk, c, r)') => c = own[k]
      BY <1>1, <2>1, <3>2
    <3>4. ~Sending(m)'
      BY <1>6, <2>5
    <3>5. OneThread(db, m, r)' /\ OneThread(disk, m, r)'
      BY <3>3, <3>4 DEF OneThread
    <3>6. RolledBack(m, r)' = RolledBack(m, r)
      BY <1>1, <1>2, <1>3, <1>4 DEF RolledBack, CopiesFor
    <3> QED
      BY <1>1, <2>3, <3>5, <3>6 DEF Thread
  <2> QED
    BY <2>4, <2>5
<1> QED
  BY <1>7 DEF ThreadOK

LEMMA ThreadInsertRow ==
  ASSUME TypeOK, OriginsOK, WatchOK, CopiesOK, ThreadOK, NEW k \in Messages, InsertRow(k)
  PROVE  ThreadOK'
<1> DEFINE c == own[k]
           q == date[k][1]
<1>1. /\ stand[k] = "insert" /\ Enqueue(c, q, date[k][2])
      /\ hold' = [hold EXCEPT ![k] =
                     IF disk.status[<<c, q>>] # "NONE" THEN {} ELSE hold[k] \ {q}]
      /\ stand' = [stand EXCEPT ![k] = "queue"]
      /\ UNCHANGED <<open, origin, mailed, bounced, purged, rollbacks>>
  BY DEF InsertRow, past, bounds
<1>2. c \in Copies /\ origin[c] = k /\ date[k] # NoDate
  BY <1>1 DEF OriginsOK, InFlight
<1>3. q \in Recipients /\ date[k][2] \in Nat /\ q \in hold[k]
  BY <1>1, <1>2 DEF TypeOK, WatchOK, DateOK
<1>4. open[k] \cup hold[k] \subseteq To[k] /\ open[k] \cap hold[k] = {} /\ hold'[k] \subseteq hold[k] \ {q}
  BY <1>1 DEF CopiesOK, SenderOK, SenderAt, InFlight, TypeOK
<1> HIDE DEF c, q
<1>5. /\ db'.stored = db.stored /\ disk'.stored = disk.stored
      /\ \A p \in Rows : p # <<c, q>> =>
            db'.status[p] = db.status[p] /\ disk'.status[p] = disk.status[p]
  BY <1>1, <1>2, <1>3, EnqueueEffect DEF tables
<1>6. \A m \in Messages : m # k => (Sending(m)' => Sending(m))
  <2>1. SendStep(k)
    BY DEF SendStep
  <2> QED
    BY <2>1, OthersStand DEF Sending
<1>7. ASSUME NEW m \in Messages, NEW r \in Recipients, To[m] = {r}
      PROVE Thread(m, r)'
  <2>1. ASSUME NEW d \in Copies, d # c
        PROVE  /\ Live(db, d, r)' <=> Live(db, d, r)
               /\ Live(disk, d, r)' <=> Live(disk, d, r)
    <3>1. <<d, r>> \in Rows /\ <<d, r>> # <<c, q>>
      BY <2>1, RowParts
    <3> QED
      BY <1>1, <1>5, <3>1 DEF Live
  <2>2. RolledBack(m, r)' = RolledBack(m, r)
    BY <1>1, <1>5 DEF RolledBack, CopiesFor
  <2>3. Thread(m, r)
    BY <1>7 DEF ThreadOK
  <2>4. CASE m # k
    BY <1>1, <1>2, <1>6, <2>1, <2>2, <2>3, <2>4, ThreadFrame
  <2>5. CASE m = k
    <3>1. Sending(m)
      BY <1>1, <1>3, <2>5 DEF Sending, InFlight
    <3>2. \A d \in Copies : origin[d] = m => ~Live(db, d, r) /\ ~Live(disk, d, r)
      BY <2>3, <3>1 DEF Thread, OneThread
    <3>3. \A d \in Copies : origin'[d] = m /\ (Live(db, d, r)' \/ Live(disk, d, r)') => d = c
      BY <1>1, <2>1, <3>2
    <3>4. stand'[m] = "queue" /\ open[m] \cup hold'[m] = {}
      BY <1>1, <1>3, <1>4, <1>7, <2>5 DEF TypeOK
    <3>5. ~Sending(m)'
      BY <1>1, <3>4 DEF Sending
    <3>6. OneThread(db, m, r)' /\ OneThread(disk, m, r)'
      BY <3>3, <3>5 DEF OneThread
    <3> QED
      BY <1>1, <2>2, <2>3, <3>6 DEF Thread
  <2> QED
    BY <2>4, <2>5
<1> QED
  BY <1>7 DEF ThreadOK

LEMMA ThreadSend ==
  ASSUME TypeOK, OriginsOK, WatchOK, CopiesOK, ThreadOK, NEW m \in Messages, SendStep(m)
  PROVE  ThreadOK'
<1>1. ASSUME CheckBans(m) \/ (\E r \in Recipients : ReadDate(m, r)) \/ SendRaises(m)
      PROVE ThreadOK'
  <2>1. UNCHANGED <<db, disk, origin, mailed, bounced, purged, rollbacks>>
    BY <1>1 DEF CheckBans, ReadDate, SendRaises, tables, past, bounds
  <2>2. Sending(m)' => Sending(m)
    BY <1>1 DEF CheckBans, ReadDate, SendRaises, Sending, InFlight, TypeOK
  <2>3. \A k \in Messages : Sending(k)' => Sending(k)
    BY <2>2, OthersStand DEF Sending
  <2> QED
    BY <2>1, <2>3, ThreadQuiet
<1> QED
  BY <1>1, ThreadCheckBackoff, ThreadDeliver, ThreadInsertRow DEF SendStep

LEMMA ThreadBounce ==
  ASSUME TypeOK, OriginsOK, CopiesOK, ThreadOK, NEW c \in Copies, NEW r \in Recipients,
         SoftBounce(c, r)
  PROVE  ThreadOK'
<1>1. /\ r \in mailed[c] /\ bounced' = bounced \cup {<<c, r>>}
      /\ UNCHANGED <<stand, open, hold, origin, mailed, purged, rollbacks>>
  BY DEF SoftBounce, sender
<1>2. get_next_retry_date(r)' \in Nat
  BY TypeBounce, NextDateIsNat DEF TypeOK, FlagsTyped
<1>3. \/ UNCHANGED tables
      \/ c \in disk.stored /\ Enqueue(c, r, get_next_retry_date(r)')
  BY DEF SoftBounce
<1>4. /\ db'.stored = db.stored /\ disk'.stored = disk.stored
      /\ \A p \in Rows : p # <<c, r>> =>
            db'.status[p] = db.status[p] /\ disk'.status[p] = disk.status[p]
  BY <1>2, <1>3, EnqueueEffect DEF tables
\* The row that the bounce makes carries on what its copy began.
<1>5. /\ Live(db, c, r)' => Live(db, c, r)
      /\ Live(disk, c, r)' => Live(disk, c, r)
  <2>1. CASE UNCHANGED tables
    BY <1>1, <2>1 DEF Live, tables
  <2>2. ASSUME c \in disk.stored, disk.status[<<c, r>>] = "NONE"
        PROVE Live(db, c, r) /\ Live(disk, c, r)
    <3>1. c \in db.stored /\ db.status[<<c, r>>] = "NONE"
      BY <2>2, RowParts DEF CopiesOK, RecordsOK, RunOK
    <3> QED
      BY <1>1, <2>2, <3>1 DEF Live
  <2> QED
    BY <1>2, <1>3, <2>1, <2>2, EnqueueEffect
<1>6. ASSUME NEW m \in Messages, NEW q \in Recipients, To[m] = {q}
      PROVE Thread(m, q)'
  <2>1. ASSUME NEW d \in Copies, <<d, q>> # <<c, r>>
        PROVE  /\ Live(db, d, q)' => Live(db, d, q)
               /\ Live(disk, d, q)' => Live(disk, d, q)
    BY <1>1, <1>4, <2>1, RowParts DEF Live
  <2>2. RolledBack(m, q)' = RolledBack(m, q) /\ (Sending(m)' => Sending(m))
    BY <1>1, <1>4 DEF RolledBack, CopiesFor, Sending
  <2>3. Thread(m, q)
    BY <1>6 DEF ThreadOK
  <2> QED
    BY <1>1, <1>5, <2>1, <2>2, <2>3, ThreadFrame
<1> QED
  BY <1>6 DEF ThreadOK

LEMMA ThreadRetry ==
  ASSUME TypeOK, OriginsOK, CopiesOK, ThreadOK, NEW c \in Copies, NEW r \in Recipients,
         Retry(c, r)
  PROVE  ThreadOK'
<1>1. /\ cron = "sending" /\ <<c, r>> \in batch /\ <<c, r>> \in Rows
      /\ origin[c] \in Messages
      /\ UNCHANGED <<disk, stand, open, hold, bounced, purged, rollbacks>>
  BY RetryEffect DEF sender
<1>2. /\ db.status[<<c, r>>] \in Unsent /\ c \in db.stored /\ c \notin purged
      /\ r \in To[origin[c]]
  <2>1. db.status[<<c, r>>] \in Unsent /\ db.status[<<c, r>>] # "NONE"
    BY <1>1 DEF CopiesOK, RunOK, Unsent, Queued
  <2> QED
    BY <1>1, <2>1, RowParts DEF CopiesOK, RowsOK, RecordsOK
<1>3. \A m \in Messages : Sending(m)' <=> Sending(m)
  BY <1>1 DEF Sending
\* The copy that is sent again is alive, so it is the only one.
<1>4. \A m \in Messages, q \in Recipients : To[m] = {q} /\ origin[c] = m =>
          /\ Thread(m, q) /\ q = r /\ ~Sending(m)
          /\ \A d \in Copies : origin[d] = m /\ Live(db, d, q) => d = c
  BY <1>2 DEF ThreadOK, Thread, OneThread, Live
<1>5. CASE SendsNothing(c, r)
  <2>1. /\ UNCHANGED <<origin, mailed>> /\ db'.stored = db.stored
        /\ \A p \in Rows : db'.status[p] = IF p = <<c, r>> THEN "SUCCESSFUL" ELSE db.status[p]
    BY <1>5 DEF SendsNothing
  <2> QED
    BY <1>1, <1>3, <2>1, ThreadQuiet, Statuses
<1>6. ASSUME NEW n \in Copies, NEW B \in SUBSET To[origin[c]], NEW H \in SUBSET To[origin[c]],
             SendsAgain(c, r, n, B, H)
      PROVE ThreadOK'
  <2>1. /\ db'.stored = db.stored \cup {n}
        /\ \A p \in Rows :
              /\ p = <<c, r>> => db'.status[p] = "SUCCESSFUL"
              /\ p # <<c, r>> /\ ~(p[1] = n /\ p[2] \in H) => db'.status[p] = db.status[p]
    BY <1>6 DEF SendsAgain
  <2>2. origin[n] = NoMessage /\ NoMessage \notin Messages /\ n # c
    BY <1>1, <1>6, MailAssumption DEF SendsAgain, IsFresh, MailAssumption
  <2>3. \A k \in Copies : /\ origin'[k] = IF k = n THEN origin[c] ELSE origin[k]
                          /\ mailed'[k] = IF k = n THEN B ELSE mailed[k]
    BY <1>6 DEF SendsAgain, TypeOK
  <2>4. \A q \in Recipients : disk.status[<<n, q>>] = "NONE" /\ q \notin mailed[n]
    BY <2>2, RowParts DEF OriginsOK
  <2>5. n \notin disk.stored /\ n \notin purged
    BY <2>2 DEF CopiesOK, RecordsOK
  <2>6. ASSUME NEW m \in Messages, NEW q \in Recipients, To[m] = {q}
        PROVE Thread(m, q)'
    <3>1. Thread(m, q)
      BY <2>6 DEF ThreadOK
    <3>2. \A d \in Copies : origin'[d] = m => (d = n /\ origin[c] = m) \/ (d # n /\ origin[d] = m)
      BY <2>3
    <3>3. \A d \in Copies : Live(disk, d, q)' => d # n /\ Live(disk, d, q)
      <4>1. ASSUME NEW d \in Copies, Live(disk, d, q)' PROVE d # n /\ Live(disk, d, q)
        <5>1. d # n
          BY <1>1, <2>4, <2>5, <4>1, Statuses DEF Live
        <5> QED
          BY <1>1, <2>3, <4>1, <5>1 DEF Live
      <4> QED
        BY <4>1
    <3>4. ASSUME NEW d \in Copies, d # n, <<d, q>> # <<c, r>>, Live(db, d, q)'
          PROVE Live(db, d, q)
      <4>1. db'.status[<<d, q>>] = db.status[<<d, q>>] /\ mailed'[d] = mailed[d]
            /\ (d \in db'.stored <=> d \in db.stored)
        BY <2>1, <2>3, <3>4, RowParts
      <4> QED
        BY <1>1, <3>4, <4>1 DEF Live
    <3>5. RolledBack(m, q)' \subseteq RolledBack(m, q)
      BY <1>1, <2>1, <2>3 DEF RolledBack, CopiesFor
    <3>6. CASE m # origin[c]
      BY <1>1, <1>3, <3>1, <3>2, <3>3, <3>4, <3>5, <3>6, ThreadFrame
    <3>7. CASE m = origin[c]
      <4>1. q = r /\ ~Sending(m)' /\ \A d \in Copies : origin[d] = m /\ Live(db, d, q) => d = c
        BY <1>3, <1>4, <2>6, <3>7
      <4>2. ~Live(db, c, q)'
        BY <1>1, <1>2, <2>1, <4>1, Statuses DEF Live
      <4>3. \A d \in Copies : origin'[d] = m /\ Live(db, d, q)' => d = n
        BY <3>2, <3>4, <4>1, <4>2
      <4>4. OneThread(db, m, q)'
        BY <4>1, <4>3 DEF OneThread
      <4>5. OneThread(disk, m, q)'
        BY <3>1, <3>2, <3>3, <4>1 DEF Thread, OneThread
      <4>6. RolledBack(m, q) \in SUBSET Copies /\ RolledBack(m, q)' \in SUBSET Copies
        BY DEF RolledBack, CopiesFor
      <4>7. /\ Cardinality(RolledBack(m, q)') <= Cardinality(RolledBack(m, q))
            /\ Cardinality(RolledBack(m, q)') \in Nat /\ Cardinality(RolledBack(m, q)) \in Nat
        BY <3>5, <4>6, CopiesFinite, FS_Subset
      <4>8. Cardinality(RolledBack(m, q)') <= rollbacks'
        BY <1>1, <3>1, <4>7 DEF Thread, TypeOK
      <4> QED
        BY <4>4, <4>5, <4>8 DEF Thread
    <3> QED
      BY <3>6, <3>7
  <2> QED
    BY <2>6 DEF ThreadOK
<1> QED
  BY <1>5, <1>6, RetryEffect

LEMMA ThreadEndRun ==
  ASSUME TypeOK, CopiesOK, ThreadOK, CommitRun \/ RunRaises
  PROVE  ThreadOK'
<1>1. CASE CommitRun
  <2>1. /\ db' = db /\ disk' = db
        /\ UNCHANGED <<stand, open, hold, origin, mailed, bounced, purged, rollbacks>>
    BY <1>1 DEF CommitRun, sender, past, bounds
  <2>2. ASSUME NEW m \in Messages, NEW r \in Recipients, To[m] = {r}
        PROVE Thread(m, r)'
    <3>1. \A c : /\ Live(db, c, r)' <=> Live(db, c, r)
                 /\ Live(disk, c, r)' <=> Live(db, c, r)
      BY <2>1 DEF Live
    <3>2. (Sending(m)' <=> Sending(m)) /\ RolledBack(m, r)' = RolledBack(m, r)
      BY <2>1 DEF Sending, RolledBack, CopiesFor
    <3>3. Thread(m, r)
      BY <2>2 DEF ThreadOK
    <3> QED
      BY <2>1, <3>1, <3>2, <3>3 DEF Thread, OneThread
  <2> QED
    BY <2>2 DEF ThreadOK
<1>2. CASE RunRaises
  <2>1. /\ db' = disk /\ disk' = disk /\ rollbacks' = rollbacks + 1
        /\ UNCHANGED <<stand, open, hold, origin, mailed, bounced, purged>>
    BY <1>2 DEF RunRaises, sender, past
  <2>2. ASSUME NEW m \in Messages, NEW r \in Recipients, To[m] = {r}
        PROVE Thread(m, r)'
    <3> DEFINE N == {c \in CopiesFor(m, r) : c \in db.stored \ disk.stored}
    <3>1. Thread(m, r)
      BY <2>2 DEF ThreadOK
    <3>2. \A c : /\ Live(db, c, r)' <=> Live(disk, c, r)
                 /\ Live(disk, c, r)' <=> Live(disk, c, r)
      BY <2>1 DEF Live
    <3>3. Sending(m)' <=> Sending(m)
      BY <2>1 DEF Sending
    <3>4. OneThread(db, m, r)' /\ OneThread(disk, m, r)'
      BY <2>1, <3>1, <3>2, <3>3 DEF Thread, OneThread
    \* The mail of the run is out and its copy forgotten.
    <3>5. RolledBack(m, r)' \subseteq RolledBack(m, r) \cup N
      BY <2>1 DEF RolledBack, CopiesFor
    <3>6. \A c \in N : c \in Copies /\ origin[c] = m /\ Live(db, c, r)
      <4>1. ASSUME NEW c \in N PROVE c \in Copies /\ origin[c] = m /\ Live(db, c, r)
        <5>1. c \in Copies /\ origin[c] = m /\ r \in mailed[c] /\ c \in db.stored \ disk.stored
          BY DEF CopiesFor
        <5>2. db.status[<<c, r>>] = "NONE"
          BY <5>1, RowParts DEF CopiesOK, RunOK
        <5> QED
          BY <5>1, <5>2 DEF Live
      <4> QED
        BY <4>1
    <3>7. \A c, d \in N : c = d
      BY <3>1, <3>6 DEF Thread, OneThread
    <3>8. RolledBack(m, r) \in SUBSET Copies /\ RolledBack(m, r)' \in SUBSET Copies
          /\ N \in SUBSET Copies
      BY DEF RolledBack, CopiesFor
    <3>9. Cardinality(RolledBack(m, r)) \in Nat /\ Cardinality(RolledBack(m, r)') \in Nat
          /\ IsFiniteSet(RolledBack(m, r)) /\ Cardinality(RolledBack(m, r)) <= rollbacks
          /\ rollbacks \in Nat
      BY <3>1, <3>8, CopiesFinite DEF Thread, TypeOK
    <3> HIDE DEF N
    <3>10. Cardinality(RolledBack(m, r)') <= Cardinality(RolledBack(m, r)) + 1
      <4>1. CASE N = {}
        <5>1. Cardinality(RolledBack(m, r)') <= Cardinality(RolledBack(m, r))
          BY <3>5, <3>9, <4>1, FS_Subset
        <5> QED
          BY <3>9, <5>1
      <4>2. ASSUME NEW x \in N
            PROVE Cardinality(RolledBack(m, r)') <= Cardinality(RolledBack(m, r)) + 1
        <5> DEFINE S == RolledBack(m, r) \cup {x}
        <5>1. RolledBack(m, r)' \subseteq S
          BY <3>5, <3>7, <4>2
        <5>2. IsFiniteSet(S) /\ Cardinality(S) \in Nat
              /\ Cardinality(S) <= Cardinality(RolledBack(m, r)) + 1
          <6>1. IsFiniteSet(S) /\ (Cardinality(S) = Cardinality(RolledBack(m, r))
                                   \/ Cardinality(S) = Cardinality(RolledBack(m, r)) + 1)
            BY <3>9, FS_AddElement
          <6> HIDE DEF S
          <6> QED
            BY <3>9, <6>1
        <5> HIDE DEF S
        <5>3. Cardinality(RolledBack(m, r)') <= Cardinality(S)
          BY <5>1, <5>2, FS_Subset
        <5> QED
          BY <3>9, <5>2, <5>3
      <4> QED
        BY <4>1, <4>2
    <3>11. Cardinality(RolledBack(m, r)') <= rollbacks'
      BY <2>1, <3>9, <3>10
    <3> QED
      BY <3>4, <3>11 DEF Thread
  <2> QED
    BY <2>2 DEF ThreadOK
<1> QED
  BY <1>1, <1>2

LEMMA ThreadCron ==
  ASSUME TypeOK, OriginsOK, CopiesOK, ThreadOK, CronStep
  PROVE  ThreadOK'
<1>1. CASE CheckDeliverability
  <2>1. PICK R \in SUBSET Recipients : disk' = Schedule(disk, R) /\ db' = Schedule(db, R)
    BY <1>1 DEF CheckDeliverability
  <2>2. UNCHANGED <<stand, open, hold, origin, mailed, bounced, purged, rollbacks>>
    BY <1>1 DEF CheckDeliverability, sender, past, bounds
  <2>3. db'.stored = db.stored /\ disk'.stored = disk.stored
    BY <2>1, StoredOf
  <2>4. \A p \in Rows :
            /\ db'.status[p] = db.status[p]
               \/ (db.status[p] = "WAITING" /\ db'.status[p] = "ENQUEUED_DELIVERY")
            /\ disk'.status[p] = disk.status[p]
               \/ (disk.status[p] = "WAITING" /\ disk'.status[p] = "ENQUEUED_DELIVERY")
    BY <2>1, StatusOf DEF TypeOK
  <2>5. \A m \in Messages : Sending(m)' => Sending(m)
    BY <2>2 DEF Sending
  <2> QED
    BY <2>2, <2>3, <2>4, <2>5, ThreadQuiet, Statuses
<1>2. CASE SelectBatch
  <2>1. UNCHANGED <<db, disk, stand, open, hold, origin, mailed, bounced, purged, rollbacks>>
    BY <1>2 DEF SelectBatch, tables, sender, past, bounds
  <2> QED
    BY <2>1, ThreadQuiet DEF Sending
<1> QED
  BY <1>1, <1>2, ThreadRetry, ThreadEndRun, RowParts DEF CronStep

LEMMA ThreadDelete ==
  ASSUME TypeOK, OriginsOK, CopiesOK, ThreadOK, NEW c \in Copies, DeleteOld(c)
  PROVE  ThreadOK'
<1>1. /\ purged' = purged \cup {c} /\ disk' = Without(disk, c) /\ db' = Without(db, c)
      /\ UNCHANGED <<stand, open, hold, origin, mailed, bounced, rollbacks>>
      /\ c \in disk.stored
      /\ \A r \in Recipients : db.status[<<c, r>>] = disk.status[<<c, r>>]
  BY DEF DeleteOld, Locked, sender
<1>2. \A p \in Rows :
          /\ db'.status[p] = IF p[1] = c THEN "NONE" ELSE db.status[p]
          /\ disk'.status[p] = IF p[1] = c THEN "NONE" ELSE disk.status[p]
  BY <1>1, StatusOf DEF TypeOK
<1>3. db'.stored = db.stored \ {c} /\ disk'.stored = disk.stored \ {c} /\ c \in db.stored
  BY <1>1 DEF Without, Table, CopiesOK, RecordsOK
<1>4. ASSUME NEW m \in Messages, NEW r \in Recipients, To[m] = {r}
      PROVE Thread(m, r)'
  <2>1. ASSUME NEW d \in Copies
        PROVE  /\ Live(db, d, r)' => Live(db, d, r)
               /\ Live(disk, d, r)' => Live(disk, d, r)
    <3>1. CASE d # c
      BY <1>1, <1>2, <1>3, <3>1, RowParts DEF Live
    \* Mail that did not bounce has no row: its copy was alive as a stored one.
    <3>2. CASE d = c
      <4>1. r \in mailed[c] /\ <<c, r>> \notin bounced => Live(db, c, r) /\ Live(disk, c, r)
        BY <1>1, <1>3, RowParts DEF Live, CopiesOK, RowsOK
      <4>2. db'.status[<<c, r>>] = "NONE" /\ disk'.status[<<c, r>>] = "NONE"
        BY <1>2, RowParts
      <4> QED
        BY <1>1, <1>3, <3>2, <4>1, <4>2, Statuses DEF Live
    <3> QED
      BY <3>1, <3>2
  <2>2. RolledBack(m, r)' = RolledBack(m, r)
    BY <1>1, <1>3 DEF RolledBack, CopiesFor
  <2>3. Thread(m, r) /\ (Sending(m)' => Sending(m))
    BY <1>1, <1>4 DEF ThreadOK, Sending
  <2> QED
    BY <1>1, <2>1, <2>2, <2>3, ThreadFrame
<1> QED
  BY <1>4 DEF ThreadOK

LEMMA ThreadStep ==
  ASSUME TypeOK, OriginsOK, WatchOK, CopiesOK, ThreadOK, [Next]_vars
  PROVE  ThreadOK'
<1>1. ASSUME UNCHANGED <<db, disk, stand, open, hold, origin, mailed, bounced, purged, rollbacks>>
      PROVE ThreadOK'
  BY <1>1, ThreadQuiet DEF Sending
<1>2. ASSUME NEW m \in Messages, SendStep(m) PROVE ThreadOK'
  BY <1>2, ThreadSend
<1>3. ASSUME NEW c \in Copies, NEW r \in Recipients, SoftBounce(c, r) PROVE ThreadOK'
  BY <1>3, ThreadBounce
<1>4. ASSUME NEW r \in Recipients, BanAddress(r) PROVE ThreadOK'
  BY <1>1, <1>4 DEF BanAddress, tables, sender, past
<1>5. CASE CronStep
  BY <1>5, ThreadCron
<1>6. ASSUME NEW c \in Copies, DeleteOld(c) PROVE ThreadOK'
  BY <1>6, ThreadDelete
<1>7. CASE Tick
  <2>1. /\ db' = Later(db) /\ disk' = Later(disk)
        /\ UNCHANGED <<stand, open, hold, origin, mailed, bounced, purged, rollbacks>>
    BY <1>7 DEF Tick, bounds
  <2>2. /\ \A p \in Rows : db'.status[p] = db.status[p] /\ disk'.status[p] = disk.status[p]
        /\ db'.stored = db.stored /\ disk'.stored = disk.stored
    BY <2>1, StatusOf, StoredOf DEF TypeOK
  <2> QED
    BY <2>1, <2>2, ThreadQuiet DEF Sending
<1>8. CASE UNCHANGED vars
  BY <1>1, <1>8 DEF vars, tables, sender, past, bounds
<1> QED
  BY <1>2, <1>3, <1>4, <1>5, <1>6, <1>7, <1>8 DEF Next

LEMMA InitThread == Init => ThreadOK
<1> SUFFICES ASSUME Init, NEW m \in Messages, NEW r \in Recipients
             PROVE Thread(m, r)
  BY DEF ThreadOK
<1>1. \A c \in Copies : origin[c] # m
  BY MailAssumption DEF Init, MailAssumption
<1>2. RolledBack(m, r) = {}
  BY <1>1 DEF RolledBack, CopiesFor
<1>3. Cardinality(RolledBack(m, r)) = 0
  BY <1>2, FS_EmptySet
<1>4. rollbacks = 0
  BY DEF Init
<1> QED
  BY <1>1, <1>3, <1>4 DEF Thread, OneThread

----------------------------------------------------------------------------
(* The theorems.                                                           *)

CInv == IInv /\ CopiesOK /\ ServedOK /\ ThreadOK

LEMMA CopiesInvariance == Spec => []CInv
<1>1. Init => CInv
  BY InitIInv, InitCopies, InitServed, InitThread DEF CInv
<1>2. CInv /\ [Next]_vars => CInv'
  <2> SUFFICES ASSUME CInv, [Next]_vars PROVE CInv'
    OBVIOUS
  <2>1. IInv /\ TypeOK /\ OriginsOK /\ WatchOK
    BY DEF CInv, IInv
  <2>2. IInv'
    BY <2>1, StepIInv
  <2>3. CopiesOK'
    BY <2>1, CopiesStep DEF CInv
  <2>4. ServedOK' /\ ThreadOK'
    BY <2>1, <2>3, ServedStep, ThreadStep DEF CInv
  <2> QED
    BY <2>2, <2>3, <2>4 DEF CInv
<1> QED
  BY <1>1, <1>2, PTL DEF Spec

\* A message whose last mail to an address bounced, or that was held back from
\* it, is in the queue, whatever bounces, in whatever order the notifications
\* come, and whichever runs of the command are rolled back: but for a banned
\* address, a deleted copy and a bounce that overtook the commit.
THEOREM NothingIsLost == Spec => []NothingElseIsLost
<1>1. CInv => NothingElseIsLost
  BY ServedIsEnough DEF CInv, IInv
<1> QED
  BY <1>1, CopiesInvariance, PTL

\* A message to a single address is mailed once, and once more for each copy
\* that bounced and each run that was rolled back.
THEOREM OnlyFailuresAreRepeated == Spec => []OnlyFailuresRepeat
<1>1. CInv => OnlyFailuresRepeat
  BY ThreadIsEnough DEF CInv, IInv
<1> QED
  BY <1>1, CopiesInvariance, PTL
=============================================================================
