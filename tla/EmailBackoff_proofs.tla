------------------------ MODULE EmailBackoff_proofs ------------------------
(***************************************************************************)
(* Proofs about EmailBackoff, for any messages, addresses and bounds, and  *)
(* any thresholds that satisfy the assumptions.                            *)
(***************************************************************************)
EXTENDS EmailBackoff, TLAPS

\* Copies with rows, copies mailed and copies being sent have an origin.
OriginsOK ==
    /\ \A p \in Rows :
          (\/ db.status[p] # "NONE" \/ disk.status[p] # "NONE"
           \/ p \in batch \/ p[2] \in mailed[p[1]]) => origin[p[1]] \in Messages
    /\ \A m \in Messages :
          stand[m] \in InFlight => own[m] \in Copies /\ origin[own[m]] = m
    /\ \A m \in Messages : stand[m] = "insert" => date[m] # NoDate

----------------------------------------------------------------------------
(* The operators on tables.                                                *)

LEMMA StatusTypes ==
  /\ "NONE" \in Status /\ "ENQUEUED" \in Status /\ "WAITING" \in Status
  /\ "ENQUEUED_DELIVERY" \in Status /\ "IN_PROGRESS" \in Status
  /\ "SUCCESSFUL" \in Status
BY DEF Status, Unsent, Queued

LEMMA TablesStayTyped ==
  ASSUME NEW t, TableOK(t), NEW r \in Recipients, NEW d \in Nat
  PROVE  /\ \A c \in Copies, s \in Status : TableOK(WithRow(t, c, r, s, d))
         /\ \A c \in Copies : TableOK(WithCopy(t, c))
         /\ \A P \in SUBSET Rows, s \in Status : TableOK(WithStatus(t, P, s))
         /\ \A c \in Copies : TableOK(Without(t, c))
         /\ TableOK(Later(t))
         /\ NewStatus(t, r) \in Status
<1> USE StatusTypes
<1>1. ASSUME NEW c \in Copies, NEW s \in Status PROVE TableOK(WithRow(t, c, r, s, d))
  BY DEF TableOK, WithRow, Table, Rows
<1>2. ASSUME NEW c \in Copies PROVE TableOK(WithCopy(t, c))
  BY DEF TableOK, WithCopy, Table
<1>3. ASSUME NEW P \in SUBSET Rows, NEW s \in Status PROVE TableOK(WithStatus(t, P, s))
  BY DEF TableOK, WithStatus, Table
<1>4. ASSUME NEW c \in Copies PROVE TableOK(Without(t, c))
  BY DEF TableOK, Without, Table
<1>5. TableOK(Later(t))
  BY DEF TableOK, Later, Table, Larger
<1>6. NewStatus(t, r) \in Status
  BY DEF NewStatus
<1> QED
  BY <1>1, <1>2, <1>3, <1>4, <1>5, <1>6

LEMMA DatesAreNat ==
  ASSUME TypeOK
  PROVE \A r \in Recipients : get_next_retry_date(r) \in Nat
BY DEF TypeOK, get_next_retry_date, under_waiting_period

LEMMA EnqueueStaysTyped ==
  ASSUME TypeOK, NEW c \in Copies, NEW r \in Recipients, NEW d \in Nat, Enqueue(c, r, d)
  PROVE TableOK(db') /\ TableOK(disk')
<1>1. CASE UNCHANGED tables
  BY <1>1 DEF tables, TypeOK
<1>2. CASE /\ disk' = WithRow(disk, c, r, NewStatus(disk, r), d)
           /\ db' = WithRow(db, c, r, NewStatus(disk, r), d)
  BY <1>2, TablesStayTyped DEF TypeOK
<1> QED
  BY <1>1, <1>2 DEF Enqueue

----------------------------------------------------------------------------
(* Types and origins, action by action.                                    *)

LEMMA TypeSend ==
  ASSUME TypeOK, OriginsOK, NEW m \in Messages, SendStep(m)
  PROVE TypeOK'
<1> USE DEF SendStep
<1>1. CASE CheckBans(m)
  <2>1. Unbanned(To[m]) \in SUBSET Recipients
    BY MailAssumption DEF Unbanned, MailAssumption
  <2> QED
    BY <1>1, <2>1 DEF CheckBans, TypeOK, tables, flags, run, past, bounds
<1>2. CASE CheckBackoff(m)
  <2>1. PICK c \in Copies : /\ origin' = [origin EXCEPT ![c] = m]
                            /\ own' = [own EXCEPT ![m] = c]
                            /\ disk' = WithCopy(disk, c)
                            /\ db' = WithCopy(db, c)
    BY <1>2 DEF CheckBackoff
  <2>2. TableOK(db') /\ TableOK(disk')
    BY <2>1 DEF TypeOK, TableOK, WithCopy, Table
  <2>3. /\ hold' = [hold EXCEPT ![m] = BackingOff(open[m])]
        /\ open' = [open EXCEPT ![m] = open[m] \ BackingOff(open[m])]
        /\ stand' = [stand EXCEPT ![m] = "queue"]
        /\ UNCHANGED <<flags, date, late, run, mailed, bounced, early, purged, since, bounds>>
    BY <1>2 DEF CheckBackoff
  <2>4. BackingOff(open[m]) \in SUBSET Recipients
    BY DEF BackingOff, TypeOK
  <2> QED
    BY <2>1, <2>2, <2>3, <2>4 DEF TypeOK, InFlight, flags, run, bounds
<1>3. ASSUME NEW r \in Recipients, ReadDate(m, r)
      PROVE TypeOK'
  BY <1>3, DatesAreNat DEF ReadDate, TypeOK, InFlight, tables, flags, run, past, bounds
<1>4. CASE InsertRow(m)
  <2>1. own[m] \in Copies /\ date[m][1] \in Recipients /\ date[m][2] \in Nat
    BY <1>4 DEF InsertRow, TypeOK, OriginsOK, InFlight
  <2>2. TableOK(db') /\ TableOK(disk')
    BY <1>4, <2>1, EnqueueStaysTyped DEF InsertRow
  <2> QED
    BY <1>4, <2>2 DEF InsertRow, TypeOK, InFlight, flags, run, past, bounds
<1>5. CASE Deliver(m)
  BY <1>5 DEF Deliver, TypeOK, tables, flags, run, bounds
<1>6. CASE SendRaises(m)
  BY <1>6 DEF SendRaises, TypeOK, tables, flags, run, past, bounds
<1> QED
  BY <1>1, <1>2, <1>3, <1>4, <1>5, <1>6

LEMMA PowersAreNat ==
  /\ \A n \in 0..(MAX_RETRY_COUNTER + 2) : 2 ^ n \in Nat \ {0}
  /\ WholePeriod \in Nat
<1> USE WindowAssumption, PowersAssumption DEF WindowAssumption, PowersAssumption
<1>1. ASSUME NEW n \in 0..(MAX_RETRY_COUNTER + 2) PROVE 2 ^ n \in Nat \ {0}
  <2>1. CASE n = MAX_RETRY_COUNTER + 2
    <3>1. MAX_RETRY_COUNTER + 1 \in 0..(MAX_RETRY_COUNTER + 1)
      OBVIOUS
    <3>2. 2 ^ (MAX_RETRY_COUNTER + 1 + 1) = 2 * 2 ^ (MAX_RETRY_COUNTER + 1)
      BY <3>1
    <3>3. MAX_RETRY_COUNTER + 1 + 1 = n
      BY <2>1
    <3> QED
      BY <3>1, <3>2, <3>3
  <2>2. CASE n \in 0..(MAX_RETRY_COUNTER + 1)
    BY <2>2
  <2> QED
    BY <2>1, <2>2
<1>2. WholePeriod \in Nat
  <2>1. MAX_RETRY_COUNTER + 1 \in 0..(MAX_RETRY_COUNTER + 1)
        /\ MAX_RETRY_COUNTER + 1 + 1 = MAX_RETRY_COUNTER + 2
    OBVIOUS
  <2>2. 2 ^ (MAX_RETRY_COUNTER + 2) = 2 * 2 ^ (MAX_RETRY_COUNTER + 1)
    BY <2>1
  <2>3. 2 ^ (MAX_RETRY_COUNTER + 1) \in Nat \ {0}
    BY <2>1
  <2> QED
    BY <2>2, <2>3 DEF WholePeriod
<1> QED
  BY <1>1, <1>2

\* What a soft bounce may do to the flag of r.
Handled(r) ==
    StartBackoff(r) \/ RestartBackoff(r) \/ IgnoreBounce(r) \/ ExtendBackoff(r)

FlagsTyped ==
    /\ counter \in [Recipients -> {NoFlag} \cup 0..MAX_RETRY_COUNTER]
    /\ wait \in [Recipients -> Int]
    /\ checked \in [Recipients -> BOOLEAN]
    /\ banned \in [Recipients -> {"no", "hard", "max_retry"}]
    /\ since \in [Recipients -> Nat]

LEMMA FlagsStayTyped ==
  ASSUME FlagsTyped, NEW r \in Recipients, Handled(r) \/ BanAfterRetries(r)
  PROVE FlagsTyped'
<1> USE WindowAssumption DEF WindowAssumption, SetFlag, INITIAL_HOURS, Period, NoFlag
<1>1. CASE StartBackoff(r)
  BY <1>1 DEF StartBackoff, FlagsTyped
<1>2. CASE RestartBackoff(r)
  BY <1>2 DEF RestartBackoff, FlagsTyped
<1>3. CASE IgnoreBounce(r)
  BY <1>3 DEF IgnoreBounce, FlagsTyped, flags
<1>4. CASE ExtendBackoff(r)
  <2>1. counter[r] \in 0..MAX_RETRY_COUNTER /\ counter[r] < MAX_RETRY_COUNTER
    BY <1>4 DEF ExtendBackoff, PeriodIsOver, FlagsTyped
  <2>2. counter[r] + 1 + 1 \in 0..(MAX_RETRY_COUNTER + 2)
    BY <2>1
  <2>3. 2 ^ (counter[r] + 1 + 1) \in Int
    BY <2>2, PowersAreNat
  <2> QED
    BY <1>4, <2>1, <2>3 DEF ExtendBackoff, FlagsTyped
<1>5. CASE BanAfterRetries(r)
  BY <1>5 DEF BanAfterRetries, FlagsTyped
<1> QED
  BY <1>1, <1>2, <1>3, <1>4, <1>5 DEF Handled

LEMMA NextDateIsNat ==
  ASSUME FlagsTyped', NEW r \in Recipients
  PROVE get_next_retry_date(r)' \in Nat
BY DEF FlagsTyped, get_next_retry_date, under_waiting_period

LEMMA TypeBounce ==
  ASSUME TypeOK, NEW c \in Copies, NEW r \in Recipients, SoftBounce(c, r)
  PROVE TypeOK'
<1>1. Handled(r) \/ BanAfterRetries(r)
  BY DEF SoftBounce, Handled
<1>2. FlagsTyped'
  BY <1>1, FlagsStayTyped DEF TypeOK, FlagsTyped
<1>3. TableOK(db') /\ TableOK(disk')
  <2>1. CASE UNCHANGED tables
    BY <2>1 DEF tables, TypeOK
  <2>2. CASE Enqueue(c, r, get_next_retry_date(r)')
    BY <2>2, <1>2, NextDateIsNat, EnqueueStaysTyped
  <2> QED
    BY <2>1, <2>2 DEF SoftBounce
<1>4. <<c, r>> \in Rows
  BY DEF Rows
<1>5. /\ bounced' \in SUBSET Rows /\ early' \in SUBSET Rows /\ notices' \in Nat
      /\ UNCHANGED <<sender, run, origin, mailed, purged, rollbacks, deletions>>
  <2>1. /\ bounced' = bounced \cup {<<c, r>>} /\ notices' = notices + 1
        /\ early' = early \cup (IF c \in db.stored \ disk.stored THEN {<<c, r>>} ELSE {})
        /\ UNCHANGED <<sender, run, origin, mailed, purged, rollbacks, deletions>>
    BY DEF SoftBounce
  <2> QED
    BY <1>4, <2>1 DEF TypeOK
<1> QED
  BY <1>2, <1>3, <1>5 DEF TypeOK, FlagsTyped, sender, run

LEMMA TypeCron ==
  ASSUME TypeOK, OriginsOK, CronStep
  PROVE TypeOK'
<1> USE DEF CronStep
<1>1. CASE CheckDeliverability
  <2>1. PICK R \in SUBSET Recipients :
            /\ checked' = [r \in Recipients |-> checked[r] \/ r \in R]
            /\ disk' = Schedule(disk, R)
            /\ db' = Schedule(db, R)
    BY <1>1 DEF CheckDeliverability
  <2>2. ASSUME NEW t, TableOK(t) PROVE TableOK(Schedule(t, R))
    BY <2>2, StatusTypes, DatesAreNat DEF TableOK, Schedule, Table, Rows
  <2>3. TableOK(db') /\ TableOK(disk')
    BY <2>1, <2>2 DEF TypeOK
  <2>4. checked' \in [Recipients -> BOOLEAN]
    BY <2>1, Zenon
  <2>5. cron' = "checked" /\ UNCHANGED <<counter, wait, banned, sender, batch, past, bounds>>
    BY <1>1 DEF CheckDeliverability
  <2> QED
    BY <2>3, <2>4, <2>5 DEF TypeOK, sender, past, bounds
<1>2. CASE SelectBatch
  BY <1>2 DEF SelectBatch, TypeOK, Due, tables, flags, sender, past, bounds
<1>3. ASSUME NEW c \in Copies, NEW r \in Recipients, Retry(c, r)
      PROVE TypeOK'
  <2> DEFINE R == Unbanned(Resent(c, r))
  <2>1. <<c, r>> \in batch /\ <<c, r>> \in Rows /\ {<<c, r>>} \in SUBSET Rows
    BY <1>3 DEF Retry, Rows
  <2>2. origin[c] \in Messages
    BY <2>1 DEF OriginsOK
  <2>3. R \in SUBSET Recipients
    BY <2>2, MailAssumption DEF MailAssumption, Unbanned, Resent
  <2>4. ASSUME NEW t, TableOK(t), NEW n \in Copies
        PROVE TableOK(HoldBack(t, n, BackingOff(R)))
    BY <2>4, StatusTypes, DatesAreNat DEF HoldBack, NewStatus, TableOK, Table, Rows
  <2>5. ASSUME NEW t, TableOK(t), NEW n \in Copies, NEW s \in Status
        PROVE TableOK(WithCopy(t, n)) /\ TableOK(WithStatus(t, {<<c, r>>}, s))
    BY <2>5, <2>1, TablesStayTyped
  <2>6. TableOK(db)
    BY DEF TypeOK
  <2>7. TableOK(db') /\ origin' \in [Copies -> Messages \cup {NoMessage}]
        /\ mailed' \in [Copies -> SUBSET Recipients]
    <3>1. CASE R = {}
      <4>1. db' = WithStatus(db, {<<c, r>>}, "SUCCESSFUL") /\ UNCHANGED <<origin, mailed>>
        BY <1>3, <3>1 DEF Retry
      <4> QED
        BY <4>1, <2>5, <2>6, StatusTypes DEF TypeOK
    <3>2. CASE R # {}
      <4>1. PICK n \in Copies :
              /\ origin' = [origin EXCEPT ![n] = origin[c]]
              /\ mailed' = [mailed EXCEPT ![n] = R \ BackingOff(R)]
              /\ db' = WithStatus(HoldBack(WithStatus(WithCopy(db, n), {<<c, r>>}, "IN_PROGRESS"),
                                           n, BackingOff(R)),
                                  {<<c, r>>}, "SUCCESSFUL")
        BY <1>3, <3>2 DEF Retry
      <4>2. TableOK(WithStatus(WithCopy(db, n), {<<c, r>>}, "IN_PROGRESS"))
        BY <2>5, <2>6, StatusTypes
      <4>3. TableOK(db')
        BY <4>1, <4>2, <2>4, <2>5, StatusTypes
      <4> QED
        BY <4>1, <4>3, <2>2, <2>3 DEF TypeOK
    <3> QED
      BY <3>1, <3>2
  <2>8. batch' \in SUBSET Rows
        /\ UNCHANGED <<disk, flags, sender, cron, bounced, early, purged, since, bounds>>
    BY <1>3 DEF Retry, TypeOK
  <2> QED
    BY <2>7, <2>8 DEF TypeOK, flags, sender, bounds
<1>4. CASE CommitRun
  BY <1>4 DEF CommitRun, TypeOK, flags, sender, past, bounds
<1>5. CASE RunRaises
  BY <1>5 DEF RunRaises, TypeOK, flags, sender, past
<1>6. \A p \in Rows : p[1] \in Copies /\ p[2] \in Recipients
  BY DEF Rows
<1> QED
  BY <1>1, <1>2, <1>3, <1>4, <1>5, <1>6

LEMMA TypeTick ==
  ASSUME TypeOK, Tick
  PROVE TypeOK'
<1>1. TableOK(db') /\ TableOK(disk')
  BY DEF Tick, TypeOK, TableOK, Later, Table, Larger
<1>2. wait' \in [Recipients -> Int] /\ since' \in [Recipients -> Nat]
  BY PowersAreNat, WindowAssumption
     DEF Tick, TypeOK, Larger, Smaller, WindowAssumption
<1>3. date' \in [Messages -> (Recipients \X Nat) \cup {NoDate}]
  <2>1. ASSUME NEW m \in Messages, date[m] # NoDate
        PROVE <<date[m][1], Larger(date[m][2] - 1, 0)>> \in Recipients \X Nat
    BY <2>1 DEF TypeOK, Larger
  <2> QED
    BY <2>1 DEF Tick
<1>4. late' \in [Messages -> BOOLEAN]
  <2>1. late' = [m \in Messages |-> stand[m] \in InFlight]
    BY DEF Tick
  <2>2. \A m \in Messages : (stand[m] \in InFlight) \in BOOLEAN
    OBVIOUS
  <2> QED
    BY <2>1, <2>2
<1> QED
  BY <1>1, <1>2, <1>3, <1>4 DEF Tick, TypeOK, run, bounds

LEMMA TypeRest ==
  ASSUME TypeOK
  PROVE  /\ \A r \in Recipients : BanAddress(r) => TypeOK'
         /\ \A c \in Copies : DeleteOld(c) => TypeOK'
         /\ UNCHANGED vars => TypeOK'
<1>1. ASSUME NEW r \in Recipients, BanAddress(r) PROVE TypeOK'
  BY <1>1 DEF BanAddress, TypeOK, tables, sender, run, past
<1>2. ASSUME NEW c \in Copies, DeleteOld(c) PROVE TypeOK'
  <2>1. TableOK(db') /\ TableOK(disk')
    BY <1>2, StatusTypes DEF DeleteOld, TypeOK, TableOK, Without, Table
  <2> QED
    BY <1>2, <2>1 DEF DeleteOld, TypeOK, flags, sender, run
<1>3. ASSUME UNCHANGED vars PROVE TypeOK'
  BY <1>3 DEF vars, TypeOK, tables, flags, sender, run, past, bounds
<1> QED
  BY <1>1, <1>2, <1>3

----------------------------------------------------------------------------
(* Where the rows of a table come from.                                    *)

LEMMA StatusOf ==
  ASSUME NEW t, TableOK(t), NEW p \in Rows
  PROVE  /\ \A c \in Copies, r \in Recipients, s \in Status, d \in Nat :
              WithRow(t, c, r, s, d).status[p] = IF p = <<c, r>> THEN s ELSE t.status[p]
         /\ \A c \in Copies : WithCopy(t, c).status[p] = t.status[p]
         /\ \A q \in Rows, s \in Status :
              WithStatus(t, {q}, s).status[p] = IF p = q THEN s ELSE t.status[p]
         /\ \A c \in Copies, R \in SUBSET Recipients :
              HoldBack(t, c, R).status[p] =
                  IF p[1] = c /\ p[2] \in R THEN NewStatus(t, p[2]) ELSE t.status[p]
         /\ \A R \in SUBSET Recipients :
              Schedule(t, R).status[p] =
                  IF p[2] \in R /\ t.status[p] = "WAITING" THEN "ENQUEUED_DELIVERY"
                  ELSE t.status[p]
         /\ \A c \in Copies :
              Without(t, c).status[p] = IF p[1] = c THEN "NONE" ELSE t.status[p]
         /\ Later(t).status[p] = t.status[p]
<1>1. ASSUME NEW c \in Copies, NEW r \in Recipients, NEW s \in Status, NEW d \in Nat
      PROVE WithRow(t, c, r, s, d).status[p] = IF p = <<c, r>> THEN s ELSE t.status[p]
  BY DEF WithRow, Table, TableOK
<1>2. \A c \in Copies : WithCopy(t, c).status[p] = t.status[p]
  BY DEF WithCopy, Table
<1>3. \A q \in Rows, s \in Status :
          WithStatus(t, {q}, s).status[p] = IF p = q THEN s ELSE t.status[p]
  BY DEF WithStatus, Table
<1>4. \A c \in Copies, R \in SUBSET Recipients :
          HoldBack(t, c, R).status[p] =
              IF p[1] = c /\ p[2] \in R THEN NewStatus(t, p[2]) ELSE t.status[p]
  BY DEF HoldBack, Table
<1>5. \A R \in SUBSET Recipients :
          Schedule(t, R).status[p] =
              IF p[2] \in R /\ t.status[p] = "WAITING" THEN "ENQUEUED_DELIVERY"
              ELSE t.status[p]
  BY DEF Schedule, Table
<1>6. \A c \in Copies :
          Without(t, c).status[p] = IF p[1] = c THEN "NONE" ELSE t.status[p]
  BY DEF Without, Table
<1>7. Later(t).status[p] = t.status[p]
  BY DEF Later, Table
<1> QED
  BY <1>1, <1>2, <1>3, <1>4, <1>5, <1>6, <1>7

\* One step of enqueue_email: the row it may add, in both tables.
LEMMA EnqueueAdds ==
  ASSUME TypeOK, NEW c \in Copies, NEW r \in Recipients, NEW d \in Nat, Enqueue(c, r, d),
         NEW p \in Rows
  PROVE  \/ db'.status[p] = db.status[p] /\ disk'.status[p] = disk.status[p]
         \/ /\ p = <<c, r>>
            /\ db'.status[p] = NewStatus(disk, r) /\ disk'.status[p] = NewStatus(disk, r)
<1>1. CASE UNCHANGED tables
  BY <1>1 DEF tables
<1>2. CASE /\ disk' = WithRow(disk, c, r, NewStatus(disk, r), d)
           /\ db' = WithRow(db, c, r, NewStatus(disk, r), d)
  <2>1. TableOK(db) /\ TableOK(disk) /\ NewStatus(disk, r) \in Status
    BY StatusTypes DEF TypeOK, NewStatus
  <2>2. /\ disk'.status[p] = IF p = <<c, r>> THEN NewStatus(disk, r) ELSE disk.status[p]
        /\ db'.status[p] = IF p = <<c, r>> THEN NewStatus(disk, r) ELSE db.status[p]
    BY <1>2, <2>1, StatusOf
  <2> QED
    BY <2>2
<1> QED
  BY <1>1, <1>2 DEF Enqueue

\* What a retry of the row <<c, r>> that stores the copy n and holds back H does.
Resends(c, r, n, H) ==
    /\ origin[n] = NoMessage
    /\ origin' = [origin EXCEPT ![n] = origin[c]]
    /\ \E B \in SUBSET Recipients : mailed' = [mailed EXCEPT ![n] = B]
    /\ \A q \in H : under_waiting_period(q)
    /\ \A p \in Rows :
          \/ p = <<c, r>> /\ db'.status[p] = "SUCCESSFUL"
          \/ p # <<c, r>> /\ db'.status[p] = db.status[p]
          \/ /\ p # <<c, r>> /\ p[1] = n /\ p[2] \in H
             /\ \/ db'.status[p] = "WAITING"
                \/ /\ db'.status[p] = "ENQUEUED"
                   /\ \A k \in Copies :
                         db.status[<<k, p[2]>>] = "ENQUEUED" => <<k, p[2]>> = <<c, r>>

LEMMA RetryRows ==
  ASSUME TypeOK, OriginsOK, NEW c \in Copies, NEW r \in Recipients, Retry(c, r)
  PROVE  \/ /\ UNCHANGED <<origin, mailed>>
            /\ \A p \in Rows :
                  db'.status[p] = IF p = <<c, r>> THEN "SUCCESSFUL" ELSE db.status[p]
         \/ \E n \in Copies, H \in SUBSET Recipients : Resends(c, r, n, H)
<1> DEFINE R == Unbanned(Resent(c, r))
           H == BackingOff(R)
<1>0. TableOK(db)
  BY DEF TypeOK
<1>1. <<c, r>> \in batch /\ <<c, r>> \in Rows
  BY DEF Retry, Rows
<1>2. R \in SUBSET Recipients
  BY <1>1, MailAssumption DEF MailAssumption, Unbanned, Resent, OriginsOK
<1>3. H \in SUBSET Recipients /\ R \ H \in SUBSET Recipients
      /\ \A q \in H : under_waiting_period(q)
  BY <1>2 DEF BackingOff
<1>4. CASE R = {}
  <2>1. db' = WithStatus(db, {<<c, r>>}, "SUCCESSFUL") /\ UNCHANGED <<origin, mailed>>
    BY <1>4 DEF Retry
  <2> QED
    BY <1>0, <1>1, <2>1, StatusOf, StatusTypes
<1>5. CASE R # {}
  <2>1. PICK n \in Copies :
          /\ IsFresh(n)
          /\ origin' = [origin EXCEPT ![n] = origin[c]]
          /\ mailed' = [mailed EXCEPT ![n] = R \ H]
          /\ db' = WithStatus(HoldBack(WithStatus(WithCopy(db, n), {<<c, r>>}, "IN_PROGRESS"),
                                       n, H),
                              {<<c, r>>}, "SUCCESSFUL")
    BY <1>5 DEF Retry
  <2> DEFINE t1 == WithCopy(db, n)
             t2 == WithStatus(t1, {<<c, r>>}, "IN_PROGRESS")
             t3 == HoldBack(t2, n, H)
  <2>2. TableOK(t1) /\ TableOK(t2)
    <3>1. 0 \in Nat /\ {<<c, r>>} \in SUBSET Rows
      BY <1>1
    <3> QED
      BY <1>0, <3>1, TablesStayTyped, StatusTypes
  <2>3. TableOK(t3)
    <3> HIDE DEF t2
    <3> QED
      BY <2>2, <1>3, StatusTypes, DatesAreNat DEF HoldBack, NewStatus, TableOK, Table, Rows
  <2>4. \A p \in Rows : t2.status[p] = IF p = <<c, r>> THEN "IN_PROGRESS" ELSE db.status[p]
    BY <1>0, <1>1, <2>2, StatusOf, StatusTypes
  <2>5. ASSUME NEW p \in Rows
        PROVE db'.status[p] = IF p = <<c, r>> THEN "SUCCESSFUL"
                              ELSE IF p[1] = n /\ p[2] \in H THEN NewStatus(t2, p[2])
                              ELSE db.status[p]
    <3>1. db'.status[p] = IF p = <<c, r>> THEN "SUCCESSFUL" ELSE t3.status[p]
      BY <2>1, <2>3, <1>1, StatusOf, StatusTypes
    <3>2. t3.status[p] = IF p[1] = n /\ p[2] \in H THEN NewStatus(t2, p[2]) ELSE t2.status[p]
      BY <2>2, <1>3, StatusOf
    <3> QED
      BY <3>1, <3>2, <2>4
  <2>6. ASSUME NEW q \in Recipients
        PROVE \/ NewStatus(t2, q) = "WAITING"
              \/ /\ NewStatus(t2, q) = "ENQUEUED"
                 /\ \A k \in Copies : db.status[<<k, q>>] = "ENQUEUED" => <<k, q>> = <<c, r>>
    <3> HIDE DEF t2
    <3>1. \A k \in Copies : <<k, q>> \in Rows
      BY DEF Rows
    <3> QED
      BY <3>1, <2>4 DEF NewStatus, Probed
  <2>7. \A p \in Rows : p[2] \in Recipients
    BY DEF Rows
  <2> HIDE DEF t2, H
  <2>8. Resends(c, r, n, H)
    BY <1>3, <2>1, <2>5, <2>6, <2>7 DEF Resends, IsFresh
  <2> QED
    BY <1>3, <2>8
<1> QED
  BY <1>4, <1>5

LEMMA OriginsSend ==
  ASSUME TypeOK, OriginsOK, NEW m \in Messages, SendStep(m)
  PROVE OriginsOK'
<1> USE MailAssumption DEF MailAssumption, InFlight
<1>0. \A p \in Rows : p[1] \in Copies /\ p[2] \in Recipients /\ p = <<p[1], p[2]>>
  BY DEF Rows
<1>1. CASE CheckBans(m)
  BY <1>1 DEF CheckBans, OriginsOK, TypeOK, tables, flags, run, past, bounds
<1>2. CASE CheckBackoff(m)
  <2>1. PICK c \in Copies : /\ IsFresh(c)
                            /\ origin' = [origin EXCEPT ![c] = m]
                            /\ own' = [own EXCEPT ![m] = c]
                            /\ disk' = WithCopy(disk, c)
                            /\ db' = WithCopy(db, c)
    BY <1>2 DEF CheckBackoff
  <2>2. \A p \in Rows : db'.status[p] = db.status[p] /\ disk'.status[p] = disk.status[p]
    BY <2>1, StatusOf DEF TypeOK
  <2>3. stand' = [stand EXCEPT ![m] = "queue"] /\ UNCHANGED <<date, batch, mailed>>
    BY <1>2 DEF CheckBackoff, run
  <2>4. origin[c] = NoMessage
    BY <2>1 DEF IsFresh
  <2>5. ASSUME NEW k \in Messages, stand'[k] \in InFlight
        PROVE own'[k] \in Copies /\ origin'[own'[k]] = k
    <3>1. CASE k = m
      BY <2>1, <3>1 DEF TypeOK
    <3>2. CASE k # m
      <4>1. own[k] \in Copies /\ origin[own[k]] = k
        BY <2>3, <2>5, <3>2 DEF OriginsOK, TypeOK
      <4> QED
        BY <2>1, <2>4, <3>2, <4>1 DEF TypeOK
    <3> QED
      BY <3>1, <3>2
  <2>6. ASSUME NEW k \in Messages, stand'[k] = "insert" PROVE date'[k] # NoDate
    BY <2>3, <2>6 DEF OriginsOK, TypeOK
  <2>7. ASSUME NEW p \in Rows,
               \/ db'.status[p] # "NONE" \/ disk'.status[p] # "NONE"
               \/ p \in batch' \/ p[2] \in mailed'[p[1]]
        PROVE origin'[p[1]] \in Messages
    BY <2>1, <2>2, <2>3, <2>7, <1>0 DEF OriginsOK, TypeOK
  <2> QED
    BY <2>5, <2>6, <2>7 DEF OriginsOK
<1>3. ASSUME NEW r \in Recipients, ReadDate(m, r) PROVE OriginsOK'
  BY <1>3 DEF ReadDate, OriginsOK, TypeOK, NoDate, tables, run, past
<1>4. CASE InsertRow(m)
  <2>1. own[m] \in Copies /\ date[m][1] \in Recipients /\ date[m][2] \in Nat
        /\ origin[own[m]] = m
    BY <1>4 DEF InsertRow, TypeOK, OriginsOK
  <2>2. ASSUME NEW p \in Rows, db'.status[p] # "NONE" \/ disk'.status[p] # "NONE"
        PROVE origin[p[1]] \in Messages
    <3>1. \/ db'.status[p] = db.status[p] /\ disk'.status[p] = disk.status[p]
          \/ p = <<own[m], date[m][1]>>
      BY <1>4, <2>1, EnqueueAdds DEF InsertRow
    <3> QED
      BY <2>1, <2>2, <3>1 DEF OriginsOK
  <2>3. stand' = [stand EXCEPT ![m] = "queue"] /\ date' = [date EXCEPT ![m] = NoDate]
        /\ UNCHANGED <<batch, own, origin, mailed>>
    BY <1>4 DEF InsertRow, run, past
  <2> QED
    BY <2>1, <2>2, <2>3 DEF OriginsOK, TypeOK
<1>5. CASE Deliver(m)
  <2>1. /\ stand[m] = "queue" /\ stand' = [stand EXCEPT ![m] = "done"]
        /\ mailed' = [mailed EXCEPT ![own[m]] = open[m]]
        /\ UNCHANGED <<db, disk, batch, own, date, origin>>
    BY <1>5 DEF Deliver, tables, run
  <2>2. origin[own[m]] = m /\ own[m] \in Copies
    BY <2>1 DEF OriginsOK
  <2> QED
    BY <2>1, <2>2, <1>0 DEF OriginsOK, TypeOK
<1>6. CASE SendRaises(m)
  BY <1>6 DEF SendRaises, OriginsOK, TypeOK, tables, flags, run, past, bounds
<1> QED
  BY <1>1, <1>2, <1>3, <1>4, <1>5, <1>6 DEF SendStep

LEMMA OriginsBounce ==
  ASSUME TypeOK, OriginsOK, NEW c \in Copies, NEW r \in Recipients, SoftBounce(c, r)
  PROVE OriginsOK'
<1>1. origin[c] \in Messages
  <2>1. <<c, r>> \in Rows /\ r \in mailed[c]
    BY DEF SoftBounce, Rows
  <2> QED
    BY <2>1 DEF OriginsOK
<1>2. ASSUME NEW p \in Rows, db'.status[p] # "NONE" \/ disk'.status[p] # "NONE"
      PROVE origin[p[1]] \in Messages
  <2>1. CASE UNCHANGED tables
    BY <1>2, <2>1 DEF tables, OriginsOK
  <2>2. CASE Enqueue(c, r, get_next_retry_date(r)')
    <3>1. get_next_retry_date(r)' \in Nat
      BY TypeBounce, NextDateIsNat DEF TypeOK, FlagsTyped
    <3>2. \/ db'.status[p] = db.status[p] /\ disk'.status[p] = disk.status[p]
          \/ p = <<c, r>>
      BY <2>2, <3>1, EnqueueAdds
    <3> QED
      BY <1>1, <1>2, <3>2 DEF OriginsOK
  <2> QED
    BY <2>1, <2>2 DEF SoftBounce
<1>3. UNCHANGED <<stand, own, date, batch, origin, mailed>>
  BY DEF SoftBounce, sender, run
<1> QED
  BY <1>2, <1>3 DEF OriginsOK

LEMMA OriginsCron ==
  ASSUME TypeOK, OriginsOK, CronStep
  PROVE OriginsOK'
<1>0. TableOK(db) /\ TableOK(disk)
  BY DEF TypeOK
<1>1. CASE CheckDeliverability
  <2>1. PICK R \in SUBSET Recipients : disk' = Schedule(disk, R) /\ db' = Schedule(db, R)
    BY <1>1 DEF CheckDeliverability
  <2>2. ASSUME NEW p \in Rows
        PROVE  /\ disk'.status[p] # "NONE" => disk.status[p] # "NONE"
               /\ db'.status[p] # "NONE" => db.status[p] # "NONE"
    BY <1>0, <2>1, StatusOf
  <2>3. UNCHANGED <<stand, own, date, batch, origin, mailed>>
    BY <1>1 DEF CheckDeliverability, sender, past
  <2> QED
    BY <2>2, <2>3 DEF OriginsOK
<1>2. CASE SelectBatch
  BY <1>2 DEF SelectBatch, OriginsOK, Due, Queued, tables, sender, past
<1>3. ASSUME NEW c \in Copies, NEW r \in Recipients, Retry(c, r) PROVE OriginsOK'
  <2>1. <<c, r>> \in batch /\ <<c, r>> \in Rows
        /\ batch' = batch \ {<<c, r>>} /\ UNCHANGED <<disk, stand, own, date>>
    BY <1>3 DEF Retry, Rows, sender
  <2>2. origin[c] \in Messages
    BY <2>1 DEF OriginsOK
  <2>3. CASE /\ UNCHANGED <<origin, mailed>>
             /\ \A p \in Rows : db'.status[p] = IF p = <<c, r>> THEN "SUCCESSFUL" ELSE db.status[p]
    BY <2>1, <2>2, <2>3 DEF OriginsOK
  <2>4. ASSUME NEW n \in Copies, NEW H \in SUBSET Recipients, Resends(c, r, n, H)
        PROVE OriginsOK'
    <3> USE MailAssumption DEF MailAssumption
    <3>1. origin[n] = NoMessage /\ n # c
      BY <2>2, <2>4 DEF Resends
    <3>2. \A k \in Copies : /\ origin'[k] = IF k = n THEN origin[c] ELSE origin[k]
                            /\ k # n => mailed'[k] = mailed[k]
      BY <2>4 DEF Resends, TypeOK
    <3>3. ASSUME NEW p \in Rows,
                 \/ db'.status[p] # "NONE" \/ disk'.status[p] # "NONE"
                 \/ p \in batch' \/ p[2] \in mailed'[p[1]]
          PROVE origin'[p[1]] \in Messages
      <4>1. p[1] \in Copies
        BY DEF Rows
      <4>2. db'.status[p] = db.status[p] \/ p = <<c, r>> \/ p[1] = n
        BY <2>4 DEF Resends
      <4>3. CASE p[1] = n
        BY <4>1, <4>3, <3>2, <2>2
      <4>4. CASE p[1] # n
        BY <2>1, <2>2, <3>2, <3>3, <4>1, <4>2, <4>4 DEF OriginsOK
      <4> QED
        BY <4>3, <4>4
    <3>4. ASSUME NEW m \in Messages, stand'[m] \in InFlight
          PROVE own'[m] \in Copies /\ origin'[own'[m]] = m
      <4>1. own[m] \in Copies /\ origin[own[m]] = m
        BY <3>4, <2>1 DEF OriginsOK
      <4> QED
        BY <4>1, <2>1, <3>1, <3>2
    <3> QED
      BY <2>1, <3>3, <3>4 DEF OriginsOK
  <2> QED
    BY <1>3, <2>3, <2>4, RetryRows
<1>4. CASE CommitRun
  BY <1>4 DEF CommitRun, OriginsOK, sender, past
<1>5. CASE RunRaises
  BY <1>5 DEF RunRaises, OriginsOK, sender, past
<1>6. \A p \in Rows : p[1] \in Copies /\ p[2] \in Recipients
  BY DEF Rows
<1> QED
  BY <1>1, <1>2, <1>3, <1>4, <1>5, <1>6 DEF CronStep

LEMMA OriginsRest ==
  ASSUME TypeOK, OriginsOK
  PROVE  /\ \A r \in Recipients : BanAddress(r) => OriginsOK'
         /\ \A c \in Copies : DeleteOld(c) => OriginsOK'
         /\ Tick => OriginsOK'
         /\ UNCHANGED vars => OriginsOK'
<1>0. TableOK(db) /\ TableOK(disk)
  BY DEF TypeOK
<1>1. ASSUME NEW r \in Recipients, BanAddress(r) PROVE OriginsOK'
  BY <1>1 DEF BanAddress, OriginsOK, tables, sender, run, past
<1>2. ASSUME NEW c \in Copies, DeleteOld(c) PROVE OriginsOK'
  <2>1. \A p \in Rows : /\ db'.status[p] # "NONE" => db.status[p] # "NONE"
                        /\ disk'.status[p] # "NONE" => disk.status[p] # "NONE"
    BY <1>0, <1>2, StatusOf DEF DeleteOld
  <2> QED
    BY <1>2, <2>1 DEF DeleteOld, OriginsOK, sender, run
<1>3. ASSUME Tick PROVE OriginsOK'
  <2>1. \A p \in Rows : db'.status[p] = db.status[p] /\ disk'.status[p] = disk.status[p]
    BY <1>0, <1>3, StatusOf DEF Tick
  <2>2. \A m \in Messages : date[m] # NoDate => date'[m] # NoDate
    BY <1>3 DEF Tick, NoDate
  <2> QED
    BY <1>3, <2>1, <2>2 DEF Tick, OriginsOK, run
<1>4. ASSUME UNCHANGED vars PROVE OriginsOK'
  BY <1>4 DEF vars, OriginsOK, tables, flags, sender, run, past, bounds
<1> QED
  BY <1>1, <1>2, <1>3, <1>4

----------------------------------------------------------------------------
(* The constraint unique_failed_enqueued.                                  *)

UniqueProbes(t) ==
    \A p, q \in Rows :
        p[2] = q[2] /\ t.status[p] = "ENQUEUED" /\ t.status[q] = "ENQUEUED" => p = q

OneProbe == UniqueProbes(db) /\ UniqueProbes(disk)

LEMMA RowsAreProbes ==
  ASSUME NEW t, NEW p \in Rows, t.status[p] = "ENQUEUED"
  PROVE Probed(t, p[2])
BY DEF Probed, Rows

LEMMA ProbesEnqueue ==
  ASSUME TypeOK, OneProbe, NEW c \in Copies, NEW r \in Recipients, NEW d \in Nat,
         Enqueue(c, r, d)
  PROVE OneProbe'
<1>1. IndexIsFree(r)
  BY DEF Enqueue
<1>2. NewStatus(disk, r) = "ENQUEUED" => ~Probed(disk, r) /\ ~Probed(db, r)
  BY <1>1 DEF NewStatus, IndexIsFree
<1>3. ASSUME NEW p \in Rows, NEW q \in Rows, p[2] = q[2],
             db'.status[p] = "ENQUEUED" /\ db'.status[q] = "ENQUEUED"
      PROVE p = q
  BY <1>2, <1>3, EnqueueAdds, RowsAreProbes DEF OneProbe, UniqueProbes
<1>4. ASSUME NEW p \in Rows, NEW q \in Rows, p[2] = q[2],
             disk'.status[p] = "ENQUEUED" /\ disk'.status[q] = "ENQUEUED"
      PROVE p = q
  BY <1>2, <1>4, EnqueueAdds, RowsAreProbes DEF OneProbe, UniqueProbes
<1> QED
  BY <1>3, <1>4 DEF OneProbe, UniqueProbes

\* A step that makes no row a probe.
LEMMA FewerProbes ==
  ASSUME OneProbe,
         \A p \in Rows : /\ db'.status[p] = "ENQUEUED" => db.status[p] = "ENQUEUED"
                         /\ disk'.status[p] = "ENQUEUED" => disk.status[p] = "ENQUEUED"
  PROVE OneProbe'
BY DEF OneProbe, UniqueProbes

LEMMA ProbesStep ==
  ASSUME TypeOK, OriginsOK, OneProbe, [Next]_vars
  PROVE OneProbe'
<1>0. TableOK(db) /\ TableOK(disk)
  BY DEF TypeOK
<1>1. CASE UNCHANGED tables
  BY <1>1, FewerProbes DEF tables
<1>2. ASSUME NEW m \in Messages, SendStep(m) PROVE OneProbe'
  <2>1. CASE CheckBackoff(m)
    <3>1. PICK c \in Copies : disk' = WithCopy(disk, c) /\ db' = WithCopy(db, c)
      BY <2>1 DEF CheckBackoff
    <3> QED
      BY <1>0, <3>1, StatusOf, FewerProbes
  <2>2. CASE InsertRow(m)
    <3>1. own[m] \in Copies /\ date[m][1] \in Recipients /\ date[m][2] \in Nat
      BY <2>2 DEF InsertRow, TypeOK, OriginsOK, InFlight
    <3> QED
      BY <2>2, <3>1, ProbesEnqueue DEF InsertRow
  <2>3. CASE UNCHANGED tables
    BY <2>3, <1>1
  <2> QED
    BY <1>2, <2>1, <2>2, <2>3 DEF SendStep, CheckBans, ReadDate, Deliver, SendRaises
<1>3. ASSUME NEW c \in Copies, NEW r \in Recipients, SoftBounce(c, r) PROVE OneProbe'
  <2>1. get_next_retry_date(r)' \in Nat
    BY <1>3, TypeBounce, NextDateIsNat DEF TypeOK, FlagsTyped
  <2> QED
    BY <1>1, <1>3, <2>1, ProbesEnqueue DEF SoftBounce
<1>4. CASE CheckDeliverability
  <2>1. PICK R \in SUBSET Recipients : disk' = Schedule(disk, R) /\ db' = Schedule(db, R)
    BY <1>4 DEF CheckDeliverability
  <2> QED
    BY <1>0, <2>1, StatusOf, FewerProbes
<1>5. ASSUME NEW c \in Copies, NEW r \in Recipients, Retry(c, r) PROVE OneProbe'
  <2>1. <<c, r>> \in Rows /\ UNCHANGED disk
    BY <1>5 DEF Retry, Rows
  <2>2. CASE \A p \in Rows : db'.status[p] = IF p = <<c, r>> THEN "SUCCESSFUL" ELSE db.status[p]
    BY <2>1, <2>2, FewerProbes
  <2>3. ASSUME NEW n \in Copies, NEW H \in SUBSET Recipients, Resends(c, r, n, H)
        PROVE OneProbe'
    <3>1. ASSUME NEW p \in Rows, NEW q \in Rows, p[2] = q[2],
                 db'.status[p] = "ENQUEUED" /\ db'.status[q] = "ENQUEUED"
          PROVE p = q
      <4>1. /\ p = <<p[1], p[2]>> /\ q = <<q[1], p[2]>>
            /\ p[1] \in Copies /\ q[1] \in Copies
        BY <3>1 DEF Rows
      <4>2. p # <<c, r>> /\ q # <<c, r>>
        BY <2>3, <3>1 DEF Resends
      <4>3. \/ db.status[p] = "ENQUEUED"
            \/ p[1] = n /\ \A k \in Copies :
                              db.status[<<k, p[2]>>] = "ENQUEUED" => <<k, p[2]>> = <<c, r>>
        BY <2>3, <3>1, <4>2 DEF Resends
      <4>4. \/ db.status[q] = "ENQUEUED"
            \/ q[1] = n /\ \A k \in Copies :
                              db.status[<<k, p[2]>>] = "ENQUEUED" => <<k, p[2]>> = <<c, r>>
        BY <2>3, <3>1, <4>2 DEF Resends
      <4>5. CASE db.status[p] = "ENQUEUED" /\ db.status[q] = "ENQUEUED"
        BY <3>1, <4>5 DEF OneProbe, UniqueProbes
      <4>6. CASE p[1] = n /\ q[1] = n
        BY <4>1, <4>6
      <4> QED
        BY <4>1, <4>2, <4>3, <4>4, <4>5, <4>6
    <3>2. UniqueProbes(db)'
      BY <3>1 DEF UniqueProbes
    <3> QED
      BY <2>1, <3>2 DEF OneProbe, UniqueProbes
  <2> QED
    BY <1>5, <2>2, <2>3, RetryRows
<1>6. CASE CommitRun \/ RunRaises
  BY <1>6 DEF CommitRun, RunRaises, OneProbe, UniqueProbes
<1>7. ASSUME NEW c \in Copies, DeleteOld(c) PROVE OneProbe'
  BY <1>0, <1>7, StatusOf, FewerProbes DEF DeleteOld
<1>8. CASE Tick
  BY <1>0, <1>8, StatusOf, FewerProbes DEF Tick
<1>9. \A p \in Rows : p[1] \in Copies /\ p[2] \in Recipients
  BY DEF Rows
<1> QED
  BY <1>1, <1>2, <1>3, <1>4, <1>5, <1>6, <1>7, <1>8, <1>9
     DEF Next, CronStep, SelectBatch, BanAddress, vars

----------------------------------------------------------------------------
(* Who watches the rows that wait.                                         *)

Watched(r) == banned[r] # "no" \/ (counter[r] # NoFlag /\ ~checked[r])

CheckedOK == \A r \in Recipients : under_waiting_period(r) => ~checked[r]

DateOK == \A m \in Messages : stand[m] = "insert" => date[m][1] \in hold[m]

\* The flag that made a message wait for an address is still there, within the
\* hour it takes to send it.
HoldOK ==
    \A m \in Messages : stand[m] \in InFlight => \A r \in hold[m] :
        /\ Watched(r)
        /\ banned[r] # "no" \/ wait[r] >= (IF late[m] THEN 0 ELSE 1)

WatchOK == WaitingIsWatched /\ CheckedOK /\ DateOK /\ HoldOK

\* After a bounce was handled the flag of the address is new, or in its period,
\* or the address is banned.
LEMMA BounceWatches ==
  ASSUME FlagsTyped, CheckedOK, NEW r \in Recipients, Handled(r) \/ BanAfterRetries(r)
  PROVE  /\ \A q \in Recipients : q # r =>
                /\ counter'[q] = counter[q] /\ wait'[q] = wait[q]
                /\ checked'[q] = checked[q] /\ banned'[q] = banned[q]
         /\ Watched(r)'
         /\ banned'[r] # "no" \/ wait'[r] >= 1
         /\ CheckedOK'
<1> USE WindowAssumption DEF WindowAssumption, SetFlag, Watched
<1>1. ASSUME NEW n \in 0..MAX_RETRY_COUNTER, NEW w \in Nat \ {0}, NEW e,
             SetFlag(r, n, w, FALSE, e), UNCHANGED banned
      PROVE  /\ \A q \in Recipients : q # r =>
                    /\ counter'[q] = counter[q] /\ wait'[q] = wait[q]
                    /\ checked'[q] = checked[q] /\ banned'[q] = banned[q]
             /\ Watched(r)'
             /\ banned'[r] # "no" \/ wait'[r] >= 1
             /\ CheckedOK'
  <2>1. counter'[r] # NoFlag /\ wait'[r] >= 1
    BY <1>1 DEF FlagsTyped, NoFlag
  <2>2. ~checked'[r]
    BY <1>1 DEF FlagsTyped
  <2>3. \A q \in Recipients : q # r =>
            /\ counter'[q] = counter[q] /\ wait'[q] = wait[q]
            /\ checked'[q] = checked[q] /\ banned'[q] = banned[q]
    BY <1>1 DEF FlagsTyped
  <2>4. CheckedOK'
    BY <2>2, <2>3, Zenon DEF CheckedOK, under_waiting_period
  <2> QED
    BY <2>1, <2>2, <2>3, <2>4
<1>2. CASE StartBackoff(r) \/ RestartBackoff(r)
  <2>1. SetFlag(r, 0, INITIAL_HOURS, FALSE, 0) /\ UNCHANGED banned
    BY <1>2 DEF StartBackoff, RestartBackoff
  <2>2. INITIAL_HOURS \in Nat \ {0} /\ 0 \in 0..MAX_RETRY_COUNTER
    BY DEF INITIAL_HOURS
  <2> HIDE DEF SetFlag, Watched
  <2> QED
    BY <1>1, <2>1, <2>2
<1>3. CASE IgnoreBounce(r)
  <2>1. counter[r] # NoFlag /\ wait[r] > 0 /\ UNCHANGED flags
    BY <1>3 DEF IgnoreBounce, under_waiting_period
  <2>2. wait'[r] >= 1
    BY <2>1 DEF flags, FlagsTyped
  <2>3. Watched(r)' /\ CheckedOK'
    BY <1>3, <2>1, Zenon DEF CheckedOK, under_waiting_period, flags, IgnoreBounce
  <2> QED
    BY <2>1, <2>2, <2>3 DEF flags
<1>4. CASE ExtendBackoff(r)
  <2>1. counter[r] \in 0..MAX_RETRY_COUNTER /\ counter[r] < MAX_RETRY_COUNTER
    BY <1>4 DEF ExtendBackoff, PeriodIsOver, FlagsTyped
  <2>2. counter[r] + 1 + 1 \in 0..(MAX_RETRY_COUNTER + 2) /\ counter[r] + 1 \in 0..MAX_RETRY_COUNTER
    BY <2>1
  <2>3. Period(counter[r] + 1) \in Nat \ {0}
    BY <2>2, PowersAreNat DEF Period, INITIAL_HOURS
  <2>4. SetFlag(r, counter[r] + 1, Period(counter[r] + 1), FALSE, since[r]) /\ UNCHANGED banned
    BY <1>4 DEF ExtendBackoff
  <2> HIDE DEF SetFlag
  <2> QED
    BY <1>1, <2>2, <2>3, <2>4
<1>5. CASE BanAfterRetries(r)
  <2>1. /\ SetFlag(r, NoFlag, 0, FALSE, 0)
        /\ banned' = [banned EXCEPT ![r] = IF @ = "no" THEN "max_retry" ELSE @]
    BY <1>5 DEF BanAfterRetries
  <2>2. banned'[r] # "no" /\ ~checked'[r]
    BY <2>1 DEF FlagsTyped
  <2>3. \A q \in Recipients : q # r =>
            /\ counter'[q] = counter[q] /\ wait'[q] = wait[q]
            /\ checked'[q] = checked[q] /\ banned'[q] = banned[q]
    BY <2>1 DEF FlagsTyped
  <2>4. CheckedOK'
    BY <2>2, <2>3, Zenon DEF CheckedOK, under_waiting_period
  <2> QED
    BY <2>2, <2>3, <2>4
<1> QED
  BY <1>2, <1>3, <1>4, <1>5 DEF Handled

\* A step that leaves the flags alone and adds no row that waits unwatched.
LEMMA WatchFrame ==
  ASSUME WatchOK, UNCHANGED flags,
         \A p \in Rows : db'.status[p] = "WAITING" \/ disk'.status[p] = "WAITING" =>
             db.status[p] = "WAITING" \/ disk.status[p] = "WAITING" \/ Watched(p[2])
  PROVE WaitingIsWatched' /\ CheckedOK'
<1>1. CheckedOK'
  BY Zenon DEF WatchOK, CheckedOK, under_waiting_period, flags
<1>2. \A r \in Recipients : Watched(r)' = Watched(r)
  BY Zenon DEF Watched, flags
<1>3. \A p \in Rows : p[2] \in Recipients
  BY DEF Rows
<1>4. ASSUME NEW p \in Rows, db.status[p] = "WAITING" \/ disk.status[p] = "WAITING"
      PROVE Watched(p[2])
  BY <1>4 DEF WatchOK, WaitingIsWatched, Watched
<1>5. ASSUME NEW p \in Rows, db'.status[p] = "WAITING" \/ disk'.status[p] = "WAITING"
      PROVE Watched(p[2])'
  BY <1>2, <1>3, <1>4, <1>5
<1> QED
  BY <1>1, <1>5 DEF WaitingIsWatched, Watched

LEMMA WatchSend ==
  ASSUME TypeOK, OriginsOK, WatchOK, NEW m \in Messages, SendStep(m)
  PROVE WatchOK'
<1> USE DEF InFlight
<1>0. TableOK(db) /\ TableOK(disk) /\ UNCHANGED <<flags, late>>
  BY DEF TypeOK, SendStep, CheckBans, CheckBackoff, ReadDate, InsertRow, Deliver, SendRaises
<1>a. \A r \in Recipients : Watched(r)' = Watched(r) /\ banned'[r] = banned[r] /\ wait'[r] = wait[r]
  BY <1>0, Zenon DEF Watched, flags
\* Others' messages are left alone.
<1>b. ASSUME NEW k \in Messages, k # m
      PROVE stand'[k] = stand[k] /\ hold'[k] = hold[k] /\ date'[k] = date[k]
  BY <1>b DEF TypeOK, SendStep, CheckBans, CheckBackoff, ReadDate, InsertRow, Deliver, SendRaises
<1>1. \A k \in Messages : hold[k] \in SUBSET Recipients
  BY DEF TypeOK
<1>2. WaitingIsWatched' /\ CheckedOK'
  <2>1. ASSUME NEW p \in Rows, db'.status[p] = "WAITING" \/ disk'.status[p] = "WAITING"
        PROVE db.status[p] = "WAITING" \/ disk.status[p] = "WAITING" \/ Watched(p[2])
    <3>1. CASE UNCHANGED tables
      BY <2>1, <3>1 DEF tables
    <3>2. CASE CheckBackoff(m)
      <4>1. PICK c \in Copies : disk' = WithCopy(disk, c) /\ db' = WithCopy(db, c)
        BY <3>2 DEF CheckBackoff
      <4> QED
        BY <1>0, <2>1, <4>1, StatusOf
    <3>3. CASE InsertRow(m)
      <4>1. own[m] \in Copies /\ date[m][1] \in Recipients /\ date[m][2] \in Nat
        BY <3>3 DEF InsertRow, TypeOK, OriginsOK
      <4>2. stand[m] = "insert" /\ Enqueue(own[m], date[m][1], date[m][2])
        BY <3>3 DEF InsertRow
      <4>3. Watched(date[m][1])
        BY <4>2 DEF WatchOK, DateOK, HoldOK
      <4>4. \/ db'.status[p] = db.status[p] /\ disk'.status[p] = disk.status[p]
            \/ p = <<own[m], date[m][1]>>
        BY <4>1, <4>2, EnqueueAdds
      <4> QED
        BY <2>1, <4>3, <4>4
    <3> QED
      BY <3>1, <3>2, <3>3 DEF SendStep, CheckBans, ReadDate, Deliver, SendRaises
  <2> QED
    BY <1>0, <2>1, WatchFrame
<1>3. DateOK'
  <2>1. stand'[m] = "insert" => date'[m][1] \in hold'[m]
    <3>1. CASE \E r \in Recipients : ReadDate(m, r)
      BY <3>1 DEF ReadDate, TypeOK
    <3>2. CASE ~\E r \in Recipients : ReadDate(m, r)
      <4>1. stand'[m] # "insert"
        BY <3>2 DEF TypeOK, SendStep, CheckBans, CheckBackoff, InsertRow, Deliver, SendRaises
      <4> QED
        BY <4>1
    <3> QED
      BY <3>1, <3>2
  <2> QED
    BY <1>b, <2>1 DEF DateOK, WatchOK
<1>4. HoldOK'
  <2>1. ASSUME NEW r \in hold'[m], stand'[m] \in InFlight
        PROVE Watched(r) /\ (banned[r] # "no" \/ wait[r] >= (IF late[m] THEN 0 ELSE 1))
    <3>1. CASE CheckBackoff(m)
      <4>1. r \in BackingOff(open[m]) /\ r \in Recipients
        BY <2>1, <3>1 DEF CheckBackoff, TypeOK, BackingOff
      <4>2. counter[r] # NoFlag /\ wait[r] > 0 /\ under_waiting_period(r)
        BY <4>1 DEF BackingOff, under_waiting_period
      <4>3. ~checked[r]
        BY <4>1, <4>2 DEF WatchOK, CheckedOK
      <4>4. Watched(r)
        BY <4>2, <4>3 DEF Watched
      <4>5. wait[r] >= (IF late[m] THEN 0 ELSE 1)
        BY <4>1, <4>2 DEF TypeOK
      <4> QED
        BY <4>4, <4>5
    <3>2. CASE ~CheckBackoff(m)
      <4>1. r \in hold[m] /\ stand[m] \in InFlight
        BY <2>1, <3>2
           DEF TypeOK, SendStep, CheckBans, ReadDate, InsertRow, Deliver, SendRaises
      <4> QED
        BY <4>1 DEF WatchOK, HoldOK
    <3> QED
      BY <3>1, <3>2
  <2>2. \A k \in Messages : hold'[k] \in SUBSET Recipients
    BY TypeSend DEF TypeOK
  <2>3. ASSUME NEW k \in Messages, stand'[k] \in InFlight, NEW r \in hold'[k]
        PROVE Watched(r)' /\ (banned'[r] # "no" \/ wait'[r] >= (IF late'[k] THEN 0 ELSE 1))
    <3>1. late'[k] = late[k] /\ r \in Recipients
      BY <1>0, <2>2, <2>3
    <3>2. Watched(r) /\ (banned[r] # "no" \/ wait[r] >= (IF late[k] THEN 0 ELSE 1))
      BY <1>b, <2>1, <2>3 DEF WatchOK, HoldOK
    <3> QED
      BY <1>a, <3>1, <3>2
  <2> QED
    BY <2>3 DEF HoldOK
<1> QED
  BY <1>2, <1>3, <1>4 DEF WatchOK

LEMMA WatchBounce ==
  ASSUME TypeOK, WatchOK, NEW c \in Copies, NEW r \in Recipients, SoftBounce(c, r)
  PROVE WatchOK'
<1>1. Handled(r) \/ BanAfterRetries(r)
  BY DEF SoftBounce, Handled
<1>2. FlagsTyped /\ FlagsTyped'
  BY <1>1, FlagsStayTyped DEF TypeOK, FlagsTyped
<1>3. /\ \A q \in Recipients : q # r =>
            /\ counter'[q] = counter[q] /\ wait'[q] = wait[q]
            /\ checked'[q] = checked[q] /\ banned'[q] = banned[q]
      /\ Watched(r)'
      /\ banned'[r] # "no" \/ wait'[r] >= 1
      /\ CheckedOK'
  BY <1>1, <1>2, BounceWatches DEF WatchOK
<1>4. \A q \in Recipients : q # r => (Watched(q)' = Watched(q))
  BY <1>3, Zenon DEF Watched
<1>5. UNCHANGED <<stand, hold, date, late>>
  BY DEF SoftBounce, sender
<1>6. ASSUME NEW p \in Rows, db'.status[p] = "WAITING" \/ disk'.status[p] = "WAITING"
      PROVE Watched(p[2])'
  <2>1. CASE p[2] = r
    BY <1>3, <2>1
  <2>2. CASE p[2] # r
    <3>1. p[2] \in Recipients /\ p # <<c, r>>
      BY <2>2 DEF Rows
    <3>2. db'.status[p] = db.status[p] /\ disk'.status[p] = disk.status[p]
      <4>1. CASE UNCHANGED tables
        BY <4>1 DEF tables
      <4>2. CASE Enqueue(c, r, get_next_retry_date(r)')
        BY <1>2, <3>1, <4>2, NextDateIsNat, EnqueueAdds
      <4> QED
        BY <4>1, <4>2 DEF SoftBounce
    <3>3. Watched(p[2])
      BY <1>6, <3>2 DEF WatchOK, WaitingIsWatched, Watched
    <3> QED
      BY <1>4, <2>2, <3>1, <3>3
  <2> QED
    BY <2>1, <2>2
<1>7. WaitingIsWatched'
  BY <1>6 DEF WaitingIsWatched, Watched
<1>8. DateOK'
  BY <1>5 DEF WatchOK, DateOK
<1>9. HoldOK'
  <2>1. ASSUME NEW m \in Messages, stand'[m] \in InFlight, NEW q \in hold'[m]
        PROVE Watched(q)' /\ (banned'[q] # "no" \/ wait'[q] >= (IF late'[m] THEN 0 ELSE 1))
    <3>1. q \in Recipients /\ stand[m] \in InFlight /\ q \in hold[m] /\ late'[m] = late[m]
      BY <1>5, <2>1 DEF TypeOK
    <3>2. CASE q = r
      BY <1>2, <1>3, <3>2 DEF FlagsTyped
    <3>3. CASE q # r
      <4>1. Watched(q) /\ (banned[q] # "no" \/ wait[q] >= (IF late[m] THEN 0 ELSE 1))
        BY <3>1 DEF WatchOK, HoldOK
      <4> QED
        BY <1>3, <1>4, <3>1, <3>3, <4>1
    <3> QED
      BY <3>2, <3>3
  <2> QED
    BY <2>1 DEF HoldOK
<1> QED
  BY <1>3, <1>7, <1>8, <1>9 DEF WatchOK

LEMMA WatchCheck ==
  ASSUME TypeOK, WatchOK, CheckDeliverability
  PROVE WatchOK'
<1> USE WindowAssumption DEF WindowAssumption
<1> DEFINE R == {r \in Recipients : Deliverable(r)}
<1>1. /\ checked' = [r \in Recipients |-> checked[r] \/ r \in R]
      /\ disk' = Schedule(disk, R) /\ db' = Schedule(db, R)
      /\ UNCHANGED <<counter, wait, banned, stand, hold, date, late>>
  BY DEF CheckDeliverability, sender
<1>2. \A r \in R : counter[r] # NoFlag /\ wait[r] < 0
  BY DEF Deliverable, TypeOK
<1>3. \A r \in Recipients : r \notin R => (Watched(r)' = Watched(r))
  <2> HIDE DEF R
  <2> QED
    BY <1>1, Zenon DEF Watched
<1>4. ASSUME NEW p \in Rows, db'.status[p] = "WAITING" \/ disk'.status[p] = "WAITING"
      PROVE Watched(p[2])'
  <2>1. TableOK(db) /\ TableOK(disk) /\ R \in SUBSET Recipients
    BY DEF TypeOK
  <2> HIDE DEF R
  <2>2. p[2] \notin R /\ (db.status[p] = "WAITING" \/ disk.status[p] = "WAITING")
    BY <1>1, <1>4, <2>1, StatusOf
  <2>3. Watched(p[2]) /\ p[2] \in Recipients
    BY <2>2 DEF WatchOK, WaitingIsWatched, Watched, Rows
  <2> QED
    BY <1>3, <2>2, <2>3
<1>5. WaitingIsWatched'
  BY <1>4 DEF WaitingIsWatched, Watched
<1>6. CheckedOK'
  <2>1. ASSUME NEW r \in Recipients, under_waiting_period(r)' PROVE ~checked'[r]
    <3>1. wait[r] > 0 /\ counter[r] # NoFlag
      BY <1>1, <2>1 DEF under_waiting_period
    <3>2. r \notin R
      BY <1>2, <3>1 DEF TypeOK
    <3>3. ~checked[r]
      BY <3>1 DEF WatchOK, CheckedOK, under_waiting_period
    <3> HIDE DEF R
    <3> QED
      BY <1>1, <3>2, <3>3, Zenon
  <2> QED
    BY <2>1 DEF CheckedOK
<1>7. DateOK'
  BY <1>1 DEF WatchOK, DateOK
<1>8. HoldOK'
  <2>1. ASSUME NEW m \in Messages, stand'[m] \in InFlight, NEW q \in hold'[m]
        PROVE Watched(q)' /\ (banned'[q] # "no" \/ wait'[q] >= (IF late'[m] THEN 0 ELSE 1))
    <3>1. q \in Recipients
      BY <1>1, <2>1 DEF TypeOK
    <3>2. Watched(q) /\ (banned[q] # "no" \/ wait[q] >= (IF late[m] THEN 0 ELSE 1))
      BY <1>1, <2>1 DEF WatchOK, HoldOK
    <3>3. banned[q] # "no" \/ q \notin R
      BY <1>2, <3>1, <3>2 DEF TypeOK
    <3>4. Watched(q)'
      BY <1>1, <1>3, <3>1, <3>2, <3>3 DEF Watched
    <3> QED
      BY <1>1, <3>2, <3>4
  <2> QED
    BY <2>1 DEF HoldOK
<1> QED
  BY <1>5, <1>6, <1>7, <1>8 DEF WatchOK

LEMMA WatchTick ==
  ASSUME TypeOK, WatchOK, Tick
  PROVE WatchOK'
<1> USE WindowAssumption DEF WindowAssumption
<1>1. UNCHANGED <<counter, checked, banned, stand, hold>>
  BY DEF Tick
<1>2. \A r \in Recipients : Watched(r)' = Watched(r)
  BY <1>1, Zenon DEF Watched
<1>3. ASSUME NEW r \in Recipients, counter[r] # NoFlag
      PROVE /\ wait'[r] > 0 => wait[r] > 0
            /\ wait[r] >= 1 => wait'[r] >= 0
  BY <1>3 DEF Tick, TypeOK, Larger
<1>4. WaitingIsWatched'
  <2>1. \A p \in Rows : db'.status[p] = db.status[p] /\ disk'.status[p] = disk.status[p]
    BY StatusOf DEF Tick, TypeOK
  <2>2. \A p \in Rows : p[2] \in Recipients
    BY DEF Rows
  <2>3. ASSUME NEW p \in Rows, db'.status[p] = "WAITING" \/ disk'.status[p] = "WAITING"
        PROVE Watched(p[2])'
    BY <1>2, <2>1, <2>2, <2>3 DEF WatchOK, WaitingIsWatched, Watched
  <2> QED
    BY <2>3 DEF WaitingIsWatched, Watched
<1>5. CheckedOK'
  BY <1>1, <1>3 DEF WatchOK, CheckedOK, under_waiting_period
<1>6. DateOK'
  <2>1. ASSUME NEW m \in Messages, stand'[m] = "insert" PROVE date'[m][1] \in hold'[m]
    <3>1. date[m][1] \in hold[m] /\ stand[m] = "insert"
      BY <1>1, <2>1 DEF WatchOK, DateOK
    <3>2. date'[m] = IF date[m] = NoDate THEN NoDate
                     ELSE <<date[m][1], Larger(date[m][2] - 1, 0)>>
      BY DEF Tick
    <3> QED
      BY <1>1, <3>1, <3>2
  <2> QED
    BY <2>1 DEF DateOK
<1>7. HoldOK'
  <2>1. ASSUME NEW m \in Messages, stand'[m] \in InFlight, NEW q \in hold'[m]
        PROVE Watched(q)' /\ (banned'[q] # "no" \/ wait'[q] >= (IF late'[m] THEN 0 ELSE 1))
    <3>1. q \in Recipients /\ stand[m] \in InFlight /\ q \in hold[m] /\ ~late[m] /\ late'[m]
      BY <1>1, <2>1 DEF TypeOK, Tick
    <3>2. Watched(q) /\ (banned[q] # "no" \/ wait[q] >= 1)
      BY <3>1 DEF WatchOK, HoldOK
    <3>3. banned[q] # "no" \/ wait'[q] >= 0
      BY <1>3, <3>1, <3>2 DEF Watched
    <3> QED
      BY <1>1, <1>2, <3>1, <3>2, <3>3
  <2> QED
    BY <2>1 DEF HoldOK
<1> QED
  BY <1>4, <1>5, <1>6, <1>7 DEF WatchOK

LEMMA WatchStep ==
  ASSUME TypeOK, OriginsOK, WatchOK, [Next]_vars
  PROVE WatchOK'
<1>0. TableOK(db) /\ TableOK(disk)
  BY DEF TypeOK
\* The steps that change neither the flags nor the senders.
<1>1. ASSUME UNCHANGED <<flags, sender>>,
             \A p \in Rows : db'.status[p] = "WAITING" \/ disk'.status[p] = "WAITING" =>
                 db.status[p] = "WAITING" \/ disk.status[p] = "WAITING" \/ Watched(p[2])
      PROVE WatchOK'
  <2>1. WaitingIsWatched' /\ CheckedOK'
    BY <1>1, WatchFrame
  <2>2. DateOK' /\ HoldOK'
    BY <1>1 DEF WatchOK, DateOK, HoldOK, Watched, flags, sender
  <2> QED
    BY <2>1, <2>2 DEF WatchOK
<1>2. ASSUME NEW m \in Messages, SendStep(m) PROVE WatchOK'
  BY <1>2, WatchSend
<1>3. ASSUME NEW c \in Copies, NEW r \in Recipients, SoftBounce(c, r) PROVE WatchOK'
  BY <1>3, WatchBounce
<1>4. ASSUME NEW r \in Recipients, BanAddress(r) PROVE WatchOK'
  <2>1. /\ banned' = [banned EXCEPT ![r] = "hard"]
        /\ UNCHANGED <<tables, counter, wait, checked, sender>>
    BY <1>4 DEF BanAddress
  <2>2. \A q \in Recipients : banned[q] # "no" => banned'[q] # "no"
    BY <2>1 DEF TypeOK
  <2>3. \A q \in Recipients : Watched(q) => Watched(q)'
    BY <2>1, <2>2, Zenon DEF Watched
  <2>4. \A p \in Rows : p[2] \in Recipients
    BY DEF Rows
  <2>5. WaitingIsWatched'
    BY <2>1, <2>3, <2>4 DEF WatchOK, WaitingIsWatched, Watched, tables
  <2>6. CheckedOK' /\ DateOK'
    BY <2>1 DEF WatchOK, CheckedOK, DateOK, under_waiting_period, sender
  <2>7. \A m \in Messages : hold[m] \in SUBSET Recipients
    BY DEF TypeOK
  <2>8. HoldOK'
    BY <2>1, <2>2, <2>3, <2>7 DEF WatchOK, HoldOK, sender
  <2> QED
    BY <2>5, <2>6, <2>8 DEF WatchOK
<1>5. ASSUME NEW c \in Copies, NEW r \in Recipients, Retry(c, r) PROVE WatchOK'
  <2>1. UNCHANGED <<disk, flags, sender>>
    BY <1>5 DEF Retry
  <2>2. ASSUME NEW q \in Recipients, under_waiting_period(q) PROVE Watched(q)
    BY <2>2 DEF WatchOK, CheckedOK, Watched, under_waiting_period
  <2>3. ASSUME NEW p \in Rows, db'.status[p] = "WAITING"
        PROVE db.status[p] = "WAITING" \/ Watched(p[2])
    <3>1. CASE db'.status[p] = IF p = <<c, r>> THEN "SUCCESSFUL" ELSE db.status[p]
      BY <2>3, <3>1
    <3>2. ASSUME NEW n \in Copies, NEW H \in SUBSET Recipients, Resends(c, r, n, H)
          PROVE db.status[p] = "WAITING" \/ Watched(p[2])
      BY <2>2, <2>3, <3>2 DEF Resends
    <3> QED
      BY <1>5, <3>1, <3>2, RetryRows
  <2> QED
    BY <1>1, <2>1, <2>3
<1>6. ASSUME NEW c \in Copies, DeleteOld(c) PROVE WatchOK'
  <2>1. UNCHANGED <<flags, sender>> /\ db' = Without(db, c) /\ disk' = Without(disk, c)
    BY <1>6 DEF DeleteOld
  <2> QED
    BY <1>0, <1>1, <2>1, StatusOf
<1>7. CASE SelectBatch \/ CommitRun \/ RunRaises
  BY <1>1, <1>7 DEF SelectBatch, CommitRun, RunRaises, tables
<1>8. CASE CheckDeliverability
  BY <1>8, WatchCheck
<1>9. CASE Tick
  BY <1>9, WatchTick
<1>10. CASE UNCHANGED vars
  BY <1>1, <1>10 DEF vars, tables
<1>11. \A p \in Rows : p[1] \in Copies /\ p[2] \in Recipients
  BY DEF Rows
<1> QED
  BY <1>2, <1>3, <1>4, <1>5, <1>6, <1>7, <1>8, <1>9, <1>10, <1>11 DEF Next, CronStep

----------------------------------------------------------------------------
(* How long a backoff lasts.                                               *)

\* The first n + 1 waiting periods together.
Sum(n) == 2 ^ (n + 2) - 2

\* A flag with counter n: the periods up to the n-th one have passed but for
\* what is left of it.
PeriodOK ==
    \A r \in Recipients : counter[r] # NoFlag =>
        since[r] >= WholePeriod \/ since[r] + wait[r] >= Sum(counter[r])

LEMMA SumsOfPeriods ==
  /\ Sum(0) = 2 /\ Sum(MAX_RETRY_COUNTER) = WholePeriod
  /\ \A n \in 0..MAX_RETRY_COUNTER : Sum(n) \in Nat
  /\ \A n \in 0..(MAX_RETRY_COUNTER - 1) : Sum(n + 1) = Sum(n) + Period(n + 1)
<1> USE WindowAssumption, PowersAssumption
    DEF WindowAssumption, PowersAssumption, Sum, Period, INITIAL_HOURS
<1>1. Sum(0) = 2
  <2>1. 0 \in 0..(MAX_RETRY_COUNTER + 1) /\ 1 \in 0..(MAX_RETRY_COUNTER + 1)
        /\ 0 + 1 = 1 /\ 1 + 1 = 2 /\ 0 + 2 = 2
    OBVIOUS
  <2>2. 2 ^ 1 = 2 * 2 ^ 0 /\ 2 ^ 2 = 2 * 2 ^ 1
    BY <2>1
  <2> QED
    BY <2>1, <2>2
<1>2. Sum(MAX_RETRY_COUNTER) = WholePeriod
  BY DEF WholePeriod
<1>3. ASSUME NEW n \in 0..MAX_RETRY_COUNTER
      PROVE 2 ^ (n + 2) = 2 * 2 ^ (n + 1) /\ 2 ^ (n + 1) \in Nat \ {0}
  <2>1. n + 1 \in 0..(MAX_RETRY_COUNTER + 1) /\ n + 1 + 1 = n + 2
    OBVIOUS
  <2> QED
    BY <2>1
<1>4. ASSUME NEW n \in 0..(MAX_RETRY_COUNTER - 1)
      PROVE Sum(n + 1) = Sum(n) + Period(n + 1)
  <2>1. n + 1 \in 0..MAX_RETRY_COUNTER /\ n \in 0..MAX_RETRY_COUNTER
        /\ n + 1 + 1 = n + 2 /\ n + 1 + 2 = n + 3
    OBVIOUS
  <2>2. 2 ^ (n + 3) = 2 * 2 ^ (n + 2) /\ 2 ^ (n + 2) \in Nat
    BY <1>3, <2>1
  <2> QED
    BY <2>1, <2>2
<1>5. \A n \in 0..MAX_RETRY_COUNTER : Sum(n) \in Nat
  BY <1>3
<1> QED
  BY <1>1, <1>2, <1>4, <1>5

\* What a soft bounce does to the times of its address.
LEMMA PeriodBounce ==
  ASSUME FlagsTyped, PeriodOK, NEW r \in Recipients, Handled(r) \/ BanAfterRetries(r)
  PROVE  /\ PeriodOK'
         /\ \A q \in Recipients :
              counter[q] # NoFlag /\ counter'[q] = NoFlag => since[q] >= WholePeriod
<1> USE WindowAssumption DEF WindowAssumption, NoFlag
<1>0. WholePeriod \in Nat
  BY PowersAreNat
<1>1. ASSUME NEW n \in 0..MAX_RETRY_COUNTER, NEW w \in Int, NEW e \in Nat,
             SetFlag(r, n, w, FALSE, e),
             e >= WholePeriod \/ e + w >= Sum(n)
      PROVE  /\ PeriodOK'
             /\ \A q \in Recipients :
                  counter[q] # NoFlag /\ counter'[q] = NoFlag => since[q] >= WholePeriod
  <2>1. /\ counter' = [counter EXCEPT ![r] = n]
        /\ wait' = [wait EXCEPT ![r] = w]
        /\ since' = [since EXCEPT ![r] = e]
    BY <1>1 DEF SetFlag
  <2> QED
    BY <1>1, <2>1 DEF PeriodOK, FlagsTyped
<1>2. CASE StartBackoff(r) \/ RestartBackoff(r)
  <2>1. SetFlag(r, 0, INITIAL_HOURS, FALSE, 0)
    BY <1>2 DEF StartBackoff, RestartBackoff
  <2>2. 0 + INITIAL_HOURS >= Sum(0) /\ INITIAL_HOURS \in Int /\ 0 \in 0..MAX_RETRY_COUNTER
    BY SumsOfPeriods DEF INITIAL_HOURS
  <2> QED
    BY <1>1, <2>1, <2>2
<1>3. CASE IgnoreBounce(r)
  BY <1>3 DEF IgnoreBounce, PeriodOK, flags
<1>4. CASE ExtendBackoff(r)
  <2> DEFINE n == counter[r]
  <2>1. n \in 0..(MAX_RETRY_COUNTER - 1) /\ wait[r] <= 0 /\ wait[r] \in Int /\ since[r] \in Nat
    BY <1>4 DEF ExtendBackoff, PeriodIsOver, FlagsTyped
  <2>2. SetFlag(r, n + 1, Period(n + 1), FALSE, since[r])
    BY <1>4 DEF ExtendBackoff
  <2>3. since[r] >= WholePeriod \/ since[r] >= Sum(n)
    BY <2>1, SumsOfPeriods DEF PeriodOK
  <2>4. Sum(n + 1) = Sum(n) + Period(n + 1) /\ Sum(n) \in Nat /\ Sum(n + 1) \in Nat
    BY <2>1, SumsOfPeriods
  <2>5. n + 1 + 1 \in 0..(MAX_RETRY_COUNTER + 2)
    BY <2>1
  <2>6. Period(n + 1) \in Nat
    BY <2>5, PowersAreNat DEF Period, INITIAL_HOURS
  <2>7. /\ n + 1 \in 0..MAX_RETRY_COUNTER /\ Period(n + 1) \in Int /\ since[r] \in Nat
        /\ since[r] >= WholePeriod \/ since[r] + Period(n + 1) >= Sum(n + 1)
    BY <2>1, <2>3, <2>4, <2>6
  <2> HIDE DEF n
  <2> QED
    BY <1>1, <2>2, <2>7
<1>5. CASE BanAfterRetries(r)
  <2>1. /\ counter[r] = MAX_RETRY_COUNTER /\ wait[r] <= 0
        /\ counter' = [counter EXCEPT ![r] = NoFlag]
        /\ wait' = [wait EXCEPT ![r] = 0]
        /\ since' = [since EXCEPT ![r] = 0]
    BY <1>5 DEF BanAfterRetries, PeriodIsOver, SetFlag, FlagsTyped
  <2>2. since[r] >= WholePeriod
    BY <2>1, SumsOfPeriods DEF PeriodOK, FlagsTyped
  <2> QED
    BY <2>1, <2>2 DEF PeriodOK, FlagsTyped
<1> QED
  BY <1>2, <1>3, <1>4, <1>5 DEF Handled

LEMMA PeriodStep ==
  ASSUME TypeOK, PeriodOK, [Next]_vars
  PROVE  /\ PeriodOK'
         /\ \A r \in Recipients :
              counter[r] # NoFlag /\ counter'[r] = NoFlag => since[r] >= WholePeriod
<1>1. CASE UNCHANGED <<counter, wait, since>>
  BY <1>1 DEF PeriodOK
<1>2. ASSUME NEW c \in Copies, NEW r \in Recipients, SoftBounce(c, r)
      PROVE  /\ PeriodOK'
             /\ \A q \in Recipients :
                  counter[q] # NoFlag /\ counter'[q] = NoFlag => since[q] >= WholePeriod
  <2>1. Handled(r) \/ BanAfterRetries(r)
    BY <1>2 DEF SoftBounce, Handled
  <2> QED
    BY <2>1, PeriodBounce DEF TypeOK, FlagsTyped
<1>3. CASE Tick
  <2>1. ASSUME NEW r \in Recipients, counter[r] # NoFlag
        PROVE since'[r] >= WholePeriod \/ since'[r] + wait'[r] >= Sum(counter[r])
    <3>1. counter[r] \in 0..MAX_RETRY_COUNTER /\ wait[r] \in Int /\ since[r] \in Nat
      BY <2>1 DEF TypeOK
    <3>2. Sum(counter[r]) \in Nat /\ WholePeriod \in Nat
      BY <3>1, SumsOfPeriods, PowersAreNat
    <3>3. since[r] >= WholePeriod \/ since[r] + wait[r] >= Sum(counter[r])
      BY <2>1 DEF PeriodOK
    <3>4. /\ wait'[r] = Larger(wait[r] - 1, -BACKOFF_THRESHOLD)
          /\ since'[r] = Smaller(since[r] + 1, WholePeriod)
      BY <1>3, <2>1 DEF Tick
    <3> QED
      BY <3>1, <3>2, <3>3, <3>4, WindowAssumption DEF Larger, Smaller, WindowAssumption
  <2>2. counter' = counter
    BY <1>3 DEF Tick
  <2> QED
    BY <2>1, <2>2 DEF PeriodOK
<1>4. ASSUME NEW m \in Messages, SendStep(m) PROVE UNCHANGED <<counter, wait, since>>
  BY <1>4 DEF SendStep, CheckBans, CheckBackoff, ReadDate, InsertRow, Deliver, SendRaises,
              flags, past
<1>5. ASSUME NEW r \in Recipients, BanAddress(r) PROVE UNCHANGED <<counter, wait, since>>
  BY <1>5 DEF BanAddress, past
<1>6. CASE CronStep
  BY <1>1, <1>6 DEF CronStep, CheckDeliverability, SelectBatch, Retry, CommitRun, RunRaises,
                    flags, past
<1>7. ASSUME NEW c \in Copies, DeleteOld(c) PROVE UNCHANGED <<counter, wait, since>>
  BY <1>7 DEF DeleteOld, flags
<1>8. CASE UNCHANGED vars
  BY <1>1, <1>8 DEF vars, flags, past
<1> QED
  BY <1>1, <1>2, <1>3, <1>4, <1>5, <1>6, <1>7, <1>8 DEF Next

----------------------------------------------------------------------------
(* The theorems.                                                           *)

IInv == TypeOK /\ OriginsOK /\ OneProbe /\ WatchOK /\ PeriodOK

LEMMA InitIInv ==
  ASSUME Init
  PROVE IInv
<1> USE MailAssumption, WindowAssumption DEF Init, MailAssumption, WindowAssumption
<1>1. \A p \in Rows : /\ db.status[p] = "NONE" /\ disk.status[p] = "NONE"
                      /\ db.due[p] = 0 /\ disk.due[p] = 0
  BY DEF Table
<1>2. TableOK(db) /\ TableOK(disk)
  BY StatusTypes DEF Table, TableOK
<1>3. TypeOK
  BY <1>2 DEF TypeOK
<1>4. \A p \in Rows : p[1] \in Copies /\ p[2] \in Recipients
  BY DEF Rows
<1>5. OriginsOK
  BY <1>1, <1>4 DEF OriginsOK, InFlight
<1>6. OneProbe
  BY <1>1 DEF OneProbe, UniqueProbes
<1>7. WatchOK
  <2>1. WaitingIsWatched
    BY <1>1 DEF WaitingIsWatched
  <2>2. CheckedOK /\ DateOK /\ HoldOK
    BY DEF CheckedOK, DateOK, HoldOK, under_waiting_period, InFlight
  <2> QED
    BY <2>1, <2>2 DEF WatchOK
<1>8. PeriodOK
  BY DEF PeriodOK
<1> QED
  BY <1>3, <1>5, <1>6, <1>7, <1>8 DEF IInv

LEMMA StepIInv ==
  ASSUME IInv, [Next]_vars
  PROVE IInv'
<1> USE DEF IInv
<1>1. \A p \in Rows : p[1] \in Copies /\ p[2] \in Recipients
  BY DEF Rows
<1>2. TypeOK'
  BY TypeSend, TypeBounce, TypeCron, TypeTick, TypeRest DEF Next
<1>3. OriginsOK'
  BY OriginsSend, OriginsBounce, OriginsCron, OriginsRest DEF Next
<1>4. OneProbe'
  BY ProbesStep
<1>5. WatchOK'
  BY WatchStep
<1>6. PeriodOK'
  BY PeriodStep
<1> QED
  BY <1>2, <1>3, <1>4, <1>5, <1>6

LEMMA Invariance == Spec => []IInv
<1>1. Init => IInv
  BY InitIInv
<1>2. IInv /\ [Next]_vars => IInv'
  BY StepIInv
<1> QED
  BY <1>1, <1>2, PTL DEF Spec

\* The tables, flags, senders and the command keep to their types.
THEOREM TypeCorrect == Spec => []TypeOK
<1>1. IInv => TypeOK
  BY DEF IInv
<1> QED
  BY <1>1, Invariance, PTL

\* unique_failed_enqueued: at no time do two rows of an address have the status
\* ENQUEUED, neither in what is committed nor in the open transaction of the
\* command, whatever is sent, bounces and is rolled back in between.
THEOREM OneProbeAtATime == Spec => []OneProbe
<1>1. IInv => OneProbe
  BY DEF IInv
<1> QED
  BY <1>1, Invariance, PTL

\* No row waits for an address that the command has stopped to look at.
THEOREM WaitingRowsAreWatched == Spec => []WaitingIsWatched
<1>1. IInv => WaitingIsWatched
  BY DEF IInv, WatchOK
<1> QED
  BY <1>1, Invariance, PTL

\* A backoff ends with a ban only after all its periods have passed.
THEOREM BansAreEarned == Spec => BanIsEarned
<1>1. IInv /\ [Next]_vars =>
        [\A r \in Recipients :
            counter[r] # NoFlag /\ counter'[r] = NoFlag => since[r] >= WholePeriod]_vars
  BY PeriodStep DEF IInv
<1> QED
  BY <1>1, Invariance, PTL DEF Spec, BanIsEarned
=============================================================================
