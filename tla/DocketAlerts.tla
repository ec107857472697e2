---------------------------- MODULE DocketAlerts ----------------------------
(***************************************************************************)
(* Alerts about new docket entries (cl/alerts/tasks.py).  Everything that  *)
(* merges docket entries is a source: the RSS feeds (cl/recap_rss/         *)
(* tasks.py), uploads of dockets and notifications by email (cl/recap/     *)
(* tasks.py).  A source that created entries of a docket asks for the      *)
(* docket's semaphore in Redis.  If it gets it, it orders an alert about   *)
(* all entries created since the source started; if the semaphore is up,   *)
(* it relies on the alert that somebody else ordered.                      *)
(*                                                                         *)
(* Entries and alerts of a docket are what matters here; whatever else is  *)
(* merged is left out.  date_created of an entry and the start of a source *)
(* are compared by a set: old[s] holds the entries created before s began. *)
(***************************************************************************)
EXTENDS Naturals, FiniteSets

CONSTANTS
    Entries,        \* docket entries that courts file
    Dockets,
    DocketOf,       \* DocketOf[e]: the docket of e
    Feeds,          \* tasks that merge a feed
    Uploads,        \* tasks that merge an uploaded docket
    Emails,         \* tasks that merge a notification to an @recap.email user
    Content,        \* Content[s]: the entries that source s brings
    NoDocket,       \* no docket
    MaxFaults       \* bound on tasks that fail and semaphores that expire early

Sources == Feeds \cup Uploads \cup Emails

ASSUME SourcesAssumption ==
    /\ Feeds \cap Uploads = {} /\ Feeds \cap Emails = {} /\ Uploads \cap Emails = {}
    /\ IsFiniteSet(Sources)
    /\ DocketOf \in [Entries -> Dockets]
    /\ Content \in [Sources -> SUBSET Entries]
    /\ NoDocket \notin Dockets
    /\ MaxFaults \in Nat

VARIABLES
    entries,    \* docket entries committed
    open,       \* open[s]: those in the open transaction of s
    at,         \* at[s]: where s stands
    todo,       \* todo[s]: entries of its content not yet merged
    old,        \* old[s]: entries created before the start_time of s
    news,       \* news[s]: dockets it updated and has not asked for yet
    looking,    \* looking[s]: the docket whose semaphore it found down
    retried,    \* retried[s]: s was retried
    semaphores, \* dockets whose key docket.alert.enqueued exists
    alert,      \* alert[<<s, d>>]: the alert about d that s orders
    seen,       \* seen[<<s, d>>]: the entries it has read
    mailed,     \* entries mailed to the subscribers of their docket
    told,       \* <<s, d>>: the recap.email user of s was mailed about d
    races,      \* sources that had found a key missing when another set it
    expiries,   \* semaphores that expired early
    failures    \* tasks that raised or died

merge  == <<entries, open, at, todo, old, news, looking, retried>>
alerts == <<alert, seen, mailed, told>>
faults == <<expiries, failures>>
vars   == <<merge, semaphores, alerts, races, faults>>

Orders == Sources \X Dockets

\* An alert is listed by its feed, queued as a task, has read the entries and
\* is done.  A private one goes to the recap.email user only.
Phase == {"none", "listed", "queued", "read", "private", "done", "dead"}
Underway == {"listed", "queued", "read"}

TypeOK ==
    /\ entries \in SUBSET Entries
    /\ open \in [Sources -> SUBSET Entries]
    /\ at \in [Sources -> {"new", "merging", "asking", "dead"}]
    /\ todo \in [Sources -> SUBSET Entries]
    /\ old \in [Sources -> SUBSET Entries]
    /\ news \in [Sources -> SUBSET Dockets]
    /\ looking \in [Sources -> Dockets \cup {NoDocket}]
    /\ \A s \in Sources : looking[s] \in news[s] \cup {NoDocket}
    /\ retried \in [Sources -> BOOLEAN]
    /\ semaphores \in SUBSET Dockets
    /\ alert \in [Orders -> Phase]
    /\ seen \in [Orders -> SUBSET Entries]
    /\ mailed \in SUBSET Entries
    /\ told \in SUBSET Orders
    /\ races \in Nat /\ expiries \in Nat /\ failures \in Nat

Init ==
    /\ entries = {}
    /\ open = [s \in Sources |-> {}]
    /\ at = [s \in Sources |-> "new"]
    /\ todo = Content
    /\ old = [s \in Sources |-> {}]
    /\ news = [s \in Sources |-> {}]
    /\ looking = [s \in Sources |-> NoDocket]
    /\ retried = [s \in Sources |-> FALSE]
    /\ semaphores = {}
    /\ alert = [o \in Orders |-> "none"]
    /\ seen = [o \in Orders |-> {}]
    /\ mailed = {}
    /\ told = {}
    /\ races = 0 /\ expiries = 0 /\ failures = 0

EntriesOf(d) == {e \in Entries : DocketOf[e] = d}
DocketsOf(E) == {DocketOf[e] : e \in E}

----------------------------------------------------------------------------
(* Sources.                                                                *)

\* All entries created so far, those of open transactions included.
Created == entries \cup UNION {open[s] : s \in Sources}

\* start_time = now()
Start(s) ==
    /\ at[s] = "new"
    /\ at' = [at EXCEPT ![s] = "merging"]
    /\ old' = [old EXCEPT ![s] = Created]
    /\ UNCHANGED <<entries, open, todo, news, looking, retried, semaphores, alerts, races, faults>>

\* The row of a docket stays locked until the transaction that merges it ends.
DocketIsFree(s, d) == \A t \in Sources \ {s} : d \notin DocketsOf(open[t])

\* add_docket_entries for one entry.  A feed goes through its items one by one;
\* an upload has no transaction around its entries.
Merge(s, e) ==
    /\ at[s] = "merging" /\ e \in todo[s]
    /\ s \in Feeds => open[s] = {} /\ news[s] = {}
    /\ DocketIsFree(s, DocketOf[e])
    /\ todo' = [todo EXCEPT ![s] = @ \ {e}]
    /\ IF e \in entries
         THEN UNCHANGED <<entries, open, old, news>>
         ELSE /\ old' = [t \in Sources |-> old[t] \ {e}]
              /\ news' = [news EXCEPT ![s] = @ \cup {DocketOf[e]}]
              /\ IF s \in Uploads
                   THEN entries' = entries \cup {e} /\ UNCHANGED open
                   ELSE open' = [open EXCEPT ![s] = @ \cup {e}] /\ UNCHANGED entries
    /\ UNCHANGED <<at, looking, retried, semaphores, alerts, races, faults>>

\* (mutant) the alert counts from when the entry was stored
CommitItemAndRestart(f) ==
    /\ at[f] = "merging" /\ open[f] # {}
    /\ entries' = entries \cup open[f]
    /\ open' = [open EXCEPT ![f] = {}]
    /\ old' = [old EXCEPT ![f] = Created]
    /\ UNCHANGED <<at, todo, news, looking, retried, semaphores, alerts, races, faults>>

CommitItem(f) ==
    /\ at[f] = "merging" /\ open[f] # {}
    /\ entries' = entries \cup open[f]
    /\ open' = [open EXCEPT ![f] = {}]
    /\ UNCHANGED <<at, todo, old, news, looking, retried, semaphores, alerts, races, faults>>

\* (mutant) no mail for the user where the entry is known
CommitEmailOnly(m) ==
    /\ at[m] = "merging" /\ todo[m] = {}
    /\ at' = [at EXCEPT ![m] = "asking"]
    /\ entries' = entries \cup open[m]
    /\ open' = [open EXCEPT ![m] = {}]
    /\ alert' = [o \in Orders |->
                    IF o[1] = m /\ o[2] \in DocketsOf(Content[m]) \ news[m] /\ alert[o] = "none"
                      THEN "done" ELSE alert[o]]
    /\ UNCHANGED <<todo, old, news, looking, retried, semaphores, seen, mailed, told, races, faults>>

\* All dockets of the notification are merged in one transaction.  About those
\* it did not update only its own user is alerted.
CommitEmail(m) ==
    /\ at[m] = "merging" /\ todo[m] = {}
    /\ at' = [at EXCEPT ![m] = "asking"]
    /\ entries' = entries \cup open[m]
    /\ open' = [open EXCEPT ![m] = {}]
    /\ alert' = [o \in Orders |->
                    IF o[1] = m /\ o[2] \in DocketsOf(Content[m]) \ news[m] /\ alert[o] = "none"
                      THEN "private" ELSE alert[o]]
    /\ UNCHANGED <<todo, old, news, looking, retried, semaphores, seen, mailed, told, races, faults>>

IsUp(d) == d \in semaphores

MayAsk(s, d) ==
    /\ d \in news[s] /\ looking[s] = NoDocket
    /\ \/ s \in Feeds /\ open[s] = {}
       \/ s \in Uploads /\ todo[s] = {}
       \/ s \in Emails /\ at[s] = "asking"

\* create_redis_semaphore reads the key ...
FindUp(s, d) ==
    /\ MayAsk(s, d) /\ IsUp(d)
    /\ news' = [news EXCEPT ![s] = @ \ {d}]
    /\ UNCHANGED <<entries, open, at, todo, old, looking, retried,
                   semaphores, alerts, races, faults>>

\* (mutant) the key is not read
FindDownBlindly(s, d) ==
    /\ MayAsk(s, d)
    /\ looking' = [looking EXCEPT ![s] = d]
    /\ UNCHANGED <<entries, open, at, todo, old, news, retried,
                   semaphores, alerts, races, faults>>

FindDown(s, d) ==
    /\ MayAsk(s, d) /\ ~IsUp(d)
    /\ looking' = [looking EXCEPT ![s] = d]
    /\ UNCHANGED <<entries, open, at, todo, old, news, retried,
                   semaphores, alerts, races, faults>>

Lookers(d) == {s \in Sources : looking[s] = d}

\* ... and then sets it.  A feed lists the docket for the next task of its chain,
\* the others queue a task of their own.
Take(s) ==
    /\ looking[s] # NoDocket
    /\ semaphores' = semaphores \cup {looking[s]}
    /\ races' = IF IsUp(looking[s]) THEN races
                ELSE races + Cardinality(Lookers(looking[s]) \ {s})
    /\ alert' = [alert EXCEPT ![<<s, looking[s]>>] = IF s \in Feeds THEN "listed" ELSE "queued"]
    /\ news' = [news EXCEPT ![s] = @ \ {looking[s]}]
    /\ looking' = [looking EXCEPT ![s] = NoDocket]
    /\ UNCHANGED <<entries, open, at, todo, old, retried, seen, mailed, told, faults>>

Listed(f) == {d \in Dockets : alert[<<f, d>>] = "listed"}
FeedIsMerged(f) == todo[f] = {} /\ open[f] = {} /\ news[f] = {}

\* (mutant) the next task gets one docket of the list
HandOverFirst(f) ==
    /\ FeedIsMerged(f) /\ Listed(f) # {}
    /\ \E d \in Listed(f) :
          alert' = [o \in Orders |->
                       IF alert[o] # "listed" \/ o[1] # f THEN alert[o]
                       ELSE IF o[2] = d THEN "queued" ELSE "none"]
    /\ UNCHANGED <<merge, semaphores, seen, mailed, told, races, faults>>

HandOver(f) ==
    /\ FeedIsMerged(f) /\ Listed(f) # {}
    /\ alert' = [o \in Orders |->
                    IF o[1] = f /\ alert[o] = "listed" THEN "queued" ELSE alert[o]]
    /\ UNCHANGED <<merge, semaphores, seen, mailed, told, races, faults>>

SourceStep(s) ==
    \/ Start(s)
    \/ \E e \in Entries : Merge(s, e)
    \/ s \in Feeds /\ (CommitItem(s) \/ HandOver(s))
    \/ s \in Emails /\ CommitEmail(s)
    \/ \E d \in Dockets : FindUp(s, d) \/ FindDown(s, d)
    \/ Take(s)

----------------------------------------------------------------------------
(* send_alert_and_webhook.                                                 *)

\* The alerts of a feed are sent one after the other.
ReadEntries(s, d) ==
    /\ alert[<<s, d>>] = "queued"
    /\ s \in Feeds => \A c \in Dockets : alert[<<s, c>>] # "read"
    /\ alert' = [alert EXCEPT ![<<s, d>>] = "read"]
    /\ seen' = [seen EXCEPT ![<<s, d>>] = (entries \cap EntriesOf(d)) \ old[s]]
    /\ UNCHANGED <<merge, semaphores, mailed, told, races, faults>>

\* The mail is sent, then the key is deleted.
SendMail(s, d) ==
    /\ alert[<<s, d>>] = "read"
    /\ alert' = [alert EXCEPT ![<<s, d>>] = "done"]
    /\ seen' = [seen EXCEPT ![<<s, d>>] = {}]
    /\ mailed' = mailed \cup seen[<<s, d>>]
    /\ told' = IF s \in Emails THEN told \cup {<<s, d>>} ELSE told
    /\ semaphores' = semaphores \ {d}
    /\ UNCHANGED <<merge, races, faults>>

\* With des_pks: the semaphore is not touched.
MailUserOnly(s, d) ==
    /\ alert[<<s, d>>] = "private"
    /\ alert' = [alert EXCEPT ![<<s, d>>] = "done"]
    /\ told' = told \cup {<<s, d>>}
    /\ UNCHANGED <<merge, semaphores, seen, mailed, races, faults>>

AlertStep(s, d) ==
    ReadEntries(s, d) \/ SendMail(s, d) \/ MailUserOnly(s, d)

----------------------------------------------------------------------------
(* Failures.                                                               *)

Fail == failures + expiries < MaxFaults /\ failures' = failures + 1

\* What s has ordered and not handed over is forgotten.
Forget(s) ==
    alert' = [o \in Orders |->
                 IF o[1] = s /\ alert[o] \in {"listed", "private"} THEN "none" ELSE alert[o]]

\* (mutant) a task that starts again remembers the key it found down
RestartInTheMiddle(s, E) ==
    /\ todo' = [todo EXCEPT ![s] = E]
    /\ open' = [open EXCEPT ![s] = {}]
    /\ news' = [news EXCEPT ![s] = {}]
    /\ UNCHANGED looking
    /\ old' = [old EXCEPT ![s] = Created \ open[s]]

\* s merges E with a new start_time.
Restart(s, E) ==
    /\ todo' = [todo EXCEPT ![s] = E]
    /\ open' = [open EXCEPT ![s] = {}]
    /\ news' = [news EXCEPT ![s] = {}]
    /\ looking' = [looking EXCEPT ![s] = NoDocket]
    /\ old' = [old EXCEPT ![s] = Created \ open[s]]

IsRunning(s) ==
    \/ at[s] = "merging" /\ s \in Emails
    \/ todo[s] # {} /\ at[s] # "new"
    \/ open[s] # {} \/ news[s] # {}
    \/ \E d \in Dockets : alert[<<s, d>>] \in {"listed", "private"}

\* Saving the docket of e raises IntegrityError.  The task is retried once; the
\* items it claimed, that of e included, are skipped then.
FeedRetries(f, e) ==
    /\ Fail
    /\ at[f] = "merging" /\ e \in todo[f] /\ open[f] = {} /\ news[f] = {} /\ ~retried[f]
    /\ retried' = [retried EXCEPT ![f] = TRUE]
    /\ Restart(f, todo[f] \ {e})
    /\ Forget(f)
    /\ UNCHANGED <<entries, at, semaphores, seen, mailed, told, races, expiries>>

\* A login, a download or Redis fails anywhere in process_recap_email.
EmailRetries(m) ==
    /\ Fail
    /\ IsRunning(m)
    /\ Restart(m, Content[m])
    /\ Forget(m)
    /\ at' = [at EXCEPT ![m] = "merging"]
    /\ UNCHANGED <<entries, retried, semaphores, seen, mailed, told, races, expiries>>

SourceDies(s) ==
    /\ Fail
    /\ IsRunning(s)
    /\ Restart(s, {})
    /\ Forget(s)
    /\ at' = [at EXCEPT ![s] = "dead"]
    /\ UNCHANGED <<entries, retried, semaphores, seen, mailed, told, races, expiries>>

\* Before its mail or after it, or the source dies before it has queued it.  The
\* semaphore stays.  With an alert of a feed those that follow it are lost.
AlertRaises(s, d) ==
    /\ Fail
    /\ alert[<<s, d>>] \in {"queued", "read"}
    /\ alert' = [o \in Orders |->
                    IF o = <<s, d>> \/ (s \in Feeds /\ o[1] = s /\ alert[o] = "queued")
                      THEN "dead" ELSE alert[o]]
    /\ seen' = [seen EXCEPT ![<<s, d>>] = {}]
    /\ mailed' \in {mailed, mailed \cup seen[<<s, d>>]}
    /\ UNCHANGED <<merge, semaphores, told, races, expiries>>

IsUnderway(d) == \E s \in Sources : alert[<<s, d>>] \in Underway

\* (mutant) the key has no TTL
NeverExpires(d) == FALSE /\ UNCHANGED vars

\* Nobody is left who would delete it.
SemaphoreExpires(d) ==
    /\ IsUp(d) /\ ~IsUnderway(d)
    /\ semaphores' = semaphores \ {d}
    /\ UNCHANGED <<merge, alerts, races, faults>>

\* The alert takes longer than ten minutes.
SemaphoreExpiresEarly(d) ==
    /\ IsUp(d) /\ IsUnderway(d) /\ failures + expiries < MaxFaults
    /\ semaphores' = semaphores \ {d}
    /\ expiries' = expiries + 1
    /\ UNCHANGED <<merge, alerts, races, failures>>

Fault ==
    \/ \E f \in Feeds, e \in Entries : FeedRetries(f, e)
    \/ \E m \in Emails : EmailRetries(m)
    \/ \E s \in Sources : SourceDies(s)
    \/ \E s \in Sources, d \in Dockets : AlertRaises(s, d)
    \/ \E d \in Dockets : SemaphoreExpiresEarly(d)

Next ==
    \/ \E s \in Sources : SourceStep(s)
    \/ \E s \in Sources, d \in Dockets : AlertStep(s, d)
    \/ \E d \in Dockets : SemaphoreExpires(d)
    \/ Fault

Spec == Init /\ [][Next]_vars

\* Tasks that run go on, queued ones are taken up, keys expire.  No source has
\* to start and nothing has to fail.
Progress ==
    \/ \E s \in Sources : at[s] # "new" /\ SourceStep(s)
    \/ \E s \in Sources, d \in Dockets : AlertStep(s, d)
    \/ \E d \in Dockets : SemaphoreExpires(d)

FairSpec == Spec /\ WF_vars(Progress)

----------------------------------------------------------------------------
(* What must hold.                                                         *)

\* The alert that s has ordered will mail e.
Covers(s, e) ==
    LET d == DocketOf[e]
    IN  \/ alert[<<s, d>>] \in {"listed", "queued"} /\ e \notin old[s]
        \/ alert[<<s, d>>] = "read" /\ e \in seen[<<s, d>>]

\* s has still to ask for an alert that would mail e.
WillAsk(s, e) == DocketOf[e] \in news[s] /\ e \notin old[s]

IsCovered(e) == e \in mailed \/ \E s \in Sources : Covers(s, e) \/ WillAsk(s, e)

\* The number of alerts of a docket under way, from the moment its semaphore is
\* taken, is at most one; each key that expired under an alert, and each source
\* that found a key missing just before another set it, adds one.
OneAlertAtATime ==
    \A d \in Dockets :
        Cardinality({s \in Sources : alert[<<s, d>>] \in Underway}) <= 1 + expiries + races

\* An entry that is committed will be mailed by an alert ordered or about to be
\* ordered.  That ceases to be true only when a task fails, or when a source is
\* refused the semaphore: that of an alert which started after the entry was
\* created or has already read the entries, or of an alert that failed.
CoverageIsKept ==
    [][\A e \in Entries :
          e \in entries' /\ (e \in entries => IsCovered(e)) /\ ~IsCovered(e)' =>
              \/ failures' # failures
              \/ \E s \in Sources, d \in Dockets : FindUp(s, d) /\ d = DocketOf[e]]_vars

\* A committed entry that an alert covers is mailed, unless a task fails.
PromisedIsMailed ==
    \A e \in Entries :
        e \in entries /\ (\E s \in Sources : Covers(s, e)) ~> e \in mailed \/ failures > 0

\* No failure mutes a docket: its semaphore comes down again.
DocketIsNotMuted ==
    \A d \in Dockets : d \in semaphores ~> d \notin semaphores

\* The recap.email user of a notification is told of each of its dockets, unless
\* the task was refused the docket's semaphore or failed.
RecipientIsTold ==
    \A m \in Emails : \A d \in DocketsOf(Content[m]) :
        at[m] = "asking" ~>
            \/ <<m, d>> \in told
            \/ d \notin news[m] /\ alert[<<m, d>>] = "none"
            \/ failures > 0
=============================================================================
