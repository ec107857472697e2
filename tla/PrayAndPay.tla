----------------------------- MODULE PrayAndPay -----------------------------
(***************************************************************************)
(* Pray and pay (cl/favorites).  Users ask for documents that nobody has   *)
(* bought from PACER yet.  A task asks PACER whether the document is for   *)
(* sale at all.  When a document arrives, because somebody buys it (the    *)
(* fetch queue of cl/recap/tasks.py) or uploads it (the processing queue), *)
(* the prayers for it are granted and their users told.                    *)
(*                                                                         *)
(* The fetch runs in one transaction, the others commit each statement.    *)
(* What a fetch has not committed is known from at[f], copy[f], batch[f]   *)
(* and clears[f]; the rows it wrote are locked.  A process that has read a *)
(* document writes all its columns back when it saves it.                  *)
(***************************************************************************)
EXTENDS Naturals, FiniteSets

CONSTANTS
    Users,
    Docs,
    Wishes,       \* <<u, d>>: u may ask for d
    ByApi,        \* those asked through the API, the others on the website
    Quota,        \* ALLOWED_PRAYER_COUNT
    HasId,        \* documents with a pacer_doc_id
    Fetches,      \* purchases
    Uploads,
    GoesTo,       \* GoesTo[a]: the document that a brings
    MaxRequests,  \* bound on requests
    MaxFaults     \* bound on tasks that fail, are retried or die

Arrivals == Fetches \cup Uploads

ASSUME PrayerAssumption ==
    /\ IsFiniteSet(Users) /\ IsFiniteSet(Docs)
    /\ Wishes \subseteq Users \X Docs /\ ByApi \subseteq Wishes
    /\ Quota \in Nat /\ MaxRequests \in Nat /\ MaxFaults \in Nat
    /\ HasId \subseteq Docs
    /\ Fetches \cap Uploads = {} /\ GoesTo \in [Arrivals -> Docs]

VARIABLES
    prayer,    \* prayer[w]: status of the Prayer, or "none"
    recent,    \* recent[w]: it was created within the last 24 hours
    doomed,    \* prayers that a request to the API has found waiting, to delete them
    available, \* is_available of a document
    sealed,    \* is_sealed
    denial,    \* denial[d]: how old last_checked of PrayerAvailability is
    ask,       \* ask[w]: where the request stands
    sees,      \* sees[w]: is_sealed as the request has read it
    check,     \* check[w]: where the task stands that asks PACER for w
    knew,      \* knew[w]: is_available as that task has read it
    at,        \* at[a]: where the arrival stands
    copy,      \* copy[a]: the document as the arrival has read it
    batch,     \* batch[a]: prayers it grants (a fetch), or is to mail about
    clears,    \* clears[f]: the fetch deletes the PrayerAvailability
    told,      \* wishes mailed that their document is here
    arrived,   \* documents whose file is stored and committed
    early,     \* requests that read their document before it arrived
    overtaken, \* prayers of such requests that were created after it
    clobbered, \* documents that a task marked as missing after they arrived
    parted,    \* wishes told and not granted, or granted and not told, by a fault
    claimed,   \* prayers that the API created as GRANTED
    revoked,   \* wishes with a prayer that the API deleted after it was granted
    abandoned, \* documents saved by an upload that died before it granted
    asked,     \* requests so far
    faults     \* tasks that failed, were retried or died

prayers   == <<prayer, recent, doomed>>
documents == <<available, sealed, denial>>
requests  == <<ask, sees>>
checks    == <<check, knew>>
arrivals  == <<at, copy, batch, clears>>
past      == <<arrived, early, overtaken, clobbered, parted, claimed, revoked, abandoned>>
bounds    == <<asked, faults>>
vars == <<prayers, documents, requests, checks, arrivals, told, past, bounds>>

User(w) == w[1]
Doc(w)  == w[2]
WishesFor(d) == {w \in Wishes : Doc(w) = d}

Seal == {"unknown", "no", "yes"}
Copy == [available : BOOLEAN, sealed : Seal]
Unread == [available |-> FALSE, sealed |-> "unknown"]

TypeOK ==
    /\ prayer \in [Wishes -> {"none", "WAITING", "GRANTED"}]
    /\ recent \in [Wishes -> BOOLEAN]
    /\ doomed \in SUBSET Wishes
    /\ available \in [Docs -> BOOLEAN]
    /\ sealed \in [Docs -> Seal]
    /\ denial \in [Docs -> {"none", "recent", "old"}]
    /\ ask \in [Wishes -> {"none", "looked", "counted", "created"}]
    /\ sees \in [Wishes -> Seal]
    /\ check \in [Wishes -> {"none", "queued", "asked", "sealed", "open", "counting"}]
    /\ knew \in [Wishes -> BOOLEAN]
    /\ at \in [Arrivals -> {"new", "begun", "read", "saved", "mailing", "done"}]
    /\ copy \in [Arrivals -> Copy]
    /\ batch \in [Arrivals -> SUBSET Wishes]
    /\ clears \in [Fetches -> BOOLEAN]
    /\ told \in SUBSET Wishes
    /\ arrived \in SUBSET Docs
    /\ early \in SUBSET Wishes /\ overtaken \in SUBSET Wishes
    /\ clobbered \in SUBSET arrived /\ abandoned \in SUBSET arrived
    /\ parted \in SUBSET Wishes /\ claimed \in SUBSET Wishes /\ revoked \in SUBSET Wishes
    /\ asked \in 0..MaxRequests /\ faults \in 0..MaxFaults
    /\ \A w \in Wishes : prayer[w] = "none" => ~recent[w]

Init ==
    /\ prayer = [w \in Wishes |-> "none"]
    /\ recent = [w \in Wishes |-> FALSE]
    /\ doomed = {}
    /\ available = [d \in Docs |-> FALSE]
    /\ sealed = [d \in Docs |-> "unknown"]
    /\ denial = [d \in Docs |-> "none"]
    /\ ask = [w \in Wishes |-> "none"]
    /\ sees = [w \in Wishes |-> "unknown"]
    /\ check = [w \in Wishes |-> "none"]
    /\ knew = [w \in Wishes |-> FALSE]
    /\ at = [a \in Arrivals |-> "new"]
    /\ copy = [a \in Arrivals |-> Unread]
    /\ batch = [a \in Arrivals |-> {}]
    /\ clears = [f \in Fetches |-> FALSE]
    /\ told = {}
    /\ arrived = {} /\ early = {} /\ overtaken = {}
    /\ clobbered = {} /\ parted = {} /\ abandoned = {}
    /\ claimed = {} /\ revoked = {}
    /\ asked = 0 /\ faults = 0

----------------------------------------------------------------------------
(* Rows that an open transaction of a fetch has written are locked.        *)

Saving(d) == {f \in Fetches : GoesTo[f] = d /\ at[f] = "saved"}

DocIsFree(d)    == Saving(d) = {}
RowsAreFree(d)  == \A f \in Saving(d) : batch[f] = {}
RowIsFree(w)    == \A f \in Saving(Doc(w)) : w \notin batch[f]
DenialIsFree(d) == \A f \in Saving(d) : ~clears[f]

----------------------------------------------------------------------------
(* A user asks for a document, or withdraws.                               *)

RecentPrayers(u) == {w \in Wishes : User(w) = u /\ recent[w]}
prayer_eligible(u) == Cardinality(RecentPrayers(u)) < Quota

\* (mutant) the website does not look whether the document is here
ReadAnyDocument(w) ==
    /\ ask[w] = "none" /\ check[w] = "none" /\ asked < MaxRequests
    /\ asked' = asked + 1
    /\ ask' = [ask EXCEPT ![w] = "looked"]
    /\ sees' = [sees EXCEPT ![w] = sealed[Doc(w)]]
    /\ early' = IF Doc(w) \in arrived THEN early \ {w} ELSE early \cup {w}
    /\ UNCHANGED <<prayers, documents, checks, arrivals, told,
                   arrived, overtaken, clobbered, parted, claimed, revoked, abandoned, faults>>

\* The website refuses to ask for a document that is here.
ReadDocument(w) ==
    /\ ask[w] = "none" /\ check[w] = "none" /\ asked < MaxRequests
    /\ asked' = asked + 1
    /\ w \in ByApi \/ ~available[Doc(w)]
    /\ ask' = [ask EXCEPT ![w] = "looked"]
    /\ sees' = [sees EXCEPT ![w] = sealed[Doc(w)]]
    /\ early' = IF Doc(w) \in arrived THEN early \ {w} ELSE early \cup {w}
    /\ UNCHANGED <<prayers, documents, checks, arrivals, told,
                   arrived, overtaken, clobbered, parted, claimed, revoked, abandoned, faults>>

CountPrayers(w) ==
    /\ ask[w] = "looked"
    /\ ask' = [ask EXCEPT ![w] =
                  IF prayer_eligible(User(w)) /\ (w \in ByApi => prayer[w] = "none")
                    THEN "counted" ELSE "none"]
    /\ sees' = [sees EXCEPT ![w] = IF ask'[w] = "none" THEN "unknown" ELSE @]
    /\ early' = IF ask'[w] = "none" THEN early \ {w} ELSE early
    /\ UNCHANGED <<prayers, documents, checks, arrivals, told,
                   arrived, overtaken, clobbered, parted, claimed, revoked, abandoned, bounds>>

\* The serializer of the API lets a request name the status of its prayer.
StatusesOf(w) == IF w \in ByApi THEN {"WAITING", "GRANTED"} ELSE {"WAITING"}

\* get_or_create, or an INSERT that fails if the row exists.
CreatePrayer(w) ==
    /\ ask[w] = "counted"
    /\ \/ /\ prayer[w] = "none"
          /\ \E s \in StatusesOf(w) :
                /\ prayer' = [prayer EXCEPT ![w] = s]
                /\ claimed' = IF s = "GRANTED" THEN claimed \cup {w} ELSE claimed
          /\ recent' = [recent EXCEPT ![w] = TRUE]
          /\ ask' = [ask EXCEPT ![w] = "created"]
          /\ overtaken' = IF w \in early /\ (Doc(w) \in arrived \/ ~DocIsFree(Doc(w)))
                            THEN overtaken \cup {w} ELSE overtaken
          /\ told' = told \ {w}
          /\ UNCHANGED <<doomed, sees>>
       \/ /\ prayer[w] # "none"
          /\ ask' = [ask EXCEPT ![w] = "none"]
          /\ sees' = [sees EXCEPT ![w] = "unknown"]
          /\ UNCHANGED <<prayers, overtaken, told, claimed>>
    /\ early' = early \ {w}
    /\ UNCHANGED <<documents, checks, arrivals,
                   arrived, clobbered, parted, revoked, abandoned, bounds>>

\* The signal check_prayer_availability, with the document as it was read.
CheckAvailability(w) ==
    LET d == Doc(w)
    IN  /\ ask[w] = "created"
        /\ ask' = [ask EXCEPT ![w] = "none"]
        /\ sees' = [sees EXCEPT ![w] = "unknown"]
        /\ \/ /\ d \notin HasId /\ DenialIsFree(d)
              /\ denial' = [denial EXCEPT ![d] = "recent"]
              /\ UNCHANGED check
           \/ /\ d \in HasId /\ sees[w] = "no" /\ denial[d] = "none"
              /\ UNCHANGED <<denial, check>>
           \/ /\ d \in HasId /\ denial[d] = "recent"
              /\ UNCHANGED <<denial, check>>
           \/ /\ d \in HasId
              /\ denial[d] = "old" \/ (denial[d] = "none" /\ sees[w] # "no")
              /\ check' = [check EXCEPT ![w] = "queued"]
              /\ UNCHANGED denial
        /\ UNCHANGED <<prayers, available, sealed, knew, arrivals, told, past, bounds>>

DeleteRow(w) ==
    /\ RowIsFree(w)
    /\ prayer' = [prayer EXCEPT ![w] = "none"]
    /\ recent' = [recent EXCEPT ![w] = FALSE]
    /\ doomed' = doomed \ {w}
    /\ overtaken' = overtaken \ {w}
    /\ claimed' = claimed \ {w}

\* The website deletes the prayer if it is waiting.
Withdraw(w) ==
    /\ prayer[w] = "WAITING" /\ DeleteRow(w)
    /\ UNCHANGED <<documents, requests, checks, arrivals, told,
                   arrived, early, clobbered, parted, revoked, abandoned, bounds>>

\* The API looks for a prayer that is waiting ...
FindPrayer(w) ==
    /\ prayer[w] = "WAITING" /\ asked < MaxRequests
    /\ asked' = asked + 1
    /\ doomed' = doomed \cup {w}
    /\ UNCHANGED <<prayer, recent, documents, requests, checks, arrivals, told, past, faults>>

\* ... and deletes it by its key, whatever its status is by then.
DestroyPrayer(w) ==
    /\ w \in doomed /\ DeleteRow(w)
    /\ revoked' = IF prayer[w] = "GRANTED" THEN revoked \cup {w} ELSE revoked
    /\ UNCHANGED <<documents, requests, checks, arrivals, told,
                   arrived, early, clobbered, parted, abandoned, bounds>>

RequestStep(w) == CountPrayers(w) \/ CreatePrayer(w) \/ CheckAvailability(w)

----------------------------------------------------------------------------
(* check_prayer_pacer.                                                     *)

EndCheck(w) ==
    /\ check' = [check EXCEPT ![w] = "none"]
    /\ knew' = [knew EXCEPT ![w] = FALSE]

\* The task saves the document it has read before it asked PACER.
SaveOldCopy(w) ==
    /\ DocIsFree(Doc(w))
    /\ available' = [available EXCEPT ![Doc(w)] = knew[w]]
    /\ clobbered' = IF knew[w] THEN clobbered ELSE clobbered \cup ({Doc(w)} \cap arrived)

QueryPacer(w) ==
    /\ check[w] = "queued"
    /\ check' = [check EXCEPT ![w] = "asked"]
    /\ knew' = [knew EXCEPT ![w] = available[Doc(w)]]
    /\ UNCHANGED <<prayers, documents, requests, arrivals, told, past, bounds>>

FindSealed(w) ==
    /\ check[w] = "asked"
    /\ SaveOldCopy(w)
    /\ sealed' = [sealed EXCEPT ![Doc(w)] = "yes"]
    /\ check' = [check EXCEPT ![w] = "sealed"]
    /\ UNCHANGED <<prayers, denial, requests, knew, arrivals, told,
                   arrived, early, overtaken, parted, claimed, revoked, abandoned, bounds>>

RecordDenial(w) ==
    /\ check[w] = "sealed" /\ DenialIsFree(Doc(w))
    /\ denial' = [denial EXCEPT ![Doc(w)] = "recent"]
    /\ EndCheck(w)
    /\ UNCHANGED <<prayers, available, sealed, requests, arrivals, told, past, bounds>>

FindOpen(w) ==
    /\ check[w] = "asked"
    /\ SaveOldCopy(w)
    /\ sealed' = [sealed EXCEPT ![Doc(w)] = "no"]
    /\ check' = [check EXCEPT ![w] = "open"]
    /\ UNCHANGED <<prayers, denial, requests, knew, arrivals, told,
                   arrived, early, overtaken, parted, claimed, revoked, abandoned, bounds>>

\* Deleting a PrayerAvailability unseals its document.
ClearDenial(w) ==
    LET d == Doc(w)
    IN  /\ check[w] = "open" /\ DenialIsFree(d)
        /\ denial[d] # "none" /\ sealed[d] = "yes" => DocIsFree(d)
        /\ denial' = [denial EXCEPT ![d] = "none"]
        /\ sealed' = [sealed EXCEPT ![d] = IF denial[d] # "none" /\ @ = "yes" THEN "no" ELSE @]
        /\ check' = [check EXCEPT ![w] = "counting"]
        /\ UNCHANGED <<prayers, available, requests, knew, arrivals, told, past, bounds>>

\* Only if PACER told the number of pages, and it is not 30.
SavePageCount(w) ==
    /\ check[w] = "counting"
    /\ \/ UNCHANGED <<available, sealed, clobbered>>
       \/ SaveOldCopy(w) /\ sealed' = [sealed EXCEPT ![Doc(w)] = "no"]
    /\ EndCheck(w)
    /\ UNCHANGED <<prayers, denial, requests, arrivals, told,
                   arrived, early, overtaken, parted, claimed, revoked, abandoned, bounds>>

CheckStep(w) ==
    \/ QueryPacer(w) \/ FindSealed(w) \/ RecordDenial(w)
    \/ FindOpen(w) \/ ClearDenial(w) \/ SavePageCount(w)

----------------------------------------------------------------------------
(* fetch_pacer_doc_by_rd.                                                  *)

CopyOf(d) == [available |-> available[d], sealed |-> sealed[d]]

BeginFetch(f) ==
    /\ at[f] = "new"
    /\ at' = [at EXCEPT ![f] = IF available[GoesTo[f]] \/ GoesTo[f] \notin HasId
                                 THEN "done" ELSE "begun"]
    /\ UNCHANGED <<prayers, documents, requests, checks, copy, batch, clears, told, past, bounds>>

\* The document is read again when its file is here.
Download(f) ==
    /\ at[f] = "begun"
    /\ at' = [at EXCEPT ![f] = "read"]
    /\ copy' = [copy EXCEPT ![f] = CopyOf(GoesTo[f])]
    /\ UNCHANGED <<prayers, documents, requests, checks, batch, clears, told, past, bounds>>

DownloadFails(f) ==
    /\ at[f] = "begun"
    /\ at' = [at EXCEPT ![f] = "done"]
    /\ UNCHANGED <<prayers, documents, requests, checks, copy, batch, clears, told, past, bounds>>

Waiting(d) == {w \in WishesFor(d) : prayer[w] = "WAITING"}
Granted(d) == {w \in WishesFor(d) : prayer[w] = "GRANTED"}

\* send_prayer_emails runs if the process that saves has read is_available as
\* False, and returns early if nobody waits.
SaveFetched(f) ==
    LET d == GoesTo[f]
        W == IF copy[f].available THEN {} ELSE Waiting(d)
    IN  /\ at[f] = "read" /\ DocIsFree(d)
        /\ at' = [at EXCEPT ![f] = "saved"]
        /\ batch' = [batch EXCEPT ![f] = W]
        /\ clears' = [clears EXCEPT ![f] = W # {} /\ denial[d] # "none"]
        /\ told' = IF W = {} THEN told ELSE told \cup W \cup Granted(d)
        /\ UNCHANGED <<prayers, documents, requests, checks, copy, past, bounds>>

\* What a has read of its document is of no use to it any more.
Forget(a) == copy' = [copy EXCEPT ![a] = Unread]

CommitFetch(f) ==
    LET d == GoesTo[f]
    IN  /\ at[f] = "saved"
        /\ at' = [at EXCEPT ![f] = "done"]
        /\ available' = [available EXCEPT ![d] = TRUE]
        /\ sealed' = [sealed EXCEPT ![d] = IF clears[f] /\ copy[f].sealed = "yes"
                                             THEN "no" ELSE copy[f].sealed]
        /\ denial' = IF clears[f] THEN [denial EXCEPT ![d] = "none"] ELSE denial
        /\ prayer' = [w \in Wishes |-> IF w \in batch[f] THEN "GRANTED" ELSE prayer[w]]
        /\ arrived' = arrived \cup {d}
        /\ batch' = [batch EXCEPT ![f] = {}]
        /\ clears' = [clears EXCEPT ![f] = FALSE]
        /\ Forget(f)
        /\ UNCHANGED <<recent, doomed, requests, checks, told,
                       early, overtaken, clobbered, parted, claimed, revoked, abandoned, bounds>>

FetchStep(f) ==
    \/ BeginFetch(f) \/ Download(f) \/ DownloadFails(f)
    \/ SaveFetched(f) \/ CommitFetch(f)

----------------------------------------------------------------------------
(* process_recap_pdf.                                                      *)

ReadUpload(u) ==
    /\ at[u] = "new"
    /\ at' = [at EXCEPT ![u] = "read"]
    /\ copy' = [copy EXCEPT ![u] = CopyOf(GoesTo[u])]
    /\ UNCHANGED <<prayers, documents, requests, checks, batch, clears, told, past, bounds>>

\* A document that is here already is saved all the same.
SaveUpload(u) ==
    LET d == GoesTo[u]
    IN  /\ at[u] = "read" /\ DocIsFree(d)
        /\ at' = [at EXCEPT ![u] = IF copy[u].available THEN "done" ELSE "saved"]
        /\ available' = [available EXCEPT ![d] = TRUE]
        /\ sealed' = [sealed EXCEPT ![d] = copy[u].sealed]
        /\ arrived' = arrived \cup {d}
        /\ Forget(u)
        /\ UNCHANGED <<prayers, denial, requests, checks, batch, clears, told,
                       early, overtaken, clobbered, parted, claimed, revoked, abandoned, bounds>>

\* (mutant) the mails are about all prayers for the document
GrantAndMailAll(u) ==
    LET d == GoesTo[u]
    IN  /\ at[u] = "saved" /\ RowsAreFree(d)
        /\ at' = [at EXCEPT ![u] = IF Waiting(d) = {} THEN "done" ELSE "mailing"]
        /\ prayer' = [w \in Wishes |-> IF w \in Waiting(d) THEN "GRANTED" ELSE prayer[w]]
        /\ batch' = [batch EXCEPT ![u] = IF Waiting(d) = {} THEN {} ELSE WishesFor(d)]
        /\ UNCHANGED <<recent, doomed, documents, requests, checks, copy, clears, told, past, bounds>>

\* The prayers are granted, and all that are granted then will be mailed about.
GrantPrayers(u) ==
    LET d == GoesTo[u]
        W == Waiting(d)
    IN  /\ at[u] = "saved" /\ RowsAreFree(d)
        /\ IF W = {}
             THEN /\ at' = [at EXCEPT ![u] = "done"]
                  /\ UNCHANGED <<prayer, sealed, denial, batch>>
             ELSE /\ DenialIsFree(d)
                  /\ denial[d] # "none" /\ sealed[d] = "yes" => DocIsFree(d)
                  /\ at' = [at EXCEPT ![u] = "mailing"]
                  /\ prayer' = [w \in Wishes |-> IF w \in W THEN "GRANTED" ELSE prayer[w]]
                  /\ batch' = [batch EXCEPT ![u] = W \cup Granted(d)]
                  /\ denial' = [denial EXCEPT ![d] = "none"]
                  /\ sealed' = [sealed EXCEPT ![d] =
                                   IF denial[d] # "none" /\ @ = "yes" THEN "no" ELSE @]
        /\ UNCHANGED <<recent, doomed, available, requests, checks, copy, clears, told, past, bounds>>

SendPrayerEmails(u) ==
    /\ at[u] = "mailing"
    /\ at' = [at EXCEPT ![u] = "done"]
    /\ told' = told \cup batch[u]
    /\ batch' = [batch EXCEPT ![u] = {}]
    /\ UNCHANGED <<prayers, documents, requests, checks, copy, clears, past, bounds>>

UploadStep(u) ==
    ReadUpload(u) \/ SaveUpload(u) \/ GrantPrayers(u) \/ SendPrayerEmails(u)

----------------------------------------------------------------------------
(* Faults and the clock.                                                   *)

Fault == faults < MaxFaults /\ faults' = faults + 1

\* The login or Redis fails: the task is tried again.
RetryCheck(w) ==
    /\ Fault
    /\ check[w] = "asked"
    /\ check' = [check EXCEPT ![w] = "queued"]
    /\ UNCHANGED <<prayers, documents, requests, knew, arrivals, told, past, asked>>

CheckDies(w) ==
    /\ Fault
    /\ check[w] # "none"
    /\ EndCheck(w)
    /\ UNCHANGED <<prayers, documents, requests, arrivals, told, past, asked>>

\* PACER's login fails: the transaction is rolled back, the task tried again.
RetryFetch(f) ==
    /\ Fault
    /\ at[f] = "begun"
    /\ at' = [at EXCEPT ![f] = "new"]
    /\ UNCHANGED <<prayers, documents, requests, checks, copy, batch, clears, told, past, asked>>

\* Whatever raises after the document is saved rolls the fetch back; its mail
\* is out.
RollBack(f) ==
    /\ Fault
    /\ at[f] \in {"begun", "read", "saved"}
    /\ at' = [at EXCEPT ![f] = "done"]
    /\ parted' = parted \cup batch[f]
    /\ batch' = [batch EXCEPT ![f] = {}]
    /\ clears' = [clears EXCEPT ![f] = FALSE]
    /\ Forget(f)
    /\ UNCHANGED <<prayers, documents, requests, checks, told,
                   arrived, early, overtaken, clobbered, claimed, revoked, abandoned, asked>>

UploadDies(u) ==
    /\ Fault
    /\ at[u] \in {"read", "saved", "mailing"}
    /\ at' = [at EXCEPT ![u] = "done"]
    /\ parted' = parted \cup (batch[u] \ told)
    /\ batch' = [batch EXCEPT ![u] = {}]
    /\ abandoned' = IF at[u] = "saved" THEN abandoned \cup {GoesTo[u]} ELSE abandoned
    /\ Forget(u)
    /\ UNCHANGED <<prayers, documents, requests, checks, clears, told,
                   arrived, early, overtaken, clobbered, claimed, revoked, asked>>

DayPasses(w) ==
    /\ recent[w]
    /\ recent' = [recent EXCEPT ![w] = FALSE]
    /\ UNCHANGED <<prayer, doomed, documents, requests, checks, arrivals, told, past, bounds>>

WeekPasses(d) ==
    /\ denial[d] = "recent"
    /\ denial' = [denial EXCEPT ![d] = "old"]
    /\ UNCHANGED <<prayers, available, sealed, requests, checks, arrivals, told, past, bounds>>

Next ==
    \/ \E w \in Wishes : ReadDocument(w) \/ RequestStep(w) \/ CheckStep(w)
    \/ \E w \in Wishes : Withdraw(w) \/ FindPrayer(w) \/ DestroyPrayer(w)
    \/ \E f \in Fetches : FetchStep(f)
    \/ \E u \in Uploads : UploadStep(u)
    \/ \E w \in Wishes : RetryCheck(w) \/ CheckDies(w) \/ DayPasses(w)
    \/ \E f \in Fetches : RetryFetch(f) \/ RollBack(f)
    \/ \E u \in Uploads : UploadDies(u)
    \/ \E d \in Docs : WeekPasses(d)

Spec == Init /\ [][Next]_vars

----------------------------------------------------------------------------
(* What must hold.                                                         *)

\* is_available is "True if the item is available in RECAP": of a document
\* whose file has arrived.
AvailableMeansHere == \A d \in arrived : available[d]

\* Nobody waits for a document that has arrived, unless the request began
\* before that and created its prayer after, did not look (the API) or was
\* shown the opposite, or the upload has still to grant or died before.
WaitingIsWarranted ==
    \A w \in Wishes :
        prayer[w] = "WAITING" /\ Doc(w) \in arrived =>
            \/ w \in overtaken \/ w \in ByApi
            \/ Doc(w) \in clobbered \cup abandoned
            \/ \E u \in Uploads : GoesTo[u] = Doc(w) /\ at[u] = "saved"

\* A user is told that the document is here if and only if the prayer is
\* granted, apart from the moments in between, the faults that hit them, and
\* two requests to the API: one that deletes a prayer it found waiting and that
\* was granted since, and one that creates a prayer as granted.
TellingIsExact ==
    \A w \in Wishes \ parted :
        /\ w \in told => \/ prayer[w] = "GRANTED"
                         \/ w \in revoked
                         \/ \E f \in Fetches : at[f] = "saved" /\ w \in batch[f]
        /\ prayer[w] = "GRANTED" => \/ w \in told
                                    \/ w \in claimed
                                    \/ \E u \in Uploads : at[u] = "mailing" /\ w \in batch[u]
=============================================================================
