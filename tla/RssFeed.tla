------------------------------- MODULE RssFeed -------------------------------
(***************************************************************************)
(* Scraping the RSS feed of one court (cl/recap_rss).  A daemon            *)
(* (management/commands/scrape_rss.py) looks at the court's RssFeedStatus  *)
(* rows and starts a chain of celery tasks: check_if_feed_changed,         *)
(* merge_rss_feed_contents, send_alerts_and_webhooks (see DocketAlerts)    *)
(* and mark_status_successful.  Each item is claimed in Redis before it is *)
(* merged, so that chains that overlap do not merge it twice.              *)
(*                                                                         *)
(* A row and its chain share a slot.  Slots of rows that no query can      *)
(* return any more are used again.  Build dates are kept as whether they   *)
(* are that of the feed as it is now.  A tick is five minutes.             *)
(***************************************************************************)
EXTENDS Naturals, FiniteSets

CONSTANTS
    Items,                        \* items the court publishes
    MaxRows,                      \* bound on the rows in use
    RSS_MAX_VISIT_FREQUENCY,      \* in ticks
    RSS_MAX_PROCESSING_DURATION,  \* in ticks
    MaxFailures                   \* bound on tasks that fail or expire

ASSUME FeedAssumption ==
    /\ IsFiniteSet(Items) /\ MaxRows \in Nat /\ MaxFailures \in Nat
    /\ RSS_MAX_VISIT_FREQUENCY \in Nat \ {0}
    /\ RSS_MAX_PROCESSING_DURATION \in Nat \ {0}

VARIABLES
    posted,   \* items in the feed
    older,    \* older[k]: the rows with an earlier date_created
    status,   \* status[k]: status of the row
    built,    \* built[k]: date_last_build is that of the feed as it is now
    age,      \* age[k]: ticks since date_created, capped, unless k failed
    step,     \* step[k]: the task the chain has come to
    given,    \* given[k]: the date_last_built the chain got is that of the feed
    left,     \* left[k]: items of the feed data not yet gone through
    data,     \* data[k]: the feed data
    holding,  \* holding[k]: the item claimed and not yet committed, as a set
    retried,  \* retried[k]: the merge was retried
    claimed,  \* items claimed in Redis
    merged,   \* items whose transaction committed
    failures  \* tasks that failed or expired

row   == <<status, built, age>>
chain == <<step, given, left, data, holding, retried>>
items == <<claimed, merged>>
vars  == <<posted, older, row, chain, items, failures>>

Slots == 1..MaxRows

TypeOK ==
    /\ posted \in SUBSET Items
    /\ older \in [Slots -> SUBSET Slots]
    /\ status \in [Slots -> {"IN_PROGRESS", "SUCCESSFUL", "UNCHANGED", "FAILED"}]
    /\ built \in [Slots -> BOOLEAN]
    /\ age \in [Slots -> 0..RSS_MAX_PROCESSING_DURATION]
    /\ step \in [Slots -> {"check", "merge", "mark", "ended"}]
    /\ given \in [Slots -> BOOLEAN]
    /\ data \in [Slots -> SUBSET Items]
    /\ left \in [Slots -> SUBSET Items]
    /\ holding \in [Slots -> SUBSET Items]
    /\ retried \in [Slots -> BOOLEAN]
    /\ claimed \in SUBSET Items
    /\ merged \in SUBSET claimed
    /\ failures \in Nat

Init ==
    /\ posted = {}
    /\ older = [k \in Slots |-> {}]
    /\ status = [k \in Slots |-> "FAILED"]
    /\ built = [k \in Slots |-> FALSE]
    /\ age = [k \in Slots |-> 0]
    /\ step = [k \in Slots |-> "ended"]
    /\ given = [k \in Slots |-> FALSE]
    /\ left = [k \in Slots |-> {}]
    /\ data = [k \in Slots |-> {}]
    /\ holding = [k \in Slots |-> {}]
    /\ retried = [k \in Slots |-> FALSE]
    /\ claimed = {} /\ merged = {}
    /\ failures = 0

----------------------------------------------------------------------------
(* The daemon.                                                             *)

Running(k) == step[k] # "ended"

\* (mutant) rows in progress are not looked at
FinishedOnly(k) == status[k] \in {"SUCCESSFUL", "UNCHANGED"}

Counted(k) == status[k] \in {"SUCCESSFUL", "UNCHANGED", "IN_PROGRESS"}

\* The rows the daemon's query looks for, and the one that latest() returns.
Candidates == {k \in Slots : Counted(k)}
Latest     == CHOOSE k \in Candidates : Candidates \ {k} \subseteq older[k]

\* Was the court visited recently, or is it in progress just a little while?
TooSoon(k) ==
    \/ age[k] < RSS_MAX_VISIT_FREQUENCY
    \/ status[k] = "IN_PROGRESS" /\ age[k] < RSS_MAX_PROCESSING_DURATION

\* There is no row, or no query will return it: it failed, or its chain ended
\* and so did that of a later one.
Free(k) ==
    /\ ~Running(k)
    /\ Counted(k) => \E j \in Slots : k \in older[j] /\ Counted(j) /\ ~Running(j)

InUse == {k \in Slots : ~Free(k)}

Visit ==
    /\ Candidates # {} => ~TooSoon(Latest)
    /\ \E k \in Slots :
          /\ Free(k) /\ \A j \in 1..(k - 1) : ~Free(j)
          /\ older' = [j \in Slots |-> IF j = k THEN InUse
                                       ELSE IF Free(j) THEN {} ELSE older[j] \cap InUse]
          /\ status' = [j \in Slots |-> IF j = k THEN "IN_PROGRESS"
                                        ELSE IF Free(j) THEN "FAILED" ELSE status[j]]
          /\ built' = [j \in Slots |-> built[j] /\ ~Free(j)]
          /\ age' = [j \in Slots |-> IF Free(j) THEN 0 ELSE age[j]]
          /\ step' = [step EXCEPT ![k] = "check"]
          /\ given' = [given EXCEPT ![k] = Candidates # {} /\ built[Latest]]
    /\ UNCHANGED <<posted, left, data, holding, retried, items, failures>>

----------------------------------------------------------------------------
(* check_if_feed_changed.                                                  *)

\* The chain ends.
End(k) ==
    /\ step' = [step EXCEPT ![k] = "ended"]
    /\ given' = [given EXCEPT ![k] = FALSE]
    /\ data' = [data EXCEPT ![k] = {}]
    /\ left' = [left EXCEPT ![k] = {}]
    /\ holding' = [holding EXCEPT ![k] = {}]
    /\ retried' = [retried EXCEPT ![k] = FALSE]

Fail == failures < MaxFailures /\ failures' = failures + 1

\* The message of the first task waits until it expires.
Expire(k) ==
    /\ Fail
    /\ step[k] = "check" /\ age[k] + 1 = RSS_MAX_PROCESSING_DURATION
    /\ End(k)
    /\ UNCHANGED <<posted, older, row, items>>

FeedUnchanged(k) ==
    /\ step[k] = "check" /\ given[k]
    /\ built' = [built EXCEPT ![k] = TRUE]
    /\ status' = [status EXCEPT ![k] = "UNCHANGED"]
    /\ End(k)
    /\ UNCHANGED <<posted, older, age, items, failures>>

FeedChanged(k) ==
    /\ step[k] = "check" /\ ~given[k]
    /\ built' = [built EXCEPT ![k] = TRUE]
    /\ data' = [data EXCEPT ![k] = posted]
    /\ left' = [left EXCEPT ![k] = posted]
    /\ step' = [step EXCEPT ![k] = "merge"]
    /\ UNCHANGED <<posted, older, status, age, given, holding, retried, items, failures>>

\* The court does not answer, answers with an error or without a date, or the
\* feed cannot be saved.  The date of a row that failed is never looked at.
CheckFails(k) ==
    /\ Fail
    /\ step[k] = "check"
    /\ status' = [status EXCEPT ![k] = "FAILED"]
    /\ End(k)
    /\ UNCHANGED <<posted, older, built, age, items>>

----------------------------------------------------------------------------
(* merge_rss_feed_contents.                                                *)

\* (mutant) the feed is claimed as a whole
ClaimAll(k, i) ==
    /\ step[k] = "merge" /\ holding[k] = {} /\ i \in left[k] \ claimed
    /\ claimed' = claimed \cup left[k]
    /\ holding' = [holding EXCEPT ![k] = left[k] \ claimed]
    /\ left' = [left EXCEPT ![k] = {}]
    /\ UNCHANGED <<posted, older, row, step, given, data, retried, merged, failures>>

\* (mutant) the item is claimed when it is merged, if ever
ClaimLate(k, i) ==
    /\ step[k] = "merge" /\ holding[k] = {} /\ i \in left[k] \ claimed
    /\ holding' = [holding EXCEPT ![k] = {i}]
    /\ left' = [left EXCEPT ![k] = @ \ {i}]
    /\ UNCHANGED <<posted, older, row, step, given, data, retried, items, failures>>

\* SET NX succeeds.
ClaimItem(k, i) ==
    /\ step[k] = "merge" /\ holding[k] = {} /\ i \in left[k] \ claimed
    /\ claimed' = claimed \cup {i}
    /\ holding' = [holding EXCEPT ![k] = {i}]
    /\ left' = [left EXCEPT ![k] = @ \ {i}]
    /\ UNCHANGED <<posted, older, row, step, given, data, retried, merged, failures>>

\* (mutant) the loop ends at the first item seen before
StopAtSeenItem(k, i) ==
    /\ step[k] = "merge" /\ holding[k] = {} /\ i \in left[k] \cap claimed
    /\ left' = [left EXCEPT ![k] = {}]
    /\ UNCHANGED <<posted, older, row, step, given, data, holding, retried, items, failures>>

SkipItem(k, i) ==
    /\ step[k] = "merge" /\ holding[k] = {} /\ i \in left[k] \cap claimed
    /\ left' = [left EXCEPT ![k] = @ \ {i}]
    /\ UNCHANGED <<posted, older, row, step, given, data, holding, retried, items, failures>>

CommitItem(k) ==
    /\ holding[k] # {}
    /\ merged' = merged \cup holding[k]
    /\ holding' = [holding EXCEPT ![k] = {}]
    /\ UNCHANGED <<posted, older, row, step, given, left, data, retried, claimed, failures>>

\* IntegrityError: the whole feed once more.
RetryMerge(k) ==
    /\ Fail
    /\ holding[k] # {} /\ ~retried[k]
    /\ retried' = [retried EXCEPT ![k] = TRUE]
    /\ left' = [left EXCEPT ![k] = data[k]]
    /\ holding' = [holding EXCEPT ![k] = {}]
    /\ UNCHANGED <<posted, older, row, step, given, data, items>>

\* A second one, any other exception, or the worker dies: in the check after it
\* stored the date, in the merge, or in the alerts.
ChainDies(k) ==
    /\ Fail
    /\ step[k] \in {"merge", "mark"}
    /\ End(k)
    /\ UNCHANGED <<posted, older, row, items>>

EndMerge(k) ==
    /\ step[k] = "merge" /\ left[k] = {} /\ holding[k] = {}
    /\ step' = [step EXCEPT ![k] = "mark"]
    /\ UNCHANGED <<posted, older, row, given, left, data, holding, retried, items, failures>>

\* mark_status_successful, after the alerts.  It saves the whole row it reads.
MarkSuccessful(k) ==
    /\ step[k] = "mark"
    /\ status' = [status EXCEPT ![k] = "SUCCESSFUL"]
    /\ End(k)
    /\ UNCHANGED <<posted, older, built, age, items, failures>>

ChainStep(k) ==
    \/ FeedUnchanged(k) \/ FeedChanged(k)
    \/ \E i \in Items : ClaimItem(k, i) \/ SkipItem(k, i)
    \/ CommitItem(k) \/ EndMerge(k) \/ MarkSuccessful(k)

ChainFault(k) == Expire(k) \/ CheckFails(k) \/ RetryMerge(k) \/ ChainDies(k)

----------------------------------------------------------------------------
(* The court and the clock.                                                *)

\* The court builds the feed anew, with or without new items.  An item stays in
\* it for about a day, for many visits; its claim lives for two.
Rebuild ==
    /\ \E P \in SUBSET Items : posted \subseteq P /\ posted' = P
    /\ built' = [k \in Slots |-> FALSE]
    /\ given' = [k \in Slots |-> FALSE]
    /\ UNCHANGED <<older, status, age, step, left, data, holding, retried, items, failures>>

\* Five minutes pass.  A first task that does not expire is taken up in time.
Tick ==
    /\ \A k \in Slots : step[k] = "check" => age[k] + 1 < RSS_MAX_PROCESSING_DURATION
    /\ age' = [k \in Slots |->
                  IF Counted(k) /\ age[k] < RSS_MAX_PROCESSING_DURATION
                    THEN age[k] + 1 ELSE age[k]]
    /\ UNCHANGED <<posted, older, status, built, chain, items, failures>>

Next ==
    \/ Visit
    \/ \E k \in Slots : ChainStep(k) \/ ChainFault(k)
    \/ Rebuild
    \/ Tick

Spec == Init /\ [][Next]_vars

\* The daemon and the workers go on, time passes, and courts build their feeds
\* again and again.
FairSpec ==
    /\ Spec
    /\ WF_vars(Visit)
    /\ \A k \in Slots : WF_vars(ChainStep(k))
    /\ WF_vars(Tick)
    /\ WF_vars(Rebuild)

----------------------------------------------------------------------------
(* What must hold.                                                         *)

Held == UNION {holding[k] : k \in Slots}

\* An item that was claimed is merged or being merged; each failure costs no
\* more than one.
OneItemPerFailure == Cardinality((claimed \ merged) \ Held) <= failures

\* Two chains of the court run at the same time only when the older one has
\* been running for RSS_MAX_PROCESSING_DURATION.
OverlapIsLate ==
    \A i, j \in Slots :
        i \in older[j] /\ Running(i) /\ Running(j) => age[i] = RSS_MAX_PROCESSING_DURATION

\* An item that is published gets merged, unless a failure hit its transaction.
ItemsAreMerged ==
    \A i \in Items : i \in posted ~> i \in merged \/ i \in (claimed \ merged) \ Held
=============================================================================
