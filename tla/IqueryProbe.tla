---------------------------- MODULE IqueryProbe ----------------------------
(***************************************************************************)
(* Discovery of new PACER cases in one court: the probing daemon           *)
(* (probe_iquery_pages_daemon.py), the celery task that probes case ids    *)
(* above the highest known one (probe_or_scrape_iquery_pages in            *)
(* corpus_importer/tasks.py), and the sweep that schedules a download for  *)
(* every id skipped (corpus_importer/signals.py), which saves of uploaded  *)
(* dockets trigger as well.  All of them share a handful of Redis keys,    *)
(* guarded by a semaphore and a lock that both expire (lib/redis_utils.py).*)
(*                                                                         *)
(* Courts share no key, so there is one court.  Case ids are numbers; the  *)
(* court has assigned those up to filed, and answers a query for an        *)
(* assigned id with a page unless the case is sealed.                      *)
(***************************************************************************)
EXTENDS Integers

CONSTANTS
    Probes,                  \* executions of the probe task
    Uploads,                 \* processes that save uploaded dockets
    None,                    \* the lock is free
    Orphan,                  \* the lock is held by a process that died
    Start,                   \* where ready_mix_cases_project seeded the court
    MaxCase,                 \* bound on the ids the court assigns
    Sealed,                  \* ids that are not public
    LATEST_KNOWN,            \* latest_know_case_id_db, 0 for None
    IQUERY_PROBE_MAX_OFFSET, \* 400 in the settings
    IQUERY_MAX_PROBE,        \* 32
    IQUERY_FIXED_SWEEP,      \* 100
    BLOCKED_WAIT,            \* IQUERY_COURT_BLOCKED_WAIT, 600 s
    BLOCKED_MAX_ATTEMPTS,    \* 6
    EMPTY_LIMIT,             \* empty probes in IQUERY_EMPTY_PROBES_LIMIT_HOURS
    MaxUploads,              \* bound on saves of uploaded dockets
    MaxFaults,               \* bound on failed queries and failed saves
    MaxCrashes,              \* bound on processes that die
    MaxExpiries              \* bound on keys that expire while in use

Procs == Probes \cup Uploads

\* The iteration from which the steps stop doubling.
CapIteration ==
    CHOOSE k \in 1..(IQUERY_MAX_PROBE + 1) : 2 ^ (k - 1) <= IQUERY_MAX_PROBE
                                             /\ IQUERY_MAX_PROBE < 2 ^ k

\* Probing one id too many schedules this many downloads at most.
SweepLimit == IQUERY_PROBE_MAX_OFFSET + IQUERY_MAX_PROBE

ASSUME ProcAssumption ==
    /\ Probes \cap Uploads = {}
    /\ None \notin Procs /\ Orphan \notin Procs /\ None # Orphan

ASSUME ProbeAssumption ==
    /\ Start \in Nat /\ MaxCase \in Nat /\ LATEST_KNOWN \in Nat
    /\ IQUERY_PROBE_MAX_OFFSET \in Nat \ {0}
    /\ IQUERY_MAX_PROBE \in Nat \ {0} /\ IQUERY_MAX_PROBE % 2 = 0
    /\ IQUERY_FIXED_SWEEP \in Nat \ {0}
    /\ IQUERY_FIXED_SWEEP < SweepLimit
    /\ CapIteration \in Nat \ {0}
    /\ BLOCKED_WAIT \in Nat \ {0} /\ BLOCKED_MAX_ATTEMPTS \in Nat /\ EMPTY_LIMIT \in Nat
    /\ MaxUploads \in Nat /\ MaxFaults \in Nat /\ MaxCrashes \in Nat /\ MaxExpiries \in Nat

\* While the steps double, none is larger than IQUERY_MAX_PROBE.
ASSUME DoublingAssumption ==
    \A i \in 1..(CapIteration - 1) :
        /\ 2 ^ (i - 1) \in Nat \ {0}
        /\ 2 ^ i <= 2 ^ (i - 1) + IQUERY_MAX_PROBE
        /\ 2 ^ (i - 1) <= IQUERY_MAX_PROBE

VARIABLES
    highest,     \* iquery:highest_known_pacer_case_id
    current,     \* iquery:pacer_case_id_current
    lock,        \* update.pacer_case_id: who holds it
    semaphore,   \* iquery.probing.enqueued: does the key exist
    wait,        \* iquery:court_wait: its value, 0 when there is no key
    blocked,     \* iquery:court_blocked_attempts
    empty,       \* iquery:court_empty_probe_attempts
    daemon,      \* where the daemon stands in its loop over the courts
    pc,          \* pc[p]: where the process stands
    from,        \* from[p]: the highest known id the task has read
    jitter,      \* jitter[p]
    iteration,   \* iteration[p]: probe_iteration
    offset,      \* offset[p]: probe_offset
    match,       \* match[p]: latest_match, 0 when there was none
    target,      \* target[p]: incoming_pacer_case_id of a sweep
    cursor,      \* cursor[p]: iquery_pacer_case_id_current in the sweep
    scheduled,   \* ids for which make_docket_by_iquery_sweep was scheduled
    repeated,    \* ids for which it was scheduled more than once
    filed,       \* the ids the court has assigned are 1..filed
    uploads, faults, crashes, expiries  \* counters of the bounded events

marks    == <<highest, current>>
court    == <<wait, blocked, empty>>
probing  == <<from, jitter, iteration, offset, match>>
sweeping == <<target, cursor>>
result   == <<scheduled, repeated>>
bounds   == <<uploads, faults, crashes, expiries>>
vars     == <<marks, lock, semaphore, court, daemon, pc, probing, sweeping,
              result, filed, bounds>>

\* Between acquire_redis_lock and the end of release_redis_lock.
Holding == {"read", "compare", "raise", "schedule", "release"}
Sweeping == Holding \cup {"lock"}
Stands == Sweeping \cup {"idle", "queued", "probing", "probed", "finish"}

TypeOK ==
    /\ highest \in Nat /\ current \in Nat
    /\ lock \in Procs \cup {None, Orphan}
    /\ semaphore \in BOOLEAN
    /\ wait \in Nat /\ blocked \in Nat /\ empty \in Nat
    /\ daemon \in {"checking", "enqueueing"}
    /\ pc \in [Procs -> Stands]
    /\ from \in [Procs -> Nat]
    /\ jitter \in [Procs -> Nat]
    /\ iteration \in [Procs -> Nat]
    /\ offset \in [Procs -> Nat]
    /\ match \in [Procs -> Nat]
    /\ target \in [Procs -> Nat]
    /\ cursor \in [Procs -> Nat]
    /\ scheduled \in SUBSET Nat /\ repeated \in SUBSET Nat
    /\ filed \in Nat
    /\ uploads \in Nat /\ faults \in Nat /\ crashes \in Nat /\ expiries \in Nat

Init ==
    /\ highest = Start /\ current = Start
    /\ lock = None /\ semaphore = FALSE
    /\ wait = 0 /\ blocked = 0 /\ empty = 0
    /\ daemon = "checking"
    /\ pc = [p \in Procs |-> "idle"]
    /\ from = [p \in Procs |-> 0]
    /\ jitter = [p \in Procs |-> 0]
    /\ iteration = [p \in Procs |-> 0]
    /\ offset = [p \in Procs |-> 0]
    /\ match = [p \in Procs |-> 0]
    /\ target = [p \in Procs |-> 0]
    /\ cursor = [p \in Procs |-> 0]
    /\ scheduled = {} /\ repeated = {}
    /\ filed = Start
    /\ uploads = 0 /\ faults = 0 /\ crashes = 0 /\ expiries = 0

----------------------------------------------------------------------------
(* The daemon, the court, and the start of a probe.                        *)

Goto(p, from_, to) == pc[p] = from_ /\ pc' = [pc EXCEPT ![p] = to]

\* r.exists(wait_key) for the court, which is skipped while the key exists.
CheckWait ==
    /\ daemon = "checking" /\ wait = 0
    /\ daemon' = "enqueueing"
    /\ UNCHANGED <<marks, lock, semaphore, court, pc, probing, sweeping, result, filed,
                   bounds>>

\* create_redis_semaphore: the key exists, leave the court alone ...
FindSemaphore ==
    /\ daemon = "enqueueing" /\ semaphore
    /\ daemon' = "checking"
    /\ UNCHANGED <<marks, lock, semaphore, court, pc, probing, sweeping, result, filed,
                   bounds>>

\* ... or create it and enqueue a probe.
EnqueueProbe(p) ==
    /\ daemon = "enqueueing" /\ ~semaphore
    /\ daemon' = "checking"
    /\ semaphore' = TRUE
    /\ Goto(p, "idle", "queued")
    /\ UNCHANGED <<marks, lock, court, probing, sweeping, result, filed, bounds>>

\* The court assigns the next case id.
FileCase ==
    /\ filed < MaxCase
    /\ filed' = filed + 1
    /\ UNCHANGED <<marks, lock, semaphore, court, daemon, pc, probing, sweeping, result,
                   bounds>>

HasPage(id) == id <= filed /\ id \notin Sealed

\* do_fixed_sweep: the court is far behind what the database knew.
FixedSweep(h) == h + IQUERY_FIXED_SWEEP < LATEST_KNOWN

\* compute_binary_probe_jitter
Jitters(h) == IF FixedSweep(h) THEN {0} ELSE 1..(IQUERY_MAX_PROBE \div 2)

StartProbe(p) ==
    /\ Goto(p, "queued", "probing")
    /\ from' = [from EXCEPT ![p] = highest]
    /\ \E j \in Jitters(highest) : jitter' = [jitter EXCEPT ![p] = j]
    /\ iteration' = [iteration EXCEPT ![p] = 1]
    /\ offset' = [offset EXCEPT ![p] = 0]
    /\ match' = [match EXCEPT ![p] = 0]
    /\ UNCHANGED <<marks, lock, semaphore, court, daemon, sweeping, result, filed,
                   bounds>>

----------------------------------------------------------------------------
(* The probe: one query after the other, up from the highest known id.     *)

\* compute_next_binary_probe, relative to the highest known id
geometric_offset(i) ==
    IF i < CapIteration THEN 2 ^ (i - 1) ELSE (i - CapIteration + 1) * IQUERY_MAX_PROBE

\* (mutant) the first query is jittered as well
next_probe_jittered(i, j) == geometric_offset(i) + j

next_binary_probe(i, j) == geometric_offset(i) + (IF i = 1 THEN 0 ELSE j)

ProbeLimit(p) == IF FixedSweep(from[p]) THEN 1 ELSE IQUERY_PROBE_MAX_OFFSET

\* (mutant) the loop goes by the step of the last query and forgets its jitter
MayQueryUnjittered(p) ==
    /\ pc[p] = "probing"
    /\ (IF iteration[p] = 1 THEN 0 ELSE geometric_offset(iteration[p] - 1)) < ProbeLimit(p)

\* The condition of the while loop.
MayQuery(p) == pc[p] = "probing" /\ offset[p] + jitter[p] < ProbeLimit(p)

NextOffset(p) == next_binary_probe(iteration[p], jitter[p])
NextId(p) == from[p] + NextOffset(p)

Advance(p) ==
    /\ iteration' = [iteration EXCEPT ![p] = @ + 1]
    /\ offset' = [offset EXCEPT ![p] = NextOffset(p)]

QueryHit(p) ==
    /\ MayQuery(p) /\ HasPage(NextId(p))
    /\ Advance(p)
    /\ match' = [match EXCEPT ![p] = NextId(p)]
    /\ blocked' = 0 /\ empty' = 0
    /\ UNCHANGED <<marks, lock, semaphore, wait, daemon, pc, from, jitter, sweeping,
                   result, filed, bounds>>

\* A blank page ends the probe once there was a hit.
QueryBlank(p) ==
    /\ MayQuery(p) /\ ~HasPage(NextId(p))
    /\ Advance(p)
    /\ pc' = [pc EXCEPT ![p] = IF match[p] = 0 THEN @ ELSE "probed"]
    /\ UNCHANGED <<marks, lock, semaphore, court, daemon, from, jitter, match,
                   sweeping, result, filed, bounds>>

\* The local variables of the loop are not used any more.
LeaveLoop(p) ==
    /\ from' = [from EXCEPT ![p] = 0]
    /\ jitter' = [jitter EXCEPT ![p] = 0]
    /\ iteration' = [iteration EXCEPT ![p] = 0]
    /\ offset' = [offset EXCEPT ![p] = 0]
    /\ match' = [match EXCEPT ![p] = 0]

Fault == faults < MaxFaults /\ faults' = faults + 1

\* TimeoutException: leave the loop with what was found so far.
QueryTimesOut(p) ==
    /\ MayQuery(p) /\ Fault
    /\ Advance(p)
    /\ pc' = [pc EXCEPT ![p] = "probed"]
    /\ UNCHANGED <<marks, lock, semaphore, court, daemon, from, jitter, match, sweeping,
                   result, filed, uploads, crashes, expiries>>

\* delete_redis_semaphore and return, dropping what was found.
GiveUp(p) ==
    /\ pc' = [pc EXCEPT ![p] = "idle"]
    /\ LeaveLoop(p)
    /\ semaphore' = FALSE
    /\ UNCHANGED <<marks, lock, empty, daemon, sweeping, result, filed, uploads, crashes,
                   expiries>>

\* RequestError
QueryFails(p) ==
    /\ MayQuery(p) /\ Fault
    /\ GiveUp(p)
    /\ UNCHANGED <<wait, blocked>>

\* compute_blocked_court_wait
blocked_court_wait(n) == BLOCKED_WAIT * 2 ^ (n - 1)

ASSUME WaitAssumption == \A n \in 1..BLOCKED_MAX_ATTEMPTS : blocked_court_wait(n) \in Nat

\* HTTPStatusError: the court has blocked us, or is down.
QueryBlocked(p) ==
    /\ MayQuery(p) /\ Fault
    /\ IF blocked + 1 > BLOCKED_MAX_ATTEMPTS
       THEN blocked' = 0 /\ wait' = BLOCKED_WAIT
       ELSE blocked' = blocked + 1 /\ wait' = blocked_court_wait(blocked + 1)
    /\ GiveUp(p)

\* The loop is over, by its condition or by a break.
Probed(p) ==
    \/ pc[p] = "probed"
    \/ pc[p] = "probing" /\ offset[p] + jitter[p] >= ProbeLimit(p)

\* Catching up: the sweep covers a fixed number of ids, whatever was found.
DecideFixedSweep(p) ==
    /\ Probed(p) /\ FixedSweep(from[p])
    /\ target' = [target EXCEPT ![p] = from[p] + IQUERY_FIXED_SWEEP]
    /\ LeaveLoop(p)
    /\ pc' = [pc EXCEPT ![p] = "lock"]
    /\ UNCHANGED <<marks, lock, semaphore, court, daemon, cursor, result, filed,
                   bounds>>

\* (mutant) the semaphore is deleted before the reports are processed
SaveReportsUnguarded(p) ==
    /\ Probed(p) /\ ~FixedSweep(from[p]) /\ match[p] # 0
    /\ target' = [target EXCEPT ![p] = match[p]]
    /\ LeaveLoop(p)
    /\ pc' = [pc EXCEPT ![p] = "lock"]
    /\ semaphore' = FALSE
    /\ UNCHANGED <<marks, lock, court, daemon, cursor, result, filed, bounds>>

\* The docket of the last hit is saved, and its post_save signal starts the
\* sweep; the dockets of the other hits are saved with skip_iquery_sweep.
SaveReports(p) ==
    /\ Probed(p) /\ ~FixedSweep(from[p]) /\ match[p] # 0
    /\ target' = [target EXCEPT ![p] = match[p]]
    /\ LeaveLoop(p)
    /\ pc' = [pc EXCEPT ![p] = "lock"]
    /\ UNCHANGED <<marks, lock, semaphore, court, daemon, cursor, result, filed,
                   bounds>>

\* IntegrityError in each of the three attempts to save the last hit.
SaveFails(p) ==
    /\ Probed(p) /\ ~FixedSweep(from[p]) /\ match[p] # 0
    /\ Fault
    /\ LeaveLoop(p)
    /\ pc' = [pc EXCEPT ![p] = "finish"]
    /\ UNCHANGED <<marks, lock, semaphore, court, daemon, sweeping, result, filed,
                   uploads, crashes, expiries>>

\* Nothing was found.  Not counted over the weekend; after many such probes
\* the court rests for an hour.
EmptyProbe(p) ==
    /\ Probed(p) /\ ~FixedSweep(from[p]) /\ match[p] = 0
    /\ \/ UNCHANGED <<empty, wait>>
       \/ empty + 1 < EMPTY_LIMIT /\ empty' = empty + 1 /\ UNCHANGED wait
       \/ empty + 1 >= EMPTY_LIMIT /\ empty' = 0 /\ wait' = 3600
    /\ LeaveLoop(p)
    /\ pc' = [pc EXCEPT ![p] = "finish"]
    /\ UNCHANGED <<marks, lock, semaphore, blocked, daemon, sweeping, result, filed,
                   bounds>>

FinishProbe(p) ==
    /\ Goto(p, "finish", "idle")
    /\ semaphore' = FALSE
    /\ UNCHANGED <<marks, lock, court, daemon, probing, sweeping, result, filed, bounds>>

----------------------------------------------------------------------------
(* update_latest_case_id_and_schedule_iquery_sweep                         *)

\* A docket of the court is saved by an upload.
Upload(u) ==
    /\ uploads < MaxUploads
    /\ uploads' = uploads + 1
    /\ Goto(u, "idle", "lock")
    /\ \E id \in 1..filed : HasPage(id) /\ target' = [target EXCEPT ![u] = id]
    /\ UNCHANGED <<marks, lock, semaphore, court, daemon, probing, cursor, result, filed,
                   faults, crashes, expiries>>

\* (mutant) SET without NX
AcquireLockAnyway(p) ==
    /\ Goto(p, "lock", "read")
    /\ lock' = p
    /\ UNCHANGED <<marks, semaphore, court, daemon, probing, sweeping, result, filed, bounds>>

\* acquire_redis_lock: SET NX succeeds.
AcquireLock(p) ==
    /\ Goto(p, "lock", "read")
    /\ lock = None
    /\ lock' = p
    /\ UNCHANGED <<marks, semaphore, court, daemon, probing, sweeping, result, filed, bounds>>

\* (mutant) the id is not compared with the highest known one
ReadHighestUncompared(p) ==
    /\ Goto(p, "read", "compare")
    /\ UNCHANGED <<marks, lock, semaphore, court, daemon, probing, sweeping, result, filed,
                   bounds>>

ReadHighest(p) ==
    /\ Goto(p, "read", IF target[p] > highest THEN "compare" ELSE "release")
    /\ UNCHANGED <<marks, lock, semaphore, court, daemon, probing, sweeping, result, filed,
                   bounds>>

TooMany(p) == target[p] - current > SweepLimit

\* (mutant) the sweep starts one id early
ReadCurrentOneBack(p) ==
    /\ Goto(p, "compare", IF TooMany(p) THEN "release" ELSE "raise")
    /\ cursor' = [cursor EXCEPT ![p] = current - 1]
    /\ UNCHANGED <<marks, lock, semaphore, court, daemon, probing, target, result, filed,
                   bounds>>

\* More tasks than SweepLimit: give up before anything is scheduled.
ReadCurrent(p) ==
    /\ Goto(p, "compare", IF TooMany(p) THEN "release" ELSE "raise")
    /\ cursor' = [cursor EXCEPT ![p] = current]
    /\ UNCHANGED <<marks, lock, semaphore, court, daemon, probing, target, result, filed,
                   bounds>>

\* (mutant) both marks are written before the ids are scheduled
RaiseBoth(p) ==
    /\ Goto(p, "raise", "schedule")
    /\ highest' = target[p] /\ current' = target[p] - 1
    /\ UNCHANGED <<lock, semaphore, court, daemon, probing, sweeping, result, filed,
                   bounds>>

RaiseHighest(p) ==
    /\ Goto(p, "raise", "schedule")
    /\ highest' = target[p]
    /\ UNCHANGED <<current, lock, semaphore, court, daemon, probing, sweeping, result, filed,
                   bounds>>

ScheduleNext(p) ==
    /\ pc[p] = "schedule" /\ cursor[p] + 1 < target[p]
    /\ cursor' = [cursor EXCEPT ![p] = @ + 1]
    /\ scheduled' = scheduled \cup {cursor[p] + 1}
    /\ repeated' = repeated \cup ({cursor[p] + 1} \cap scheduled)
    /\ UNCHANGED <<marks, lock, semaphore, court, daemon, pc, probing, target, filed, bounds>>

\* (mutant) the id that was found counts as scheduled
StoreTarget(p) ==
    /\ cursor[p] + 1 >= target[p]
    /\ Goto(p, "schedule", "release")
    /\ current' = target[p]
    /\ UNCHANGED <<highest, lock, semaphore, court, daemon, probing, sweeping, result, filed,
                   bounds>>

StoreCurrent(p) ==
    /\ cursor[p] + 1 >= target[p]
    /\ Goto(p, "schedule", "release")
    /\ current' = cursor[p]
    /\ UNCHANGED <<highest, lock, semaphore, court, daemon, probing, sweeping, result, filed,
                   bounds>>

EndSweep(p) ==
    /\ target' = [target EXCEPT ![p] = 0]
    /\ cursor' = [cursor EXCEPT ![p] = 0]

\* release_redis_lock deletes the key only if it still holds our identifier.
ReleaseLock(p) ==
    /\ Goto(p, "release", IF p \in Probes THEN "finish" ELSE "idle")
    /\ lock' = IF lock = p THEN None ELSE lock
    /\ EndSweep(p)
    /\ UNCHANGED <<marks, semaphore, court, daemon, probing, result, filed, bounds>>

----------------------------------------------------------------------------
(* Keys that expire, and processes that die.                               *)

\* (mutant) the lock has no TTL that frees it from the dead
LockExpiresAlive ==
    /\ lock \notin {None, Orphan} /\ expiries < MaxExpiries
    /\ expiries' = expiries + 1
    /\ lock' = None
    /\ UNCHANGED <<marks, semaphore, court, daemon, pc, probing, sweeping, result, filed,
                   uploads, faults, crashes>>

\* The 60 seconds of the lock are over: early, if its holder is alive.
LockExpires ==
    /\ lock # None
    /\ \/ lock = Orphan /\ UNCHANGED expiries
       \/ lock # Orphan /\ expiries < MaxExpiries /\ expiries' = expiries + 1
    /\ lock' = None
    /\ UNCHANGED <<marks, semaphore, court, daemon, pc, probing, sweeping, result, filed,
                   uploads, faults, crashes>>

NoProbe == \A p \in Probes : pc[p] = "idle"

\* The ten minutes of the semaphore are over.
SemaphoreExpires ==
    /\ semaphore
    /\ \/ NoProbe /\ UNCHANGED expiries
       \/ ~NoProbe /\ expiries < MaxExpiries /\ expiries' = expiries + 1
    /\ semaphore' = FALSE
    /\ UNCHANGED <<marks, lock, court, daemon, pc, probing, sweeping, result, filed, uploads,
                   faults, crashes>>

WaitExpires ==
    /\ wait # 0
    /\ wait' = 0
    /\ UNCHANGED <<marks, lock, semaphore, blocked, empty, daemon, pc, probing, sweeping,
                   result, filed, bounds>>

\* A worker is killed, or an exception nobody catches ends the task (a
\* PacerLoginException, a lost Redis connection): no finally, so the keys stay.
Die(p) ==
    /\ pc[p] # "idle" /\ crashes < MaxCrashes
    /\ crashes' = crashes + 1
    /\ pc' = [pc EXCEPT ![p] = "idle"]
    /\ lock' = IF lock = p THEN Orphan ELSE lock
    /\ LeaveLoop(p) /\ EndSweep(p)
    /\ UNCHANGED <<marks, semaphore, court, daemon, result, filed, uploads, faults, expiries>>

----------------------------------------------------------------------------
ProbeStep(p) ==
    \/ StartProbe(p) \/ QueryHit(p) \/ QueryBlank(p)
    \/ DecideFixedSweep(p) \/ SaveReports(p) \/ EmptyProbe(p) \/ FinishProbe(p)

ProbeFault(p) ==
    \/ QueryTimesOut(p) \/ QueryFails(p) \/ QueryBlocked(p) \/ SaveFails(p)

SweepStep(p) ==
    \/ AcquireLock(p) \/ ReadHighest(p) \/ ReadCurrent(p) \/ RaiseHighest(p)
    \/ ScheduleNext(p) \/ StoreCurrent(p) \/ ReleaseLock(p)

DaemonStep == CheckWait \/ FindSemaphore \/ (\E p \in Probes : EnqueueProbe(p))

Next ==
    \/ DaemonStep \/ FileCase
    \/ \E p \in Probes : ProbeStep(p) \/ ProbeFault(p)
    \/ \E u \in Uploads : Upload(u)
    \/ \E p \in Procs : SweepStep(p) \/ Die(p)
    \/ LockExpires \/ SemaphoreExpires \/ WaitExpires

Spec == Init /\ [][Next]_vars

\* The daemon loops, workers run the tasks they took, and keys with a TTL do
\* not outlive their use for ever.  The court need not assign ids, nobody has
\* to upload, nothing has to fail.
FairSpec ==
    /\ Spec
    /\ WF_vars(DaemonStep)
    /\ \A p \in Probes : WF_vars(ProbeStep(p))
    /\ \A p \in Procs : WF_vars(SweepStep(p))
    /\ WF_vars(LockExpires /\ expiries' = expiries)
    /\ WF_vars(SemaphoreExpires /\ expiries' = expiries)
    /\ WF_vars(WaitExpires)

----------------------------------------------------------------------------
(* What must hold.                                                         *)

\* The sweep's mark never runs ahead of its work: every id between the seed
\* and pacer_case_id_current has been scheduled, whatever dies half-way
\* through a sweep and whoever's lock expires under it.
SweptIsScheduled == (Start + 1)..current \subseteq scheduled

\* Without deaths and expiries no id is downloaded twice, however probes and
\* uploads race for the same range.
ScheduledOnce == crashes = 0 /\ expiries = 0 => repeated = {}

\* Neither mark ever falls back while the lock lasts as long as its sweep.
MarksOnlyRise ==
    [][expiries' = 0 => highest' >= highest /\ current' >= current]_vars

\* To the downloads the sweeps of all processes look like the one reader of
\* CaseSweep, until a lock expires under its sweep: no two at a time, each
\* from where the last one that was not cut short had come to, up to the case
\* that started it, with no id left out and none scheduled again but those of
\* a sweep that died.
Scheduling == {p \in Procs : pc[p] = "schedule"}

Reader == INSTANCE CaseSweep WITH
              known <- highest,
              sweeping <- Scheduling # {},
              position <- IF Scheduling = {} THEN current
                          ELSE cursor[CHOOSE p \in Scheduling : TRUE],
              saved <- current

SweepsInOrder == Reader!Init /\ [][expiries' = 0 => [Reader!Next]_(Reader!vars)]_vars

\* A lock is given back by its holder: nobody else's release, not even that of
\* a sweep that outlived its own lock, frees it.
LockIsNotStolen ==
    [][\A p \in Procs : lock = p /\ lock' # p
          => \/ pc[p] = "release" /\ pc'[p] # "release"
             \/ expiries' # expiries
             \/ crashes' # crashes]_vars

\* One probe per court, unless a semaphore expired under a running probe.
OneProbe ==
    expiries = 0 => \A p, q \in Probes : pc[p] # "idle" /\ pc[q] # "idle" => p = q

\* The last step of a probe may overshoot IQUERY_PROBE_MAX_OFFSET, but never
\* so far that the sweep refuses what the probe found as too much.
HitsAreSwept ==
    crashes = 0 /\ expiries = 0 =>
        \A p \in Probes : pc[p] = "compare" => ~TooMany(p)

\* Unless something died, every id below the highest known one is scheduled.
NoCaseLeftBehind ==
    [](crashes = 0) =>
        \A id \in (Start + 1)..MaxCase : id < highest ~> id \in scheduled

\* As long as the court's next id has a page, the marks move on.
CatchesUp ==
    \A n \in Start..MaxCase : highest = n /\ HasPage(n + 1) ~> highest > n

\* The same without deaths.
CatchesUpAlive == [](crashes = 0) => CatchesUp

\* Whatever dies while it holds the semaphore, the court is probed again.
ProbingGoesOn == []<>(\E p \in Probes : pc[p] = "probing")
=============================================================================
