---------------------------- MODULE TaskThrottle ----------------------------
(***************************************************************************)
(* throttle_task and get_task_wait (cl/lib/celery_utils.py): tasks of one  *)
(* name and key share a counter in Redis that expires with the window, and *)
(* a schedule that says when the windows already promised are over.  Every *)
(* worker reads and writes them with calls of their own, while others do   *)
(* the same and the counter may expire in between.                         *)
(*                                                                         *)
(* The time between two tasks of the rate is a whole number of ticks.      *)
(***************************************************************************)
EXTENDS Integers, FiniteSets

CONSTANTS
    Tasks,      \* the tasks to be run
    Workers,    \* processes of the celery pool: CELERY_PREFORK_CONCURRENCY
    Allowed,    \* allowed_task_count: tasks in a window
    Duration,   \* length of a window, in ticks
    MaxFaults   \* bound on workers that die or lose their connection

ASSUME ThrottleAssumption ==
    /\ IsFiniteSet(Tasks) /\ MaxFaults \in Nat
    /\ Workers \in Nat \ {0}
    /\ Allowed \in Nat \ {0} /\ Duration \in Nat \ {0}
    /\ Duration % Allowed = 0

VARIABLES
    count,     \* value of throttle_key, 0 if there is no such key
    ttl,       \* ticks it still lives, or NoTTL
    schedule,  \* value of schedule_key, in ticks from now, or Past
    pc,        \* pc[t]: the call to Redis that t comes to
    wait,      \* wait[t]: ticks until t is tried (again)
    later,     \* later[t]: the time t is about to write to schedule_key
    rounds,    \* how often the counter was begun anew in this window
    counted,   \* tasks that it has let through since
    outlived,  \* tasks run in this window because the one they found full is over
    faults     \* workers that died or lost their connection

keys == <<count, ttl, schedule>>
history == <<rounds, counted, outlived>>
vars == <<keys, pc, wait, later, history, faults>>

NoTTL == -1
Past  == -1     \* also if there is no schedule yet

\* The calls of get_task_wait after the first one.
Calls == {"open", "incr", "expire", "full", "ttl", "save"}

TypeOK ==
    /\ count \in Nat
    /\ ttl \in {NoTTL} \cup 0..Duration
    /\ schedule \in {Past} \cup Nat
    /\ pc \in [Tasks -> Calls \cup {"waiting", "run", "dead"}]
    /\ wait \in [Tasks -> Nat]
    /\ later \in [Tasks -> Nat]
    /\ rounds \in Nat /\ counted \in SUBSET Tasks /\ outlived \in SUBSET Tasks
    /\ faults \in 0..MaxFaults
    /\ count = 0 => ttl = NoTTL

Init ==
    /\ count = 0 /\ ttl = NoTTL /\ schedule = Past
    /\ pc = [t \in Tasks |-> "waiting"]
    /\ wait = [t \in Tasks |-> 0]
    /\ later = [t \in Tasks |-> 0]
    /\ rounds = 0 /\ counted = {} /\ outlived = {}
    /\ faults = 0

----------------------------------------------------------------------------
(* get_task_wait.                                                          *)

InCall == {t \in Tasks : pc[t] \in Calls}

Goto(t, l) == pc' = [pc EXCEPT ![t] = l]

\* A free worker takes up a task whose time has come.
TakeUp(t) == pc[t] = "waiting" /\ wait[t] = 0 /\ Cardinality(InCall) < Workers

\* (mutant) one task too many
LookAtMost(t) ==
    /\ TakeUp(t)
    /\ Goto(t, IF count = 0 THEN "open" ELSE IF count <= Allowed THEN "incr" ELSE "full")
    /\ UNCHANGED <<keys, wait, later, history, faults>>

Look(t) ==
    /\ TakeUp(t)
    /\ Goto(t, IF count = 0 THEN "open" ELSE IF count < Allowed THEN "incr" ELSE "full")
    /\ UNCHANGED <<keys, wait, later, history, faults>>

\* There was no key: SET 1 EX duration, whatever others did meanwhile.  The
\* tasks T are run.
SetCount(t, T) ==
    /\ pc[t] = "open"
    /\ count' = 1 /\ ttl' = Duration
    /\ rounds' = rounds + 1 /\ counted' = T

Open(t) ==
    /\ SetCount(t, {t}) /\ Goto(t, "run")
    /\ UNCHANGED <<schedule, wait, later, outlived, faults>>

\* INCR creates a key that expired meanwhile, without an expiry.
RaiseCount(t, T) ==
    /\ pc[t] = "incr"
    /\ count' = count + 1 /\ UNCHANGED ttl
    /\ rounds' = IF count = 0 THEN rounds + 1 ELSE rounds
    /\ counted' = (IF count = 0 THEN {} ELSE counted) \cup T

Incr(t) ==
    /\ RaiseCount(t, {t})
    /\ Goto(t, IF count = 0 THEN "expire" ELSE "run")
    /\ UNCHANGED <<schedule, wait, later, outlived, faults>>

SetExpiry(t) ==
    /\ pc[t] = "expire" /\ Goto(t, "run")
    /\ ttl' = IF count = 0 THEN NoTTL ELSE Duration
    /\ UNCHANGED <<count, schedule, wait, later, history, faults>>

\* The window is full.  Is the schedule in the past, or must it be supplemented?
\* A time within the present tick may be either.
GetSchedule(t) ==
    /\ pc[t] = "full"
    /\ \/ schedule <= 0 /\ Goto(t, "ttl") /\ UNCHANGED later
       \/ /\ schedule >= 0
          /\ later' = [later EXCEPT ![t] = schedule + Duration \div Allowed]
          /\ Goto(t, "save")
    /\ UNCHANGED <<keys, wait, history, faults>>

\* (mutant) the return value of TTL is taken for a time
WaitAlways(t) ==
    /\ pc[t] = "ttl"
    /\ later' = [later EXCEPT ![t] = ttl]
    /\ Goto(t, "save")
    /\ UNCHANGED <<keys, wait, history, faults>>

\* (mutant) whoever finds the window full starts it anew
SlideWindow(t) ==
    /\ pc[t] = "ttl"
    /\ \/ ttl = NoTTL /\ Goto(t, "run") /\ UNCHANGED <<later, ttl>>
       \/ /\ ttl # NoTTL
          /\ later' = [later EXCEPT ![t] = ttl]
          /\ ttl' = Duration
          /\ Goto(t, "save")
    /\ UNCHANGED <<count, schedule, wait, history, faults>>

\* set_for_next_window: wait for the key to expire.  If it has expired, or has
\* no expiry, the task is run and not counted.
SetForNextWindow(t) ==
    /\ pc[t] = "ttl"
    /\ \/ /\ ttl = NoTTL
          /\ outlived' = IF count = 0 THEN outlived \cup {t} ELSE outlived
          /\ Goto(t, "run") /\ UNCHANGED later
       \/ /\ ttl # NoTTL
          /\ later' = [later EXCEPT ![t] = ttl]
          /\ Goto(t, "save") /\ UNCHANGED outlived
    /\ UNCHANGED <<keys, wait, rounds, counted, faults>>

\* throttle_task retries the task when its time has come; that retry is not
\* counted as one.  TTL is in whole seconds: with less than one left it may be
\* 0, and a task that need not wait is run and not counted.
SaveSchedule(t) ==
    /\ pc[t] = "save"
    /\ schedule' = later[t]
    /\ wait' = [wait EXCEPT ![t] = later[t]]
    /\ later' = [later EXCEPT ![t] = 0]
    /\ Goto(t, "waiting") \/ (later[t] = 0 /\ Goto(t, "run"))
    /\ UNCHANGED <<count, ttl, history, faults>>

Step(t) ==
    \/ Look(t) \/ Open(t) \/ Incr(t) \/ SetExpiry(t)
    \/ GetSchedule(t) \/ SetForNextWindow(t) \/ SaveSchedule(t)

----------------------------------------------------------------------------
(* Faults and the clock.                                                   *)

Fault == faults < MaxFaults /\ faults' = faults + 1

\* A worker dies between two calls; its task is lost.
Die(t) ==
    /\ Fault
    /\ pc[t] \in Calls /\ Goto(t, "dead")
    /\ UNCHANGED <<keys, wait, later, history>>

\* A ConnectionError: all is tried again from the start, also when the call
\* that failed had its effect.
Reconnect(t) ==
    /\ Fault
    /\ pc[t] \in Calls /\ Goto(t, "waiting")
    /\ \/ SetCount(t, {})
       \/ RaiseCount(t, {})
       \/ UNCHANGED <<count, ttl, rounds, counted>>
    /\ UNCHANGED <<schedule, wait, later, outlived>>

Expire ==
    /\ count > 0 /\ ttl = 0
    /\ count' = 0 /\ ttl' = NoTTL
    /\ rounds' = 0 /\ counted' = {} /\ outlived' = {}
    /\ UNCHANGED <<schedule, pc, wait, later, faults>>

\* The schedule is read, supplemented and written within a tick.
Tick ==
    /\ ttl # 0 /\ \A t \in Tasks : pc[t] \notin {"ttl", "save"}
    /\ ttl' = IF ttl = NoTTL THEN NoTTL ELSE ttl - 1
    /\ schedule' = IF schedule = Past THEN Past ELSE schedule - 1
    /\ wait' = [t \in Tasks |-> IF wait[t] = 0 THEN 0 ELSE wait[t] - 1]
    /\ UNCHANGED <<count, pc, later, history, faults>>

Next ==
    \/ \E t \in Tasks : Step(t) \/ Die(t) \/ Reconnect(t)
    \/ Expire
    \/ Tick

Spec == Init /\ [][Next]_vars

\* Workers take up the tasks whose time has come, keys expire, time passes.
FairSpec ==
    /\ Spec
    /\ \A t \in Tasks : WF_vars(Step(t))
    /\ WF_vars(Expire)
    /\ WF_vars(Tick)

----------------------------------------------------------------------------
(* What must hold.                                                         *)

\* A worker died, or lost its connection, between INCR and EXPIRE, and the key
\* it created will never expire.
StuckForGood == count > 0 /\ ttl = NoTTL /\ \A t \in Tasks : pc[t] # "expire"

\* However the calls interleave, expire and fail, and however many tasks there
\* are: each worker begins the counter of a window at most once, by a SET that it
\* decided on when there was no key, and a counter lets through as many tasks as
\* the rate says and one for each of the other workers.  So with one worker the
\* rate is exact.  Each worker may also run a task that saw the window before.
\* (Not counted are tasks told to wait for 0 seconds, and those that find the
\* counter without an expiry.)
CountedRateIsKept ==
    /\ rounds <= Workers
    /\ Cardinality(counted) <= Allowed + (Workers - 1)
    /\ Cardinality(outlived) <= Workers

\* No task is put off for ever, however the tasks that come back and those that
\* come for the first time get in front of each other, unless the key is stuck.
EveryTaskRuns ==
    []~StuckForGood => \A t \in Tasks : <>(pc[t] \in {"run", "dead"})
=============================================================================
