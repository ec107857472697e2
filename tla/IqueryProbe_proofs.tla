------------------------ MODULE IqueryProbe_proofs ------------------------
(***************************************************************************)
(* Proofs about IqueryProbe, for any numbers of probes, uploads, deaths    *)
(* and expired keys, and any settings that satisfy the assumptions.        *)
(*                                                                         *)
(* Each property has an invariant of its own, and the later ones rest on   *)
(* the earlier: the lock is exclusive while no key expires (LockOK), so    *)
(* what a sweep compared still holds when it writes (MarksOK) and while it *)
(* schedules (TargetOK), so nothing is scheduled twice (OnceOK) and the    *)
(* marks stay one apart between sweeps (GapOK); with the arithmetic of the *)
(* probe (LoopOK) that bounds what a probe asks a sweep for (ReachOK).     *)
(* The last section shows that the sweeps implement CaseSweep.             *)
(***************************************************************************)
EXTENDS IqueryProbe, TLAPS

Undisturbed == crashes = 0 /\ expiries = 0
NobodySchedules == \A p \in Procs : pc[p] # "schedule"

Covered(id) == (Start + 1)..id \subseteq scheduled

SweptOK ==
    /\ Covered(current)
    /\ \A p \in Procs : pc[p] \in {"raise", "schedule"} => Covered(cursor[p])

ProbeOK ==
    expiries = 0 =>
        /\ \A p \in Probes : pc[p] # "idle" => semaphore
        /\ \A p, q \in Probes : pc[p] # "idle" /\ pc[q] # "idle" => p = q

LockOK == expiries = 0 => \A p \in Procs : pc[p] \in Holding => lock = p

MarksOK ==
    expiries = 0 => \A p \in Procs :
        /\ pc[p] \in {"compare", "raise"} => target[p] > highest
        /\ pc[p] = "raise" => cursor[p] = current
        /\ pc[p] = "schedule" => cursor[p] >= current

TargetOK == expiries = 0 => \A p \in Procs : pc[p] = "schedule" => target[p] = highest

OnceOK ==
    Undisturbed =>
        /\ repeated = {}
        /\ \A p \in Procs : pc[p] = "schedule" => \A id \in scheduled : id <= cursor[p]
        /\ NobodySchedules => \A id \in scheduled : id <= current

GapOK ==
    Undisturbed =>
        /\ \A p \in Procs : pc[p] = "schedule" => target[p] = highest
        /\ NobodySchedules => current >= highest - 1

LoopOK ==
    \A p \in Probes : pc[p] \in {"probing", "probed"} =>
        /\ jitter[p] \in Jitters(from[p])
        /\ iteration[p] > 0
        /\ iteration[p] = 1 => offset[p] = 0
        /\ iteration[p] > 1 => offset[p] = next_binary_probe(iteration[p] - 1, jitter[p])
        /\ match[p] < from[p] + SweepLimit

ReachOK ==
    expiries = 0 => \A p \in Probes :
        /\ pc[p] \in {"probing", "probed"} => from[p] <= highest
        /\ pc[p] \in {"lock", "read", "compare"} => target[p] < highest + SweepLimit

----------------------------------------------------------------------------
(* The arithmetic of compute_next_binary_probe.                            *)

\* A step is never longer than IQUERY_MAX_PROBE, also where the doubling ends.
LEMMA StepsAreBounded ==
  ASSUME NEW i \in Nat \ {0}
  PROVE  /\ geometric_offset(i) \in Nat \ {0}
         /\ geometric_offset(1) <= IQUERY_MAX_PROBE
         /\ geometric_offset(i + 1) <= geometric_offset(i) + IQUERY_MAX_PROBE
<1> USE ProbeAssumption, DoublingAssumption DEF ProbeAssumption, DoublingAssumption
<1> DEFINE M == IQUERY_MAX_PROBE
           C == CapIteration
<1>0. M \in Nat \ {0} /\ C \in Nat \ {0}
  OBVIOUS
<1>1. ASSUME NEW k \in Nat PROVE (k + 1) * M = k * M + M /\ k * M \in Nat
  BY <1>0, <1>1
<1>2. CASE i + 1 < C
  <2>1. i \in 1..(C - 1) /\ i + 1 \in 1..(C - 1) /\ 1 \in 1..(C - 1)
    BY <1>0, <1>2
  <2>2. 2 ^ (i - 1) \in Nat \ {0} /\ 2 ^ i <= 2 ^ (i - 1) + M
    BY <2>1
  <2>3. geometric_offset(i) = 2 ^ (i - 1) /\ geometric_offset(i + 1) = 2 ^ (i + 1 - 1)
    BY <1>0, <1>2 DEF geometric_offset
  <2>4. i + 1 - 1 = i
    OBVIOUS
  <2>5. geometric_offset(1) = 2 ^ (1 - 1) /\ 2 ^ (1 - 1) <= M
    BY <1>0, <1>2, <2>1 DEF geometric_offset
  <2> QED BY <2>2, <2>3, <2>4, <2>5
<1>3. CASE i + 1 = C
  <2>1. i \in 1..(C - 1) /\ 1 \in 1..(C - 1)
    BY <1>0, <1>3
  <2>2. 2 ^ (i - 1) \in Nat \ {0} /\ 2 ^ (1 - 1) <= M
    BY <2>1
  <2>3. geometric_offset(i) = 2 ^ (i - 1) /\ geometric_offset(1) = 2 ^ (1 - 1)
    BY <1>0, <1>3 DEF geometric_offset
  <2>4. geometric_offset(i + 1) = 1 * M
    BY <1>0, <1>3 DEF geometric_offset
  <2>5. 1 * M = M
    BY <1>0
  <2> QED BY <1>0, <2>2, <2>3, <2>4, <2>5
<1>4. CASE i >= C
  <2>1. PICK k \in Nat : k = i - C + 1
    BY <1>0, <1>4
  <2>2. geometric_offset(i) = k * M /\ geometric_offset(i + 1) = (k + 1) * M
    BY <1>0, <1>4, <2>1 DEF geometric_offset
  <2>3. k * M # 0
    BY <1>0, <1>4, <2>1
  <2>4. geometric_offset(1) <= M
    <3>1. CASE C = 1
      <4>1. geometric_offset(1) = 1 * M
        BY <3>1 DEF geometric_offset
      <4> QED BY <1>0, <4>1
    <3>2. CASE C > 1
      <4>1. 1 \in 1..(C - 1) /\ geometric_offset(1) = 2 ^ (1 - 1)
        BY <1>0, <3>2 DEF geometric_offset
      <4> QED BY <4>1
    <3> QED BY <1>0, <3>1, <3>2
  <2> QED BY <1>0, <1>1, <2>2, <2>3, <2>4
<1> QED BY <1>0, <1>2, <1>3, <1>4

----------------------------------------------------------------------------
(* Types.                                                                  *)

\* A process of either kind steps through its sweep.
LEMMA SweepStepTyped ==
  ASSUME TypeOK, NEW p \in Procs, SweepStep(p) \/ Die(p)
  PROVE  TypeOK'
<1> USE ProcAssumption, ProbeAssumption
    DEF ProcAssumption, ProbeAssumption, TypeOK, Goto, Stands, Sweeping, Holding, bounds,
        marks, court, probing, sweeping, result
<1>1. ASSUME AcquireLock(p) PROVE TypeOK'
  BY <1>1 DEF AcquireLock
<1>2. ASSUME ReadHighest(p) PROVE TypeOK'
  BY <1>2 DEF ReadHighest
<1>3. ASSUME ReadCurrent(p) PROVE TypeOK'
  BY <1>3 DEF ReadCurrent
<1>4. ASSUME RaiseHighest(p) PROVE TypeOK'
  BY <1>4 DEF RaiseHighest
<1>5. ASSUME ScheduleNext(p) PROVE TypeOK'
  <2>1. cursor[p] + 1 \in Nat
    OBVIOUS
  <2>2. scheduled' \in SUBSET Nat /\ repeated' \in SUBSET Nat
    BY <1>5, <2>1 DEF ScheduleNext
  <2> QED BY <1>5, <2>1, <2>2 DEF ScheduleNext
<1>6. ASSUME StoreCurrent(p) PROVE TypeOK'
  BY <1>6 DEF StoreCurrent
<1>7. ASSUME ReleaseLock(p) PROVE TypeOK'
  BY <1>7 DEF ReleaseLock, EndSweep
<1>8. ASSUME Die(p) PROVE TypeOK'
  BY <1>8 DEF Die, EndSweep, LeaveLoop
<1> QED BY <1>1, <1>2, <1>3, <1>4, <1>5, <1>6, <1>7, <1>8 DEF SweepStep

\* A probe steps through its loop, or meets a fault.
LEMMA ProbeStepTyped ==
  ASSUME TypeOK, LoopOK, NEW p \in Probes, ProbeStep(p) \/ ProbeFault(p)
  PROVE  TypeOK'
<1> USE ProcAssumption, ProbeAssumption
    DEF ProcAssumption, ProbeAssumption, TypeOK, Goto, Stands, Sweeping, Holding, bounds,
        marks, court, probing, sweeping, result, Procs, Fault
<1>a. \A i \in Nat \ {0}, j \in Nat : next_binary_probe(i, j) \in Nat
  BY StepsAreBounded DEF next_binary_probe
<1>b. MayQuery(p) => NextOffset(p) \in Nat
  BY <1>a DEF NextOffset, MayQuery, LoopOK
<1>1. ASSUME StartProbe(p) PROVE TypeOK'
  BY <1>1 DEF StartProbe, Jitters
<1>2. ASSUME QueryHit(p) PROVE TypeOK'
  BY <1>2, <1>b DEF QueryHit, Advance, NextId
<1>3. ASSUME QueryBlank(p) PROVE TypeOK'
  BY <1>3, <1>b DEF QueryBlank, Advance
<1>4. ASSUME DecideFixedSweep(p) PROVE TypeOK'
  BY <1>4 DEF DecideFixedSweep, LeaveLoop
<1>5. ASSUME SaveReports(p) PROVE TypeOK'
  BY <1>5 DEF SaveReports, LeaveLoop
<1>6. ASSUME EmptyProbe(p) PROVE TypeOK'
  BY <1>6 DEF EmptyProbe, LeaveLoop
<1>7. ASSUME FinishProbe(p) PROVE TypeOK'
  BY <1>7 DEF FinishProbe
<1>8. ASSUME QueryTimesOut(p) PROVE TypeOK'
  BY <1>8, <1>b DEF QueryTimesOut, Advance
<1>9. ASSUME QueryFails(p) PROVE TypeOK'
  <2>1. (pc \in [Procs -> Stands] /\ semaphore \in BOOLEAN)'
    BY <1>9 DEF QueryFails, GiveUp, LeaveLoop
  <2>2. (from \in [Procs -> Nat] /\ jitter \in [Procs -> Nat] /\ iteration \in [Procs -> Nat]
           /\ offset \in [Procs -> Nat] /\ match \in [Procs -> Nat])'
    BY <1>9 DEF QueryFails, GiveUp, LeaveLoop
  <2> QED BY <1>9, <2>1, <2>2 DEF QueryFails, GiveUp
<1>10. ASSUME QueryBlocked(p) PROVE TypeOK'
  <2>1. (pc \in [Procs -> Stands] /\ semaphore \in BOOLEAN)'
    BY <1>10 DEF QueryBlocked, GiveUp, LeaveLoop
  <2>2. (from \in [Procs -> Nat] /\ jitter \in [Procs -> Nat] /\ iteration \in [Procs -> Nat]
           /\ offset \in [Procs -> Nat] /\ match \in [Procs -> Nat])'
    BY <1>10 DEF QueryBlocked, GiveUp, LeaveLoop
  <2>3. (wait \in Nat /\ blocked \in Nat)'
    BY <1>10, WaitAssumption DEF QueryBlocked, WaitAssumption
  <2> QED BY <1>10, <2>1, <2>2, <2>3 DEF QueryBlocked, GiveUp
<1>11. ASSUME SaveFails(p) PROVE TypeOK'
  BY <1>11 DEF SaveFails, LeaveLoop
<1> QED BY <1>1, <1>2, <1>3, <1>4, <1>5, <1>6, <1>7, <1>8, <1>9, <1>10, <1>11
       DEF ProbeStep, ProbeFault

\* What the loop of a probe knows about its local variables.
LEMMA LoopKept ==
  ASSUME TypeOK, LoopOK, NEW p \in Probes, ProbeStep(p) \/ ProbeFault(p)
  PROVE  LoopOK'
<1> USE ProcAssumption, ProbeAssumption
    DEF ProcAssumption, ProbeAssumption, TypeOK, Goto, marks, court, probing, sweeping,
        result, Procs, LoopOK, SweepLimit
<1>1. ASSUME StartProbe(p) PROVE LoopOK'
  <2>1. PICK j \in Jitters(highest) : jitter' = [jitter EXCEPT ![p] = j]
    BY <1>1 DEF StartProbe
  <2>2. /\ from'[p] = highest /\ jitter'[p] = j
        /\ iteration'[p] = 1 /\ offset'[p] = 0 /\ match'[p] = 0
    BY <1>1, <2>1 DEF StartProbe
  <2>3. \A q \in Probes \ {p} :
          /\ pc'[q] = pc[q] /\ from'[q] = from[q] /\ jitter'[q] = jitter[q]
          /\ iteration'[q] = iteration[q] /\ offset'[q] = offset[q] /\ match'[q] = match[q]
    BY <1>1, <2>1 DEF StartProbe
  <2>4. jitter'[p] \in Jitters(from'[p])
    BY <2>1, <2>2
  <2> QED BY <2>2, <2>3, <2>4
<1>2. MayQuery(p) => NextOffset(p) < SweepLimit
  <2> SUFFICES ASSUME MayQuery(p) PROVE NextOffset(p) < SweepLimit
    OBVIOUS
  <2>1. jitter[p] \in Nat /\ iteration[p] \in Nat \ {0} /\ offset[p] \in Nat
    BY DEF MayQuery
  <2>2. offset[p] + jitter[p] < IQUERY_PROBE_MAX_OFFSET
    BY <2>1 DEF MayQuery, ProbeLimit
  <2>3. CASE iteration[p] = 1
    BY <2>3, StepsAreBounded DEF NextOffset, next_binary_probe
  <2>4. CASE iteration[p] > 1
    <3>1. offset[p] >= geometric_offset(iteration[p] - 1)
      BY <2>1, <2>4, StepsAreBounded DEF next_binary_probe, MayQuery
    <3>2. NextOffset(p) = geometric_offset(iteration[p]) + jitter[p]
      BY <2>1, <2>4 DEF NextOffset, next_binary_probe
    <3>3. /\ geometric_offset(iteration[p]) \in Nat
          /\ geometric_offset(iteration[p] - 1) \in Nat
          /\ geometric_offset(iteration[p])
               <= geometric_offset(iteration[p] - 1) + IQUERY_MAX_PROBE
      <4>1. iteration[p] - 1 \in Nat \ {0} /\ (iteration[p] - 1) + 1 = iteration[p]
        BY <2>1, <2>4
      <4> QED BY <2>1, <4>1, StepsAreBounded
    <3> QED BY <2>1, <2>2, <3>1, <3>2, <3>3
  <2> QED BY <2>1, <2>3, <2>4
<1>3. ASSUME Advance(p), MayQuery(p), UNCHANGED <<from, jitter>>
      PROVE  /\ jitter'[p] \in Jitters(from'[p])
             /\ iteration'[p] > 1
             /\ offset'[p] = next_binary_probe(iteration'[p] - 1, jitter'[p])
  <2>1. iteration[p] \in Nat \ {0} /\ iteration'[p] = iteration[p] + 1
    BY <1>3 DEF Advance, MayQuery
  <2>2. iteration'[p] - 1 = iteration[p]
    BY <2>1
  <2> QED BY <1>3, <2>1, <2>2 DEF Advance, MayQuery, NextOffset
<1>4. ASSUME Advance(p), MayQuery(p), UNCHANGED <<from, jitter>>,
             \A q \in Probes \ {p} : pc'[q] = pc[q] /\ match'[q] = match[q],
             match'[p] < from[p] + SweepLimit
      PROVE  LoopOK'
  <2>1. \A q \in Probes \ {p} : iteration'[q] = iteration[q] /\ offset'[q] = offset[q]
    BY <1>4 DEF Advance
  <2>2. \A q \in Probes \ {p} : from'[q] = from[q] /\ jitter'[q] = jitter[q]
    BY <1>4
  <2>3. ASSUME NEW q \in Probes \ {p}, pc'[q] \in {"probing", "probed"}
        PROVE  /\ jitter'[q] \in Jitters(from'[q])
               /\ iteration'[q] > 0
               /\ iteration'[q] = 1 => offset'[q] = 0
               /\ iteration'[q] > 1 => offset'[q] = next_binary_probe(iteration'[q] - 1, jitter'[q])
               /\ match'[q] < from'[q] + SweepLimit
    <3>1. /\ pc'[q] = pc[q] /\ from'[q] = from[q] /\ jitter'[q] = jitter[q]
          /\ iteration'[q] = iteration[q] /\ offset'[q] = offset[q] /\ match'[q] = match[q]
      BY <1>4, <2>1, <2>2, <2>3
    <3> QED BY ONLY LoopOK, <2>3, <3>1 DEF LoopOK
  <2>4. /\ jitter'[p] \in Jitters(from'[p])
        /\ iteration'[p] > 1
        /\ offset'[p] = next_binary_probe(iteration'[p] - 1, jitter'[p])
    BY <1>3, <1>4
  <2>5. match'[p] < from'[p] + SweepLimit /\ iteration'[p] \in Nat
    BY <1>4 DEF Advance, MayQuery
  <2> QED BY ONLY <2>3, <2>4, <2>5 DEF LoopOK
<1>5. MayQuery(p) => match[p] < from[p] + SweepLimit
  BY DEF MayQuery
<1>6. ASSUME QueryHit(p) PROVE LoopOK'
  <2>1. match'[p] < from[p] + SweepLimit
    <3>1. NextOffset(p) \in Int
      BY <1>6, StepsAreBounded DEF QueryHit, MayQuery, NextOffset, next_binary_probe
    <3> QED BY <1>2, <1>6, <3>1 DEF QueryHit, NextId
  <2> QED BY <1>4, <1>6, <2>1 DEF QueryHit
<1>7. ASSUME QueryBlank(p) PROVE LoopOK'
  BY <1>4, <1>5, <1>7 DEF QueryBlank
<1>8. ASSUME QueryTimesOut(p) PROVE LoopOK'
  BY <1>4, <1>5, <1>8 DEF QueryTimesOut
<1>9. ASSUME LeaveLoop(p), pc'[p] \notin {"probing", "probed"},
             \A q \in Probes \ {p} : pc'[q] = pc[q]
      PROVE  LoopOK'
  BY <1>9 DEF LeaveLoop
<1>10. ASSUME DecideFixedSweep(p) \/ SaveReports(p) \/ EmptyProbe(p) \/ SaveFails(p)
       PROVE  LoopOK'
  BY <1>9, <1>10 DEF DecideFixedSweep, SaveReports, EmptyProbe, SaveFails
<1>11. ASSUME QueryFails(p) \/ QueryBlocked(p) PROVE LoopOK'
  BY <1>9, <1>11 DEF QueryFails, QueryBlocked, GiveUp
<1>12. ASSUME FinishProbe(p) PROVE LoopOK'
  BY <1>12 DEF FinishProbe
<1> QED BY <1>1, <1>6, <1>7, <1>8, <1>10, <1>11, <1>12 DEF ProbeStep, ProbeFault

\* A step that leaves the local variables of the loops alone, and lets no
\* process enter its loop.
LEMMA LoopFrame ==
  ASSUME LoopOK, UNCHANGED probing,
         \A q \in Probes : pc'[q] \in {"probing", "probed"} => pc'[q] = pc[q]
  PROVE  LoopOK'
<1>1. \A q \in Probes : Jitters(from[q])' = Jitters(from[q])
  BY DEF probing, Jitters, FixedSweep
<1> QED BY <1>1 DEF LoopOK, probing

\* A process that dies forgets its loop.
LEMMA DeathKeepsLoops ==
  ASSUME TypeOK, LoopOK, NEW p \in Procs, Die(p)
  PROVE  LoopOK'
<1>1. \A q \in Probes \ {p} :
          /\ pc'[q] = pc[q] /\ from'[q] = from[q] /\ jitter'[q] = jitter[q]
          /\ iteration'[q] = iteration[q] /\ offset'[q] = offset[q] /\ match'[q] = match[q]
  BY DEF Die, LeaveLoop, TypeOK, Procs
<1>2. pc'[p] = "idle"
  BY DEF Die, TypeOK
<1> QED BY <1>1, <1>2 DEF LoopOK

\* Types and loop facts, by every step.
LEMMA TypedKept == TypeOK /\ LoopOK /\ [Next]_vars => TypeOK' /\ LoopOK'
<1> SUFFICES ASSUME TypeOK, LoopOK, [Next]_vars PROVE TypeOK' /\ LoopOK'
  OBVIOUS
<1>1. ASSUME NEW p \in Probes, ProbeStep(p) \/ ProbeFault(p) PROVE TypeOK' /\ LoopOK'
  BY <1>1, ProbeStepTyped, LoopKept
<1>2. ASSUME NEW p \in Procs, SweepStep(p) \/ Die(p) PROVE TypeOK' /\ LoopOK'
  <2>1. TypeOK'
    BY <1>2, SweepStepTyped
  <2>2. \/ /\ UNCHANGED probing
           /\ \A q \in Probes : pc'[q] \in {"probing", "probed"} => pc'[q] = pc[q]
        \/ Die(p)
    BY <1>2 DEF SweepStep, AcquireLock, ReadHighest, ReadCurrent, RaiseHighest, ScheduleNext,
                StoreCurrent, ReleaseLock, Goto, TypeOK, Procs
  <2>3. CASE Die(p)
    BY <2>1, <2>3, DeathKeepsLoops
  <2>4. CASE /\ UNCHANGED probing
             /\ \A q \in Probes : pc'[q] \in {"probing", "probed"} => pc'[q] = pc[q]
    BY <2>1, <2>4, LoopFrame
  <2> QED BY <2>1, <2>2, <2>3, <2>4
<1>3. ASSUME NEW u \in Uploads, Upload(u) PROVE TypeOK' /\ LoopOK'
  BY <1>3 DEF Upload, Goto, TypeOK, LoopOK, Procs, Stands, Sweeping, marks, court, probing,
              result
<1>4. ASSUME DaemonStep \/ FileCase \/ LockExpires \/ SemaphoreExpires \/ WaitExpires
      PROVE  TypeOK' /\ LoopOK'
  <2>1. TypeOK'
    <3> USE DEF TypeOK, marks, court, probing, sweeping, result, bounds
    <3>1. ASSUME NEW p \in Probes, EnqueueProbe(p) PROVE TypeOK'
      BY <3>1 DEF EnqueueProbe, Goto, Procs, Stands
    <3>2. ASSUME CheckWait \/ FindSemaphore PROVE TypeOK'
      BY <3>2 DEF CheckWait, FindSemaphore
    <3>3. ASSUME FileCase PROVE TypeOK'
      BY <3>3 DEF FileCase
    <3>4. ASSUME LockExpires PROVE TypeOK'
      BY <3>4 DEF LockExpires
    <3>5. ASSUME SemaphoreExpires PROVE TypeOK'
      <4>1. expiries' = expiries \/ expiries' = expiries + 1
        BY <3>5, Zenon DEF SemaphoreExpires
      <4>2. semaphore' = FALSE
        BY <3>5, Zenon DEF SemaphoreExpires
      <4>3. UNCHANGED <<marks, lock, court, daemon, pc, probing, sweeping, result, filed,
                        uploads, faults, crashes>>
        BY <3>5, Zenon DEF SemaphoreExpires
      <4>4. expiries' \in Nat
        BY <4>1
      <4>5. semaphore' \in BOOLEAN
        BY <4>2, Zenon
      <4> QED BY <4>3, <4>4, <4>5, Zenon
    <3>6. ASSUME WaitExpires PROVE TypeOK'
      BY <3>6 DEF WaitExpires
    <3> QED BY <1>4, <3>1, <3>2, <3>3, <3>4, <3>5, <3>6 DEF DaemonStep
  <2>2. /\ UNCHANGED probing
        /\ \A q \in Probes : pc'[q] \in {"probing", "probed"} => pc'[q] = pc[q]
    BY <1>4
       DEF DaemonStep, CheckWait, FindSemaphore, EnqueueProbe, FileCase, LockExpires,
           SemaphoreExpires, WaitExpires, Goto, TypeOK, Procs
  <2> QED BY <2>1, <2>2, LoopFrame
<1>5. ASSUME UNCHANGED vars PROVE TypeOK' /\ LoopOK'
  BY <1>5 DEF vars, TypeOK, LoopOK, marks, court, probing, sweeping, result, bounds
<1> QED BY <1>1, <1>2, <1>3, <1>4, <1>5 DEF Next

\* The hashes hold the seed, no key exists and nothing runs.
LEMMA InitTyped == Init => TypeOK /\ LoopOK
<1> SUFFICES ASSUME Init PROVE TypeOK /\ LoopOK
  OBVIOUS
<1>1. TypeOK
  BY ProbeAssumption DEF Init, TypeOK, Stands, Procs, ProbeAssumption
<1>2. LoopOK
  BY DEF Init, LoopOK, Procs
<1> QED BY <1>1, <1>2

----------------------------------------------------------------------------
(* The lock, and what a sweep may rely on while it holds it.               *)

\* What the steps outside the sweep leave alone: the marks, what has been
\* scheduled, and the sweeps under way, unless they die.
Quiet ==
    /\ UNCHANGED <<marks, result>>
    /\ \A q \in Procs : pc'[q] \in Holding =>
          pc'[q] = pc[q] /\ target'[q] = target[q] /\ cursor'[q] = cursor[q]
    /\ crashes' = 0 => \A q \in Procs : pc[q] \in Holding => pc'[q] = pc[q]
    /\ \A q \in Procs : lock = q /\ pc'[q] \in Holding => lock' = q \/ expiries' > 0

\* Deaths and expired keys are never forgotten.
CountersRise == crashes' >= crashes /\ expiries' >= expiries

LEMMA StepsOfProbesAreQuiet ==
  ASSUME TypeOK, NEW p \in Probes, ProbeStep(p) \/ ProbeFault(p)
  PROVE  Quiet /\ CountersRise
<1> USE DEF TypeOK, Quiet, CountersRise, Goto, Procs, Holding, bounds, marks, sweeping, Fault
<1>1. ASSUME StartProbe(p) PROVE Quiet /\ CountersRise
  BY <1>1 DEF StartProbe
<1>2. ASSUME QueryHit(p) PROVE Quiet /\ CountersRise
  BY <1>2 DEF QueryHit
<1>3. ASSUME QueryBlank(p) PROVE Quiet /\ CountersRise
  BY <1>3 DEF QueryBlank, MayQuery
<1>4. ASSUME DecideFixedSweep(p) PROVE Quiet /\ CountersRise
  BY <1>4 DEF DecideFixedSweep, Probed
<1>5. ASSUME SaveReports(p) PROVE Quiet /\ CountersRise
  BY <1>5 DEF SaveReports, Probed
<1>6. ASSUME EmptyProbe(p) PROVE Quiet /\ CountersRise
  BY <1>6 DEF EmptyProbe, Probed
<1>7. ASSUME FinishProbe(p) PROVE Quiet /\ CountersRise
  BY <1>7 DEF FinishProbe
<1>8. ASSUME QueryTimesOut(p) PROVE Quiet /\ CountersRise
  BY <1>8 DEF QueryTimesOut, MayQuery
<1>9. ASSUME QueryFails(p) \/ QueryBlocked(p) PROVE Quiet /\ CountersRise
  BY <1>9 DEF QueryFails, QueryBlocked, GiveUp, MayQuery
<1>10. ASSUME SaveFails(p) PROVE Quiet /\ CountersRise
  BY <1>10 DEF SaveFails, Probed
<1> QED BY <1>1, <1>2, <1>3, <1>4, <1>5, <1>6, <1>7, <1>8, <1>9, <1>10
       DEF ProbeStep, ProbeFault

\* A step is one of a sweep, or quiet.
LEMMA SweepOrQuiet ==
  ASSUME TypeOK, [Next]_vars
  PROVE  /\ CountersRise
         /\ Quiet \/ \E p \in Procs : SweepStep(p)
<1> USE DEF TypeOK, Quiet, CountersRise, Goto, Procs, Holding, bounds, marks, sweeping
<1>1. ASSUME NEW p \in Probes, ProbeStep(p) \/ ProbeFault(p) PROVE Quiet /\ CountersRise
  BY <1>1, StepsOfProbesAreQuiet
<1>2. ASSUME NEW u \in Uploads, Upload(u) PROVE Quiet /\ CountersRise
  BY <1>2 DEF Upload
<1>3. ASSUME NEW p \in Procs, Die(p) PROVE Quiet /\ CountersRise
  BY <1>3 DEF Die, EndSweep
<1>4. ASSUME LockExpires PROVE Quiet /\ CountersRise
  BY <1>4, ProcAssumption DEF LockExpires, ProcAssumption
<1>5. ASSUME SemaphoreExpires PROVE Quiet /\ CountersRise
  <2>1. expiries' = expiries \/ expiries' = expiries + 1
    BY <1>5, Zenon DEF SemaphoreExpires
  <2>2. UNCHANGED <<marks, lock, pc, sweeping, result, crashes>>
    BY <1>5, Zenon DEF SemaphoreExpires
  <2> QED BY <2>1, <2>2
<1>6. ASSUME FileCase \/ WaitExpires PROVE Quiet /\ CountersRise
  BY <1>6 DEF FileCase, WaitExpires
<1>7. ASSUME DaemonStep PROVE Quiet /\ CountersRise
  BY <1>7 DEF DaemonStep, CheckWait, FindSemaphore, EnqueueProbe
<1>8. ASSUME UNCHANGED vars PROVE Quiet /\ CountersRise
  BY <1>8 DEF vars
<1>9. ASSUME NEW p \in Procs, SweepStep(p) PROVE CountersRise
  BY <1>9 DEF SweepStep, AcquireLock, ReadHighest, ReadCurrent, RaiseHighest, ScheduleNext,
              StoreCurrent, ReleaseLock
<1> QED BY <1>1, <1>2, <1>3, <1>4, <1>5, <1>6, <1>7, <1>8, <1>9 DEF Next

\* While no key expires the lock excludes: only its holder is inside.
LEMMA LockKept ==
  ASSUME TypeOK, LockOK, [Next]_vars
  PROVE  LockOK'
<1> USE DEF TypeOK, LockOK, Goto, Holding, bounds
<1>1. ASSUME Quiet, CountersRise PROVE LockOK'
  BY <1>1 DEF Quiet, CountersRise
<1>2. ASSUME NEW p \in Procs, AcquireLock(p) PROVE LockOK'
  BY <1>2, ProcAssumption DEF AcquireLock, ProcAssumption
<1>3. ASSUME NEW p \in Procs, ReleaseLock(p) PROVE LockOK'
  BY <1>3 DEF ReleaseLock
<1>4. ASSUME NEW p \in Procs,
             ReadHighest(p) \/ ReadCurrent(p) \/ RaiseHighest(p) \/ ScheduleNext(p)
               \/ StoreCurrent(p)
      PROVE  LockOK'
  BY <1>4 DEF ReadHighest, ReadCurrent, RaiseHighest, ScheduleNext, StoreCurrent
<1> QED BY <1>1, <1>2, <1>3, <1>4, SweepOrQuiet DEF SweepStep

\* So what a sweep has compared and read is still true when it writes.
LEMMA MarksKept ==
  ASSUME TypeOK, LockOK, MarksOK, [Next]_vars
  PROVE  MarksOK'
<1> USE DEF TypeOK, LockOK, MarksOK, Goto, Holding, bounds, marks, sweeping
<1>1. ASSUME Quiet, CountersRise PROVE MarksOK'
  BY <1>1 DEF Quiet, CountersRise
<1>2. ASSUME NEW p \in Procs, AcquireLock(p) PROVE MarksOK'
  BY <1>2 DEF AcquireLock
<1>3. ASSUME NEW p \in Procs, ReadHighest(p) PROVE MarksOK'
  BY <1>3 DEF ReadHighest
<1>4. ASSUME NEW p \in Procs, ReadCurrent(p) PROVE MarksOK'
  BY <1>4 DEF ReadCurrent
<1>5. ASSUME NEW p \in Procs, RaiseHighest(p) PROVE MarksOK'
  BY <1>5 DEF RaiseHighest
<1>6. ASSUME NEW p \in Procs, ScheduleNext(p) PROVE MarksOK'
  BY <1>6 DEF ScheduleNext
<1>7. ASSUME NEW p \in Procs, StoreCurrent(p) PROVE MarksOK'
  BY <1>7 DEF StoreCurrent
<1>8. ASSUME NEW p \in Procs, ReleaseLock(p) PROVE MarksOK'
  BY <1>8 DEF ReleaseLock, EndSweep
<1> QED BY <1>1, <1>2, <1>3, <1>4, <1>5, <1>6, <1>7, <1>8, SweepOrQuiet DEF SweepStep

\* All that has been scheduled lies below the mark, or below the cursor of
\* the one sweep that is scheduling.
LEMMA OnceKept ==
  ASSUME TypeOK, LockOK, MarksOK, OnceOK, [Next]_vars
  PROVE  OnceOK'
<1> USE DEF TypeOK, LockOK, MarksOK, OnceOK, Undisturbed, NobodySchedules, Goto, Holding,
            bounds, marks, sweeping, result
<1>1. ASSUME Quiet, CountersRise PROVE OnceOK'
  BY <1>1 DEF Quiet, CountersRise
<1>2. ASSUME NEW p \in Procs, AcquireLock(p) PROVE OnceOK'
  BY <1>2 DEF AcquireLock
<1>3. ASSUME NEW p \in Procs, ReadHighest(p) PROVE OnceOK'
  BY <1>3 DEF ReadHighest
<1>4. ASSUME NEW p \in Procs, ReadCurrent(p) PROVE OnceOK'
  BY <1>4 DEF ReadCurrent
<1>5. ASSUME NEW p \in Procs, RaiseHighest(p) PROVE OnceOK'
  BY <1>5 DEF RaiseHighest
<1>6. ASSUME NEW p \in Procs, ScheduleNext(p) PROVE OnceOK'
  <2> SUFFICES ASSUME Undisturbed PROVE OnceOK'
    BY <1>6 DEF ScheduleNext
  <2>1. pc[p] = "schedule" /\ (\A q \in Procs : pc[q] = "schedule" => q = p)
    BY <1>6 DEF ScheduleNext
  <2>2. \A id \in scheduled : id \in Nat /\ id <= cursor[p]
    BY <2>1
  <2>3. cursor[p] \in Nat /\ cursor'[p] = cursor[p] + 1 /\ UNCHANGED pc
    BY <1>6 DEF ScheduleNext
  <2>4. scheduled' = scheduled \cup {cursor[p] + 1}
    BY <1>6 DEF ScheduleNext
  <2>5. cursor[p] + 1 \notin scheduled
    BY <2>2, <2>3
  <2>6. repeated' = {}
    BY <1>6, <2>5 DEF ScheduleNext
  <2>7. \A id \in scheduled' : id <= cursor'[p]
    BY <2>2, <2>3, <2>4
  <2> QED BY <2>1, <2>3, <2>6, <2>7
<1>7. ASSUME NEW p \in Procs, StoreCurrent(p) PROVE OnceOK'
  BY <1>7 DEF StoreCurrent
<1>8. ASSUME NEW p \in Procs, ReleaseLock(p) PROVE OnceOK'
  BY <1>8 DEF ReleaseLock, EndSweep
<1> QED BY <1>1, <1>2, <1>3, <1>4, <1>5, <1>6, <1>7, <1>8, SweepOrQuiet DEF SweepStep

\* A sweep that schedules works towards the highest id.
LEMMA TargetKept ==
  ASSUME TypeOK, LockOK, TargetOK, [Next]_vars
  PROVE  TargetOK'
<1> USE DEF TypeOK, LockOK, TargetOK, Goto, Holding, bounds, marks, sweeping, result
<1>1. ASSUME Quiet, CountersRise PROVE TargetOK'
  BY <1>1 DEF Quiet, CountersRise
<1>2. ASSUME NEW p \in Procs, AcquireLock(p) PROVE TargetOK'
  BY <1>2 DEF AcquireLock
<1>3. ASSUME NEW p \in Procs, ReadHighest(p) PROVE TargetOK'
  BY <1>3 DEF ReadHighest
<1>4. ASSUME NEW p \in Procs, ReadCurrent(p) PROVE TargetOK'
  BY <1>4 DEF ReadCurrent
<1>5. ASSUME NEW p \in Procs, RaiseHighest(p) PROVE TargetOK'
  BY <1>5 DEF RaiseHighest
<1>6. ASSUME NEW p \in Procs, ScheduleNext(p) PROVE TargetOK'
  BY <1>6 DEF ScheduleNext
<1>7. ASSUME NEW p \in Procs, StoreCurrent(p) PROVE TargetOK'
  BY <1>7 DEF StoreCurrent
<1>8. ASSUME NEW p \in Procs, ReleaseLock(p) PROVE TargetOK'
  BY <1>8 DEF ReleaseLock, EndSweep
<1> QED BY <1>1, <1>2, <1>3, <1>4, <1>5, <1>6, <1>7, <1>8, SweepOrQuiet DEF SweepStep

\* Between two sweeps the marks are at most one apart.
LEMMA GapKept ==
  ASSUME TypeOK, LockOK, MarksOK, GapOK, [Next]_vars
  PROVE  GapOK'
<1> USE DEF TypeOK, LockOK, MarksOK, GapOK, Undisturbed, NobodySchedules, Goto, Holding,
            bounds, marks, sweeping, result
<1>1. ASSUME Quiet, CountersRise PROVE GapOK'
  BY <1>1 DEF Quiet, CountersRise
<1>2. ASSUME NEW p \in Procs, AcquireLock(p) PROVE GapOK'
  BY <1>2 DEF AcquireLock
<1>3. ASSUME NEW p \in Procs, ReadHighest(p) PROVE GapOK'
  BY <1>3 DEF ReadHighest
<1>4. ASSUME NEW p \in Procs, ReadCurrent(p) PROVE GapOK'
  BY <1>4 DEF ReadCurrent
<1>5. ASSUME NEW p \in Procs, RaiseHighest(p) PROVE GapOK'
  BY <1>5 DEF RaiseHighest
<1>6. ASSUME NEW p \in Procs, ScheduleNext(p) PROVE GapOK'
  BY <1>6 DEF ScheduleNext
<1>7. ASSUME NEW p \in Procs, StoreCurrent(p) PROVE GapOK'
  BY <1>7 DEF StoreCurrent
<1>8. ASSUME NEW p \in Procs, ReleaseLock(p) PROVE GapOK'
  BY <1>8 DEF ReleaseLock, EndSweep
<1> QED BY <1>1, <1>2, <1>3, <1>4, <1>5, <1>6, <1>7, <1>8, SweepOrQuiet DEF SweepStep

----------------------------------------------------------------------------
(* What a probe asks for, what has been covered, and who probes.           *)

\* A probe starts at the highest id, which only rises while it runs, and
\* what it finds is within the steps of LoopOK.
LEMMA ReachKept ==
  ASSUME TypeOK, LoopOK, LockOK, MarksOK, ReachOK, [Next]_vars
  PROVE  ReachOK'
<1> USE ProcAssumption, ProbeAssumption
    DEF ProcAssumption, ProbeAssumption, TypeOK, ReachOK, Goto, Procs, bounds, marks,
        probing, sweeping, SweepLimit
<1>1. ASSUME NEW p \in Probes, StartProbe(p) PROVE ReachOK'
  BY <1>1 DEF StartProbe
<1>2. ASSUME NEW p \in Probes, QueryHit(p) \/ QueryBlank(p) \/ QueryTimesOut(p)
      PROVE  ReachOK'
  BY <1>2 DEF QueryHit, QueryBlank, QueryTimesOut, MayQuery, Fault
<1>3. ASSUME NEW p \in Probes, DecideFixedSweep(p) PROVE ReachOK'
  <2>1. expiries = 0 => from[p] + IQUERY_FIXED_SWEEP < highest + SweepLimit
    BY <1>3 DEF DecideFixedSweep, Probed
  <2> QED BY <1>3, <2>1 DEF DecideFixedSweep, LeaveLoop
<1>4. ASSUME NEW p \in Probes, SaveReports(p) PROVE ReachOK'
  <2>1. match[p] < from[p] + SweepLimit /\ (expiries = 0 => from[p] <= highest)
    BY <1>4 DEF SaveReports, Probed, LoopOK
  <2> QED BY <1>4, <2>1 DEF SaveReports, LeaveLoop
<1>5. ASSUME NEW p \in Probes,
             EmptyProbe(p) \/ SaveFails(p) \/ QueryFails(p) \/ QueryBlocked(p)
      PROVE  ReachOK'
  BY <1>5 DEF EmptyProbe, SaveFails, QueryFails, QueryBlocked, GiveUp, LeaveLoop, Fault
<1>6. ASSUME NEW p \in Probes, FinishProbe(p) PROVE ReachOK'
  BY <1>6 DEF FinishProbe
<1>7. ASSUME NEW u \in Uploads, Upload(u) PROVE ReachOK'
  BY <1>7 DEF Upload
<1>8. ASSUME NEW p \in Procs, AcquireLock(p) \/ ReadHighest(p) \/ ReadCurrent(p) \/ ReleaseLock(p)
      PROVE  ReachOK'
  BY <1>8 DEF AcquireLock, ReadHighest, ReadCurrent, ReleaseLock, EndSweep
<1>9. ASSUME NEW p \in Procs, RaiseHighest(p) PROVE ReachOK'
  BY <1>9 DEF RaiseHighest, MarksOK
<1>10. ASSUME NEW p \in Procs, ScheduleNext(p) \/ StoreCurrent(p) PROVE ReachOK'
  BY <1>10 DEF ScheduleNext, StoreCurrent
<1>11. ASSUME NEW p \in Procs, Die(p) PROVE ReachOK'
  BY <1>11 DEF Die, LeaveLoop, EndSweep
<1>12. ASSUME DaemonStep \/ FileCase \/ WaitExpires PROVE ReachOK'
  BY <1>12 DEF DaemonStep, CheckWait, FindSemaphore, EnqueueProbe, FileCase, WaitExpires
<1>13. ASSUME LockExpires \/ SemaphoreExpires PROVE ReachOK'
  <2>1. expiries' = 0 => expiries = 0
    BY <1>13, SweepOrQuiet DEF CountersRise
  <2>2. UNCHANGED <<marks, pc, probing, sweeping>>
    BY <1>13, Zenon DEF LockExpires, SemaphoreExpires
  <2> QED BY <2>1, <2>2
<1>14. ASSUME UNCHANGED vars PROVE ReachOK'
  BY <1>14 DEF vars
<1> QED BY <1>1, <1>2, <1>3, <1>4, <1>5, <1>6, <1>7, <1>8, <1>9, <1>10, <1>11, <1>12, <1>13,
           <1>14 DEF Next, ProbeStep, ProbeFault, SweepStep

\* Ids are scheduled one by one upwards from the mark; nothing is unscheduled.
LEMMA SweptKept ==
  ASSUME TypeOK, SweptOK, [Next]_vars
  PROVE  SweptOK'
<1> USE DEF TypeOK, SweptOK, Covered, Goto, Holding, bounds, marks, sweeping, result
<1>1. ASSUME Quiet PROVE SweptOK'
  BY <1>1 DEF Quiet
<1>2. ASSUME NEW p \in Procs, AcquireLock(p) PROVE SweptOK'
  BY <1>2 DEF AcquireLock
<1>3. ASSUME NEW p \in Procs, ReadHighest(p) PROVE SweptOK'
  BY <1>3 DEF ReadHighest
<1>4. ASSUME NEW p \in Procs, ReadCurrent(p) PROVE SweptOK'
  BY <1>4 DEF ReadCurrent
<1>5. ASSUME NEW p \in Procs, RaiseHighest(p) PROVE SweptOK'
  BY <1>5 DEF RaiseHighest
<1>6. ASSUME NEW p \in Procs, ScheduleNext(p) PROVE SweptOK'
  <2>1. /\ scheduled' = scheduled \cup {cursor[p] + 1} /\ UNCHANGED <<pc, current>>
        /\ cursor'[p] = cursor[p] + 1
        /\ \A q \in Procs \ {p} : cursor'[q] = cursor[q]
    BY <1>6 DEF ScheduleNext
  <2>2. (Start + 1)..cursor[p] \subseteq scheduled
    BY <1>6 DEF ScheduleNext
  <2>3. (Start + 1)..cursor'[p] \subseteq scheduled'
    BY <2>1, <2>2, ProbeAssumption DEF ProbeAssumption
  <2> QED BY <2>1, <2>3
<1>7. ASSUME NEW p \in Procs, StoreCurrent(p) PROVE SweptOK'
  BY <1>7 DEF StoreCurrent
<1>8. ASSUME NEW p \in Procs, ReleaseLock(p) PROVE SweptOK'
  BY <1>8 DEF ReleaseLock, EndSweep
<1> QED BY <1>1, <1>2, <1>3, <1>4, <1>5, <1>6, <1>7, <1>8, SweepOrQuiet DEF SweepStep

\* The semaphore stands for the one probe there is.
LEMMA ProbeKept ==
  ASSUME TypeOK, ProbeOK, [Next]_vars
  PROVE  ProbeOK'
<1> USE ProcAssumption DEF ProcAssumption, TypeOK, ProbeOK, Goto, Procs, bounds
<1>1. ASSUME NEW p \in Probes, EnqueueProbe(p) PROVE ProbeOK'
  BY <1>1 DEF EnqueueProbe
<1>2. ASSUME NEW p \in Probes, FinishProbe(p) PROVE ProbeOK'
  BY <1>2 DEF FinishProbe
<1>3. ASSUME NEW p \in Probes, QueryFails(p) \/ QueryBlocked(p) PROVE ProbeOK'
  BY <1>3 DEF QueryFails, QueryBlocked, GiveUp, MayQuery, Fault
<1>4. ASSUME UNCHANGED semaphore,
             \A q \in Probes : pc'[q] # "idle" => pc[q] # "idle"
      PROVE  ProbeOK'
  <2>1. expiries' = 0 => expiries = 0
    BY SweepOrQuiet DEF CountersRise
  <2> QED BY <1>4, <2>1
<1>5. ASSUME NEW p \in Probes,
             \/ StartProbe(p) \/ QueryHit(p) \/ QueryBlank(p) \/ DecideFixedSweep(p)
             \/ SaveReports(p) \/ EmptyProbe(p) \/ QueryTimesOut(p) \/ SaveFails(p)
      PROVE  ProbeOK'
  BY <1>4, <1>5 DEF StartProbe, QueryHit, QueryBlank, DecideFixedSweep, SaveReports,
                    EmptyProbe, QueryTimesOut, SaveFails, MayQuery, Probed
<1>6. ASSUME NEW u \in Uploads, Upload(u) PROVE ProbeOK'
  BY <1>4, <1>6 DEF Upload
<1>7. ASSUME NEW p \in Procs, SweepStep(p) \/ Die(p) PROVE ProbeOK'
  BY <1>4, <1>7 DEF SweepStep, AcquireLock, ReadHighest, ReadCurrent, RaiseHighest,
                    ScheduleNext, StoreCurrent, ReleaseLock, Die
<1>8. ASSUME CheckWait \/ FindSemaphore \/ FileCase \/ LockExpires \/ WaitExpires \/ UNCHANGED vars
      PROVE  ProbeOK'
  BY <1>4, <1>8 DEF CheckWait, FindSemaphore, FileCase, LockExpires, WaitExpires, vars
<1>9. ASSUME SemaphoreExpires PROVE ProbeOK'
  <2>1. expiries' = 0 => NoProbe
    <3>1. NoProbe \/ expiries' = expiries + 1
      BY <1>9, Zenon DEF SemaphoreExpires
    <3> QED BY <3>1
  <2>2. UNCHANGED pc
    BY <1>9, Zenon DEF SemaphoreExpires
  <2> QED BY <2>1, <2>2 DEF NoProbe
<1> QED BY <1>1, <1>2, <1>3, <1>5, <1>6, <1>7, <1>8, <1>9
       DEF Next, DaemonStep, ProbeStep, ProbeFault

----------------------------------------------------------------------------
(* The theorems.                                                           *)

IInv ==
    /\ TypeOK /\ LoopOK
    /\ LockOK /\ MarksOK /\ TargetOK /\ OnceOK /\ GapOK
    /\ ReachOK /\ SweptOK /\ ProbeOK

LEMMA InitOK == Init => IInv
<1> SUFFICES ASSUME Init PROVE IInv
  OBVIOUS
<1>1. TypeOK /\ LoopOK
  BY InitTyped
<1>2. LockOK /\ MarksOK /\ TargetOK /\ GapOK /\ ReachOK
  BY ProbeAssumption
     DEF Init, LockOK, MarksOK, TargetOK, GapOK, ReachOK, Undisturbed, NobodySchedules, Holding, Procs,
         ProbeAssumption
<1>3. OnceOK /\ SweptOK
  BY ProbeAssumption
     DEF Init, OnceOK, SweptOK, Covered, NobodySchedules, ProbeAssumption
<1>4. ProbeOK
  BY DEF Init, ProbeOK, Procs
<1> QED BY <1>1, <1>2, <1>3, <1>4 DEF IInv

LEMMA NextKeeps == IInv /\ [Next]_vars => IInv'
  BY TypedKept, LockKept, MarksKept, TargetKept, OnceKept, GapKept, ReachKept, SweptKept,
     ProbeKept
     DEF IInv

\* IInv holds in every reachable state.
THEOREM Invariance == Spec => []IInv
  BY InitOK, NextKeeps, PTL DEF Spec

\* Redis hashes, locks and local variables keep their types.
THEOREM TypeCorrect == Spec => []TypeOK
<1>1. IInv => TypeOK
  BY DEF IInv
<1> QED BY <1>1, Invariance, PTL

\* pacer_case_id_current never runs ahead of what has been scheduled, whatever
\* dies or expires during a sweep.
THEOREM NothingIsSkipped == Spec => []SweptIsScheduled
<1>1. IInv => SweptIsScheduled
  BY DEF IInv, SweptOK, Covered, SweptIsScheduled
<1> QED BY <1>1, Invariance, PTL

\* Probes and uploads that race for the same ids never schedule one twice, if
\* no process dies and no key expires under its owner.
THEOREM NothingIsRepeated == Spec => []ScheduledOnce
<1>1. IInv => ScheduledOnce
  BY DEF IInv, OnceOK, Undisturbed, ScheduledOnce
<1> QED BY <1>1, Invariance, PTL

\* While the semaphore outlives its probe there is at most one probe.
THEOREM ProbesAreAlone == Spec => []OneProbe
<1>1. IInv => OneProbe
  BY DEF IInv, ProbeOK, OneProbe
<1> QED BY <1>1, Invariance, PTL

\* For any settings, what a probe found is never too much for the sweep.
THEOREM HitsAreAccepted == Spec => []HitsAreSwept
<1>1. IInv => HitsAreSwept
  <2> SUFFICES ASSUME IInv, crashes = 0, expiries = 0, NEW p \in Probes, pc[p] = "compare"
               PROVE  ~TooMany(p)
    BY DEF HitsAreSwept
  <2>1. NobodySchedules
    BY DEF IInv, LockOK, NobodySchedules, Holding, Procs
  <2>2. current >= highest - 1
    BY <2>1 DEF IInv, GapOK, Undisturbed
  <2>3. target[p] < highest + SweepLimit
    BY DEF IInv, ReachOK
  <2> QED BY <2>2, <2>3, ProbeAssumption
          DEF IInv, TypeOK, Procs, TooMany, SweepLimit, ProbeAssumption
<1> QED BY <1>1, Invariance, PTL

\* Neither mark falls back unless a lock has expired under a sweep.
THEOREM MarksAdvance == Spec => MarksOnlyRise
<1>1. IInv /\ [Next]_vars => [expiries' = 0 => highest' >= highest /\ current' >= current]_vars
  <2> SUFFICES ASSUME IInv, [Next]_vars, expiries' = 0
               PROVE  highest' >= highest /\ current' >= current
    OBVIOUS
  <2>1. expiries = 0
    BY SweepOrQuiet DEF CountersRise, IInv, TypeOK
  <2>2. CASE Quiet
    BY <2>2 DEF Quiet, marks, IInv, TypeOK
  <2>3. ASSUME NEW p \in Procs, SweepStep(p)
        PROVE  highest' >= highest /\ current' >= current
    BY <2>1, <2>3
       DEF SweepStep, AcquireLock, ReadHighest, ReadCurrent, RaiseHighest, ScheduleNext,
           StoreCurrent, ReleaseLock, Goto, marks, IInv, TypeOK, MarksOK
  <2> QED BY <2>2, <2>3, SweepOrQuiet DEF IInv
<1> QED BY <1>1, Invariance, PTL DEF Spec, MarksOnlyRise

\* Only its holder, its TTL or the death of its holder ends a lock.
THEOREM LocksAreKept == Spec => LockIsNotStolen
<1> DEFINE A == \A p \in Procs : lock = p /\ lock' # p
                  => \/ pc[p] = "release" /\ pc'[p] # "release"
                     \/ expiries' # expiries
                     \/ crashes' # crashes
<1>1. IInv /\ [Next]_vars => [A]_vars
  <2> SUFFICES ASSUME IInv, [Next]_vars, NEW p \in Procs, lock = p, lock' # p
               PROVE  \/ pc[p] = "release" /\ pc'[p] # "release"
                      \/ expiries' # expiries
                      \/ crashes' # crashes
    OBVIOUS
  <2> USE ProcAssumption DEF ProcAssumption, IInv, TypeOK, Goto, Procs
  <2>1. ASSUME NEW q \in Probes, ProbeStep(q) \/ ProbeFault(q) PROVE UNCHANGED lock
    BY <2>1 DEF ProbeStep, ProbeFault, StartProbe, QueryHit, QueryBlank, DecideFixedSweep,
                SaveReports, EmptyProbe, FinishProbe, QueryTimesOut, QueryFails,
                QueryBlocked, GiveUp, SaveFails
  <2>2. ASSUME NEW q \in Procs, SweepStep(q) PROVE lock' # lock => q = p
    BY <2>2 DEF SweepStep, AcquireLock, ReadHighest, ReadCurrent, RaiseHighest, ScheduleNext,
                StoreCurrent, ReleaseLock
  <2>3. SweepStep(p) => pc[p] = "release" /\ pc'[p] # "release"
    BY DEF SweepStep, AcquireLock, ReadHighest, ReadCurrent, RaiseHighest, ScheduleNext,
           StoreCurrent, ReleaseLock
  <2>4. ASSUME NEW q \in Procs, Die(q) PROVE crashes' # crashes
    BY <2>4 DEF Die
  <2>5. LockExpires => expiries' # expiries
    BY DEF LockExpires
  <2>6. (DaemonStep \/ FileCase \/ SemaphoreExpires \/ WaitExpires \/ UNCHANGED vars
          \/ \E u \in Uploads : Upload(u)) => UNCHANGED lock
    BY Zenon DEF DaemonStep, CheckWait, FindSemaphore, EnqueueProbe, FileCase,
                 SemaphoreExpires, WaitExpires, Upload, vars
  <2> QED BY <2>1, <2>2, <2>3, <2>4, <2>5, <2>6 DEF Next
<1> QED BY <1>1, Invariance, PTL DEF Spec, LockIsNotStolen

----------------------------------------------------------------------------
(* The sweeps as the one reader of CaseSweep.                              *)

\* While no key expires there is one sweep at most.
LEMMA OneSweep ==
  ASSUME LockOK, expiries = 0, NEW p \in Procs, pc[p] \in Holding
  PROVE  Scheduling = IF pc[p] = "schedule" THEN {p} ELSE {}
BY DEF LockOK, Holding, Scheduling

LEMMA ReaderInit == Init => Reader!Init
<1> SUFFICES ASSUME Init PROVE Reader!Init
  OBVIOUS
<1>1. Scheduling = {}
  BY DEF Init, Scheduling
<1> QED
  BY <1>1 DEF Init, Reader!Init

\* A step that changes neither the marks nor where the sweep stands.
LEMMA ReaderWaits ==
  ASSUME UNCHANGED <<marks, result>>, Scheduling' = Scheduling,
         Scheduling = {} \/ cursor'[CHOOSE p \in Scheduling : TRUE]
                               = cursor[CHOOSE p \in Scheduling : TRUE]
  PROVE  UNCHANGED Reader!vars
BY DEF Reader!vars, marks, result

\* What is outside the sweep does not move the reader, and the death of the one
\* who sweeps sends it back.
LEMMA ReaderQuiet ==
  ASSUME LockOK, expiries = 0, Quiet
  PROVE  [Reader!Next]_(Reader!vars)
<1>1. Scheduling' \subseteq Scheduling
  BY DEF Quiet, Scheduling, Holding
<1>2. CASE Scheduling = {}
  BY <1>1, <1>2, ReaderWaits DEF Quiet
<1>3. ASSUME NEW p \in Procs, p \in Scheduling PROVE [Reader!Next]_(Reader!vars)
  <2>1. Scheduling = {p}
    BY <1>3, OneSweep DEF Scheduling, Holding
  <2>2. (CHOOSE q \in Scheduling : TRUE) = p
    BY <2>1
  <2>3. CASE Scheduling' = {}
    <3>1. UNCHANGED <<highest, current, scheduled>>
      BY DEF Quiet, marks, result
    <3> QED
      BY <2>1, <2>3, <3>1 DEF Reader!Next, Reader!Abandon
  <2>4. CASE Scheduling' = {p}
    <3>1. cursor'[p] = cursor[p]
      BY <1>3, <2>4 DEF Quiet, Scheduling, Holding
    <3> QED
      BY <2>1, <2>2, <2>4, <3>1, ReaderWaits DEF Quiet
  <2> QED
    BY <1>1, <2>1, <2>3, <2>4
<1> QED
  BY <1>2, <1>3 DEF Scheduling

\* The steps of a sweep move it.
LEMMA ReaderSweep ==
  ASSUME IInv, LockOK', expiries' = 0, expiries = 0, NEW p \in Procs, SweepStep(p)
  PROVE  [Reader!Next]_(Reader!vars)
<1>0. pc \in [Procs -> Stands] /\ cursor \in [Procs -> Nat] /\ target \in [Procs -> Nat]
      /\ LockOK /\ highest \in Nat /\ current \in Nat
  BY DEF IInv, TypeOK
<1>1. CASE AcquireLock(p)
  <2>1. Scheduling' = Scheduling
    BY <1>0, <1>1 DEF AcquireLock, Goto, Scheduling
  <2> QED
    BY <1>1, <2>1, ReaderWaits DEF AcquireLock, sweeping
<1>2. CASE ReadHighest(p) \/ ReadCurrent(p) \/ ReleaseLock(p)
  <2>1. pc[p] \in Holding /\ pc[p] # "schedule" /\ UNCHANGED <<marks, result>>
    BY <1>2 DEF ReadHighest, ReadCurrent, ReleaseLock, Goto, Holding
  <2>2. \A q \in Procs : pc'[q] = "schedule" => pc[q] = "schedule"
    BY <1>0, <1>2 DEF ReadHighest, ReadCurrent, ReleaseLock, Goto
  <2>3. Scheduling = {}
    BY <1>0, <2>1, OneSweep
  <2>4. Scheduling' = {}
    BY <2>2, <2>3 DEF Scheduling
  <2> QED
    BY <2>1, <2>3, <2>4, ReaderWaits
<1>3. CASE RaiseHighest(p)
  <2>1. /\ pc[p] = "raise" /\ pc'[p] = "schedule" /\ highest' = target[p]
        /\ cursor'[p] = cursor[p] /\ UNCHANGED <<current, scheduled>>
    BY <1>0, <1>3 DEF RaiseHighest, Goto, sweeping, result
  <2>2. Scheduling = {} /\ Scheduling' = {p}
    <3>1. Scheduling = {}
      BY <1>0, <2>1, OneSweep DEF Holding
    <3>2. \A q \in Procs : pc'[q] = "schedule" <=> q = p
      BY <1>0, <1>3, <3>1 DEF RaiseHighest, Goto, Scheduling
    <3> QED
      BY <3>1, <3>2 DEF Scheduling
  <2>3. target[p] > highest /\ cursor[p] = current
    BY <2>1 DEF IInv, MarksOK
  <2>4. (CHOOSE q \in Scheduling' : TRUE) = p
    BY <2>2
  <2>5. target[p] \in Nat
    BY <1>0
  <2> QED
    BY <2>1, <2>2, <2>3, <2>4, <2>5 DEF Reader!Next, Reader!Claim
<1>4. CASE ScheduleNext(p)
  <2>1. /\ pc[p] = "schedule" /\ pc' = pc /\ cursor[p] + 1 < target[p]
        /\ cursor'[p] = cursor[p] + 1
        /\ scheduled' = scheduled \cup {cursor[p] + 1} /\ UNCHANGED <<highest, current>>
    BY <1>0, <1>4 DEF ScheduleNext, marks
  <2>2. Scheduling = {p} /\ Scheduling' = {p}
    BY <1>0, <2>1, OneSweep DEF Holding, Scheduling
  <2>3. target[p] = highest
    BY <2>1 DEF IInv, TargetOK
  <2>4. (CHOOSE q \in Scheduling : TRUE) = p /\ (CHOOSE q \in Scheduling' : TRUE) = p
    BY <2>2
  <2> QED
    BY <2>1, <2>2, <2>3, <2>4 DEF Reader!Next, Reader!Schedule
<1>5. CASE StoreCurrent(p)
  <2>1. /\ pc[p] = "schedule" /\ pc'[p] = "release" /\ cursor[p] + 1 >= target[p]
        /\ current' = cursor[p] /\ UNCHANGED <<highest, scheduled>>
    BY <1>0, <1>5 DEF StoreCurrent, Goto, result
  <2>2. Scheduling = {p} /\ Scheduling' = {}
    <3>1. Scheduling = {p}
      BY <1>0, <2>1, OneSweep DEF Holding
    <3>2. \A q \in Procs : pc'[q] # "schedule"
      BY <1>0, <1>5, <3>1 DEF StoreCurrent, Goto, Scheduling
    <3> QED
      BY <3>1, <3>2 DEF Scheduling
  <2>3. target[p] = highest
    BY <2>1 DEF IInv, TargetOK
  <2>4. (CHOOSE q \in Scheduling : TRUE) = p
    BY <2>2
  <2> QED
    BY <2>1, <2>2, <2>3, <2>4 DEF Reader!Next, Reader!Save
<1> QED
  BY <1>1, <1>2, <1>3, <1>4, <1>5 DEF SweepStep

\* Until a lock expires under its sweep, IqueryProbe implements CaseSweep: sweeps
\* of probes and uploads alike follow one another and read the ids in order, and
\* one that dies has only its own ids scheduled again.
THEOREM SweepsAreOneReader == Spec => SweepsInOrder
<1>1. IInv /\ IInv' /\ [Next]_vars => [expiries' = 0 => [Reader!Next]_(Reader!vars)]_vars
  <2> SUFFICES ASSUME IInv, IInv', [Next]_vars, expiries' = 0
               PROVE  [Reader!Next]_(Reader!vars)
    OBVIOUS
  <2>1. expiries = 0
    BY SweepOrQuiet DEF CountersRise, IInv, TypeOK
  <2>2. CASE Quiet
    BY <2>1, <2>2, ReaderQuiet DEF IInv
  <2>3. ASSUME NEW p \in Procs, SweepStep(p) PROVE [Reader!Next]_(Reader!vars)
    BY <2>1, <2>3, ReaderSweep DEF IInv
  <2> QED
    BY <2>2, <2>3, SweepOrQuiet DEF IInv
<1> QED
  BY <1>1, Invariance, ReaderInit, PTL DEF Spec, SweepsInOrder
=============================================================================
