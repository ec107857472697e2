------------------------ MODULE TaskThrottle_proofs ------------------------
(***************************************************************************)
(* Proofs about TaskThrottle, for any tasks, workers, rate, window and     *)
(* faults.                                                                 *)
(*                                                                         *)
(* Whoever begins the counter anew, raises it beyond the rate, or finds    *)
(* that a window it saw is over, decided on that in a call that was going  *)
(* on already when the counter came to be, became full, or expired: after  *)
(* that, nobody takes that branch any more.  The calls going on are as     *)
(* many as the workers, and each decides once.                             *)
(***************************************************************************)
EXTENDS TaskThrottle, FiniteSetTheorems, TLAPS

Opening == {t \in Tasks : pc[t] = "open"}
Raising == {t \in Tasks : pc[t] = "incr"}
Facing  == {t \in Tasks : pc[t] \in {"full", "ttl"}}

PoolOK == Cardinality(InCall) <= Workers

\* Only those that found no key begin the counter of a window anew.
RoundsOK ==
    /\ count = 0 => rounds = 0
    /\ count > 0 => rounds + Cardinality(Opening) <= Workers

\* Only those that found the window open raise a counter that is at the rate.
CountedOK ==
    /\ Cardinality(counted) <= count
    /\ count >= Allowed => count + Cardinality(Raising) <= Allowed + (Workers - 1)

\* Only those that found the window full find out that it is over.
OutlivedOK ==
    /\ Cardinality(outlived) <= Workers
    /\ count = 0 => Cardinality(outlived \cup Facing) <= Workers

IInv == TypeOK /\ PoolOK /\ RoundsOK /\ CountedOK /\ OutlivedOK

----------------------------------------------------------------------------
(* Types.                                                                  *)

LEMMA ShareIsNatural == Duration \div Allowed \in Nat
BY ThrottleAssumption DEF ThrottleAssumption

LEMMA TypeStep ==
  ASSUME TypeOK, NEW t \in Tasks, Step(t)
  PROVE  TypeOK'
<1> USE ThrottleAssumption DEF ThrottleAssumption
<1>1. CASE Look(t)
  BY <1>1 DEF Look, Goto, TypeOK, Calls, keys, history
<1>2. CASE Open(t)
  BY <1>2 DEF Open, SetCount, Goto, TypeOK, Calls, keys, history, NoTTL
<1>3. CASE Incr(t)
  BY <1>3 DEF Incr, RaiseCount, Goto, TypeOK, Calls, keys, history, NoTTL
<1>4. CASE SetExpiry(t)
  BY <1>4 DEF SetExpiry, Goto, TypeOK, Calls, keys, history, NoTTL
<1>5. CASE GetSchedule(t)
  <2>1. ASSUME schedule >= 0 PROVE schedule + Duration \div Allowed \in Nat
    BY <2>1, ShareIsNatural DEF TypeOK, Past
  <2> HIDE DEF ThrottleAssumption
  <2>2. later' \in [Tasks -> Nat]
    BY <1>5, <2>1 DEF GetSchedule, TypeOK
  <2> QED
    BY <1>5, <2>2 DEF GetSchedule, Goto, TypeOK, Calls, keys, history
<1>6. CASE SetForNextWindow(t)
  BY <1>6 DEF SetForNextWindow, Goto, TypeOK, Calls, keys, history, NoTTL
<1>7. CASE SaveSchedule(t)
  BY <1>7 DEF SaveSchedule, Goto, TypeOK, Calls, keys, history
<1> QED
  BY <1>1, <1>2, <1>3, <1>4, <1>5, <1>6, <1>7 DEF Step

LEMMA TypeFault ==
  ASSUME TypeOK, NEW t \in Tasks, Die(t) \/ Reconnect(t)
  PROVE  TypeOK'
<1> USE ThrottleAssumption DEF ThrottleAssumption
<1>1. CASE Die(t)
  BY <1>1 DEF Die, Fault, Goto, TypeOK, Calls, keys, history
<1>2. CASE Reconnect(t)
  BY <1>2 DEF Reconnect, SetCount, RaiseCount, Fault, Goto, TypeOK, Calls, NoTTL
<1> QED
  BY <1>1, <1>2

LEMMA TypeClock ==
  ASSUME TypeOK, Expire \/ Tick
  PROVE  TypeOK'
<1> USE ThrottleAssumption DEF ThrottleAssumption
<1>1. CASE Expire
  BY <1>1 DEF Expire, TypeOK, InCall, Calls, NoTTL
<1>2. CASE Tick
  <2>1. ttl' \in {NoTTL} \cup 0..Duration /\ (count = 0 => ttl' = NoTTL)
    BY <1>2 DEF Tick, TypeOK, NoTTL
  <2>2. schedule' \in {Past} \cup Nat
    BY <1>2 DEF Tick, TypeOK, Past
  <2>3. wait' \in [Tasks -> Nat]
    BY <1>2 DEF Tick, TypeOK
  <2> QED
    BY <1>2, <2>1, <2>2, <2>3 DEF Tick, TypeOK, history
<1> QED
  BY <1>1, <1>2

LEMMA TypeInit == Init => TypeOK
BY ThrottleAssumption DEF ThrottleAssumption, Init, TypeOK, NoTTL, Past

LEMMA TypeInductive == TypeOK /\ [Next]_vars => TypeOK'
<1> SUFFICES ASSUME TypeOK, [Next]_vars PROVE TypeOK'
  OBVIOUS
<1>1. CASE UNCHANGED vars
  BY <1>1 DEF TypeOK, vars, keys, history
<1> QED
  BY <1>1, TypeStep, TypeFault, TypeClock DEF Next

\* The keys in Redis and what the workers know of them stay in their types: a
\* counter that is not there has no expiry, and an expiry is within a window.
THEOREM TypeCorrect == Spec => []TypeOK
BY TypeInit, TypeInductive, PTL DEF Spec

----------------------------------------------------------------------------
(* The sizes of sets of tasks.                                             *)

LEMMA Sizes ==
  ASSUME NEW S \in SUBSET Tasks
  PROVE  /\ Cardinality(S) \in Nat
         /\ \A T \in SUBSET S : Cardinality(T) <= Cardinality(S)
         /\ \A t \in Tasks : Cardinality(S \cup {t}) <= Cardinality(S) + 1
         /\ \A t \in S : Cardinality(S \ {t}) = Cardinality(S) - 1
<1>1. IsFiniteSet(S) /\ Cardinality(S) \in Nat
  BY FS_Subset, FS_CardinalityType, ThrottleAssumption DEF ThrottleAssumption
<1>2. \A T \in SUBSET S : Cardinality(T) <= Cardinality(S)
  BY <1>1, FS_Subset
<1>3. \A t \in Tasks : Cardinality(S \cup {t}) <= Cardinality(S) + 1
  <2>1. \A t : Cardinality(S \cup {t}) = IF t \in S THEN Cardinality(S) ELSE Cardinality(S) + 1
    BY <1>1, FS_AddElement
  <2> QED
    BY <1>1, <2>1
<1>4. \A t \in S : Cardinality(S \ {t}) = Cardinality(S) - 1
  BY <1>1, FS_RemoveElement
<1> QED
  BY <1>1, <1>2, <1>3, <1>4

LEMMA Numbers == Allowed \in Nat \ {0} /\ Workers \in Nat \ {0}
BY ThrottleAssumption DEF ThrottleAssumption

LEMMA SetsOfTasks ==
  /\ Opening \subseteq InCall /\ Raising \subseteq InCall /\ Facing \subseteq InCall
  /\ InCall \subseteq Tasks
BY DEF Opening, Raising, Facing, InCall, Calls

\* While a worker is in the call, the others are fewer.
LEMMA TheOthers ==
  ASSUME PoolOK, NEW t \in InCall, NEW S, S \subseteq InCall \ {t}
  PROVE  Cardinality(S) \in Nat /\ Cardinality(S) + 1 <= Workers
<1>1. InCall \in SUBSET Tasks /\ InCall \ {t} \in SUBSET Tasks /\ S \in SUBSET Tasks
  BY SetsOfTasks
<1>2. Cardinality(S) <= Cardinality(InCall \ {t})
  BY <1>1, Sizes
<1>3. Cardinality(InCall \ {t}) = Cardinality(InCall) - 1
  BY <1>1, Sizes
<1> QED
  BY <1>1, <1>2, <1>3, Sizes, Numbers DEF PoolOK

----------------------------------------------------------------------------
(* The steps, by what they do to the counter.                              *)

LEMMA PoolShrinks ==
  ASSUME PoolOK, InCall' \subseteq InCall
  PROVE  PoolOK'
<1>1. Cardinality(InCall') <= Cardinality(InCall) /\ Cardinality(InCall') \in Nat
  BY SetsOfTasks, Sizes
<1> QED
  BY <1>1, SetsOfTasks, Sizes, Numbers DEF PoolOK

\* The counter is left alone, and nobody comes who would change it.
LEMMA CounterKept ==
  ASSUME TypeOK, RoundsOK, CountedOK,
         count' = count, rounds' = rounds, counted' = counted,
         count > 0 => Opening' \subseteq Opening,
         count >= Allowed => Raising' \subseteq Raising
  PROVE  RoundsOK' /\ CountedOK'
<1>1. Opening \in SUBSET Tasks /\ Raising \in SUBSET Tasks /\ count \in Nat /\ rounds \in Nat
  BY SetsOfTasks DEF TypeOK
<1>2. Cardinality(Opening) \in Nat /\ Cardinality(Raising) \in Nat
  BY <1>1, Sizes
<1>3. count > 0 => Cardinality(Opening') \in Nat /\ Cardinality(Opening') <= Cardinality(Opening)
  BY <1>1, Sizes
<1>4. count >= Allowed => Cardinality(Raising') \in Nat /\ Cardinality(Raising') <= Cardinality(Raising)
  BY <1>1, Sizes
<1>5. RoundsOK'
  BY <1>1, <1>2, <1>3, Numbers DEF RoundsOK
<1>6. CountedOK'
  BY <1>1, <1>2, <1>4, Numbers DEF CountedOK
<1> QED
  BY <1>5, <1>6

\* Nobody finds out that a window is over, or the counter is not that of a new one.
LEMMA OutlivedKept ==
  ASSUME TypeOK, OutlivedOK, outlived' \in SUBSET Tasks,
         \/ outlived' = outlived
         \/ count = 0 /\ outlived' \subseteq outlived \cup Facing,
         count' = 0 => count = 0 /\ outlived' \cup Facing' \subseteq outlived \cup Facing
  PROVE  OutlivedOK'
<1>1. outlived \cup Facing \in SUBSET Tasks /\ outlived \in SUBSET Tasks
  BY SetsOfTasks DEF TypeOK
<1>2. Cardinality(outlived \cup Facing) \in Nat /\ Cardinality(outlived') \in Nat
  BY <1>1, Sizes
<1>3. Cardinality(outlived') <= Workers
  <2>1. CASE outlived' = outlived
    BY <2>1 DEF OutlivedOK
  <2>2. CASE count = 0 /\ outlived' \subseteq outlived \cup Facing
    <3>1. Cardinality(outlived') <= Cardinality(outlived \cup Facing)
      BY <1>1, <2>2, Sizes
    <3> QED
      BY <1>2, <2>2, <3>1, Numbers DEF OutlivedOK
  <2> QED
    BY <2>1, <2>2
<1>4. ASSUME count' = 0 PROVE Cardinality((outlived \cup Facing)') <= Workers
  <2>1. (outlived \cup Facing)' \in SUBSET (outlived \cup Facing)
    BY <1>4
  <2>2. /\ Cardinality((outlived \cup Facing)') <= Cardinality(outlived \cup Facing)
        /\ Cardinality((outlived \cup Facing)') \in Nat
    BY <1>1, <2>1, Sizes
  <2> QED
    BY <1>2, <1>4, <2>2, Numbers DEF OutlivedOK
<1> QED
  BY <1>3, <1>4 DEF OutlivedOK

\* SET, by a task that found no key, whether or not its answer arrives.
LEMMA BegunAnew ==
  ASSUME TypeOK, PoolOK, RoundsOK, NEW t \in Tasks, NEW T \in SUBSET {t}, SetCount(t, T),
         Opening' = Opening \ {t}, Raising' = Raising
  PROVE  RoundsOK' /\ CountedOK'
<1>1. t \in InCall /\ t \in Opening /\ t \notin Raising
  BY DEF SetCount, InCall, Calls, Opening, Raising
<1>2. count' = 1 /\ rounds' = rounds + 1 /\ counted' = T /\ count \in Nat /\ rounds \in Nat
  BY DEF SetCount, TypeOK
<1>3. Cardinality(Raising) \in Nat /\ Cardinality(Raising) + 1 <= Workers
  BY <1>1, SetsOfTasks, TheOthers
<1>4. /\ Cardinality(Opening) \in Nat /\ Cardinality(Opening') = Cardinality(Opening) - 1
      /\ Cardinality(Opening') \in Nat /\ Cardinality(Opening') + 1 <= Workers
  <2>1. Opening \in SUBSET Tasks /\ Opening' \subseteq InCall \ {t}
    BY SetsOfTasks
  <2> QED
    BY <1>1, <2>1, Sizes, TheOthers
<1>5. Cardinality(counted') <= 1
  <2>1. Cardinality({}) = 0 /\ Cardinality({t}) = 1
    BY FS_EmptySet, FS_Singleton
  <2>2. counted' = {} \/ counted' = {t}
    BY <1>2
  <2> QED
    BY <2>1, <2>2
<1>6. RoundsOK'
  <2>1. CASE count = 0
    BY <1>2, <1>4, <2>1, Numbers DEF RoundsOK
  <2>2. CASE count > 0
    BY <1>2, <1>4, <2>2, Numbers DEF RoundsOK
  <2> QED
    BY <1>2, <2>1, <2>2
<1>7. CountedOK'
  BY <1>2, <1>3, <1>5, Numbers DEF CountedOK
<1> QED
  BY <1>6, <1>7

\* INCR, by a task that found the window open, whether or not its answer arrives.
LEMMA Raised ==
  ASSUME TypeOK, PoolOK, RoundsOK, CountedOK,
         NEW t \in Tasks, NEW T \in SUBSET {t}, RaiseCount(t, T),
         Opening' = Opening, Raising' = Raising \ {t}
  PROVE  RoundsOK' /\ CountedOK'
<1>1. t \in InCall /\ t \in Raising /\ t \notin Opening
  BY DEF RaiseCount, InCall, Calls, Opening, Raising
<1>2. count' = count + 1 /\ count \in Nat /\ rounds \in Nat /\ counted \in SUBSET Tasks
  BY DEF RaiseCount, TypeOK
<1>3. Cardinality(Opening) \in Nat /\ Cardinality(Opening) + 1 <= Workers
  BY <1>1, SetsOfTasks, TheOthers
<1>4. /\ Cardinality(Raising) \in Nat /\ Cardinality(Raising') = Cardinality(Raising) - 1
      /\ Cardinality(Raising') \in Nat /\ Cardinality(Raising') + 1 <= Workers
  <2>1. Raising \in SUBSET Tasks /\ Raising' \subseteq InCall \ {t}
    BY SetsOfTasks
  <2> QED
    BY <1>1, <2>1, Sizes, TheOthers
<1>5. RoundsOK'
  <2>1. CASE count = 0
    <3>1. rounds = 0 /\ rounds' = rounds + 1
      BY <2>1 DEF RoundsOK, RaiseCount
    <3> QED
      BY <1>2, <1>3, <2>1, <3>1, Numbers DEF RoundsOK
  <2>2. CASE count > 0
    <3>1. rounds' = rounds
      BY <2>2 DEF RaiseCount
    <3> QED
      BY <1>2, <1>3, <2>2, <3>1, Numbers DEF RoundsOK
  <2> QED
    BY <1>2, <2>1, <2>2
<1>6. Cardinality(counted') <= count + 1 /\ Cardinality(counted') \in Nat
  <2>0. counted' = IF count = 0 THEN {} \cup T ELSE counted \cup T
    BY DEF RaiseCount
  <2>1. PICK C \in SUBSET Tasks : counted' \in SUBSET (C \cup {t}) /\ Cardinality(C) <= count
    <3>1. Cardinality({}) = 0
      BY FS_EmptySet
    <3>2. CASE count = 0
      BY <2>0, <3>1, <3>2
    <3>3. CASE count # 0
      BY <1>2, <2>0, <3>3 DEF CountedOK
    <3> QED
      BY <3>2, <3>3
  <2>2. Cardinality(C) \in Nat /\ Cardinality(C \cup {t}) <= Cardinality(C) + 1
    BY Sizes
  <2>3. C \cup {t} \in SUBSET Tasks /\ counted' \in SUBSET Tasks
    BY <2>1
  <2>4. /\ Cardinality(C \cup {t}) \in Nat /\ Cardinality(counted') \in Nat
        /\ Cardinality(counted') <= Cardinality(C \cup {t})
    BY <2>1, <2>3, Sizes
  <2> QED
    BY <1>2, <2>1, <2>2, <2>4
<1>7. count + 1 >= Allowed => count + 1 + Cardinality(Raising') <= Allowed + (Workers - 1)
  <2>1. CASE count >= Allowed
    BY <1>2, <1>4, <2>1, Numbers DEF CountedOK
  <2>2. CASE count < Allowed
    BY <1>2, <1>4, <2>2, Numbers
  <2> QED
    BY <1>2, <2>1, <2>2, Numbers
<1>8. CountedOK'
  BY <1>2, <1>6, <1>7 DEF CountedOK
<1> QED
  BY <1>5, <1>8

----------------------------------------------------------------------------
(* The actions.                                                            *)

\* A call that neither begins nor raises the counter.
LEMMA OtherCallKeeps ==
  ASSUME TypeOK, PoolOK, RoundsOK, CountedOK, OutlivedOK,
         NEW t \in Tasks, NEW l, Goto(t, l), pc[t] \in Calls,
         count' = count, rounds' = rounds, counted' = counted, outlived' = outlived,
         l \notin {"open", "incr", "full"},
         l = "ttl" => pc[t] = "full"
  PROVE  PoolOK' /\ RoundsOK' /\ CountedOK' /\ OutlivedOK'
<1>1. InCall' \subseteq InCall /\ Facing' \subseteq Facing
  BY DEF Goto, TypeOK, InCall, Facing
<1>2. Opening' \subseteq Opening /\ Raising' \subseteq Raising
  BY DEF Goto, TypeOK, Opening, Raising
<1>3. outlived' \in SUBSET Tasks /\ outlived' \cup Facing' \subseteq outlived \cup Facing
  BY <1>1 DEF TypeOK
<1> QED
  BY <1>1, <1>2, <1>3, PoolShrinks, CounterKept, OutlivedKept

LEMMA LookKeeps ==
  ASSUME TypeOK, PoolOK, RoundsOK, CountedOK, OutlivedOK, NEW t \in Tasks, Look(t)
  PROVE  PoolOK' /\ RoundsOK' /\ CountedOK' /\ OutlivedOK'
<1>0. /\ count' = count /\ rounds' = rounds /\ counted' = counted /\ outlived' = outlived
      /\ count \in Nat /\ pc[t] = "waiting" /\ Cardinality(InCall) < Workers
  BY DEF Look, TakeUp, keys, history, TypeOK
<1>1. PoolOK'
  <2>1. InCall' = InCall \cup {t}
    BY <1>0 DEF Look, Goto, TypeOK, InCall, Calls
  <2> QED
    BY <1>0, <2>1, SetsOfTasks, Sizes, Numbers DEF PoolOK
<1>2. count > 0 => Opening' \subseteq Opening
  BY DEF Look, Goto, TypeOK, Opening
<1>3. count >= Allowed => Raising' \subseteq Raising
  BY <1>0, Numbers DEF Look, Goto, TypeOK, Raising
<1>4. count = 0 => Facing' = Facing
  BY <1>0 DEF Look, Goto, TypeOK, Facing
<1>5. outlived' \in SUBSET Tasks /\ (count' = 0 => outlived' \cup Facing' \subseteq outlived \cup Facing)
  BY <1>0, <1>4 DEF TypeOK
<1> QED
  BY <1>0, <1>1, <1>2, <1>3, <1>5, CounterKept, OutlivedKept

\* A task leaves the call with SET or INCR.
LEMMA CountingKeeps ==
  ASSUME TypeOK, PoolOK, RoundsOK, CountedOK, OutlivedOK,
         NEW t \in Tasks, NEW T \in SUBSET {t}, SetCount(t, T) \/ RaiseCount(t, T),
         NEW l \in {"run", "expire", "waiting"}, Goto(t, l), outlived' = outlived
  PROVE  PoolOK' /\ RoundsOK' /\ CountedOK' /\ OutlivedOK'
<1>1. InCall' \subseteq InCall
  BY DEF SetCount, RaiseCount, Goto, TypeOK, InCall, Calls
<1>2. Opening' = Opening \ {t} /\ Raising' = Raising \ {t}
  BY DEF Goto, TypeOK, Opening, Raising
<1>3. count' # 0 /\ outlived' \in SUBSET Tasks
  BY DEF SetCount, RaiseCount, TypeOK
<1>4. CASE SetCount(t, T)
  <2>1. Raising' = Raising
    BY <1>2, <1>4 DEF SetCount, Raising
  <2> QED
    BY <1>1, <1>2, <1>3, <1>4, <2>1, PoolShrinks, BegunAnew, OutlivedKept
<1>5. CASE RaiseCount(t, T)
  <2>1. Opening' = Opening
    BY <1>2, <1>5 DEF RaiseCount, Opening
  <2> QED
    BY <1>1, <1>2, <1>3, <1>5, <2>1, PoolShrinks, Raised, OutlivedKept
<1> QED
  BY <1>4, <1>5

LEMMA SetForNextWindowKeeps ==
  ASSUME TypeOK, PoolOK, RoundsOK, CountedOK, OutlivedOK, NEW t \in Tasks, SetForNextWindow(t)
  PROVE  PoolOK' /\ RoundsOK' /\ CountedOK' /\ OutlivedOK'
<1>0. /\ count' = count /\ rounds' = rounds /\ counted' = counted /\ pc[t] = "ttl"
      /\ \A u \in Tasks : u # t => pc'[u] = pc[u]
      /\ pc'[t] \in {"run", "save"}
  BY DEF SetForNextWindow, Goto, keys, TypeOK
<1>1. InCall' \subseteq InCall /\ Facing' \subseteq Facing /\ t \in Facing
  BY <1>0 DEF InCall, Facing, Calls
<1>2. Opening' \subseteq Opening /\ Raising' \subseteq Raising
  BY <1>0 DEF Opening, Raising
<1>3. outlived' = outlived \/ (count = 0 /\ outlived' = outlived \cup {t})
  BY DEF SetForNextWindow
<1>4. /\ outlived' \in SUBSET Tasks
      /\ outlived' \subseteq outlived \cup Facing
      /\ outlived' \cup Facing' \subseteq outlived \cup Facing
  BY <1>1, <1>3 DEF TypeOK
<1> QED
  BY <1>0, <1>1, <1>2, <1>3, <1>4, PoolShrinks, CounterKept, OutlivedKept

LEMMA StepKeeps ==
  ASSUME TypeOK, PoolOK, RoundsOK, CountedOK, OutlivedOK, NEW t \in Tasks, Step(t)
  PROVE  PoolOK' /\ RoundsOK' /\ CountedOK' /\ OutlivedOK'
<1>1. CASE Open(t)
  BY <1>1, CountingKeeps DEF Open
<1>2. CASE Incr(t)
  BY <1>2, CountingKeeps DEF Incr
<1>3. CASE SetExpiry(t)
  BY <1>3, OtherCallKeeps DEF SetExpiry, history, Calls
<1>4. CASE GetSchedule(t)
  BY <1>4, OtherCallKeeps DEF GetSchedule, keys, history, Calls
<1>5. CASE SaveSchedule(t)
  BY <1>5, OtherCallKeeps DEF SaveSchedule, history, Calls
<1> QED
  BY <1>1, <1>2, <1>3, <1>4, <1>5, LookKeeps, SetForNextWindowKeeps DEF Step

LEMMA FaultKeeps ==
  ASSUME TypeOK, PoolOK, RoundsOK, CountedOK, OutlivedOK, NEW t \in Tasks, Die(t) \/ Reconnect(t)
  PROVE  PoolOK' /\ RoundsOK' /\ CountedOK' /\ OutlivedOK'
<1>1. CASE Die(t)
  BY <1>1, OtherCallKeeps DEF Die, keys, history
<1>2. CASE Reconnect(t)
  <2>1. pc[t] \in Calls /\ Goto(t, "waiting") /\ outlived' = outlived /\ {} \in SUBSET {t}
    BY <1>2 DEF Reconnect
  <2>2. CASE SetCount(t, {}) \/ RaiseCount(t, {})
    BY <2>1, <2>2, CountingKeeps
  <2>3. CASE UNCHANGED <<count, ttl, rounds, counted>>
    BY <2>1, <2>3, OtherCallKeeps
  <2> QED
    BY <1>2, <2>2, <2>3 DEF Reconnect
<1> QED
  BY <1>1, <1>2

LEMMA ClockKeeps ==
  ASSUME TypeOK, PoolOK, RoundsOK, CountedOK, OutlivedOK, Expire \/ Tick
  PROVE  PoolOK' /\ RoundsOK' /\ CountedOK' /\ OutlivedOK'
<1>0. pc' = pc /\ InCall' = InCall /\ Opening' = Opening /\ Raising' = Raising /\ Facing' = Facing
  BY DEF Expire, Tick, InCall, Opening, Raising, Facing
<1>1. PoolOK'
  BY <1>0, PoolShrinks
<1>2. CASE Expire
  <2>1. count' = 0 /\ rounds' = 0 /\ counted' = {} /\ outlived' = {} /\ Cardinality({}) = 0
    BY <1>2, FS_EmptySet DEF Expire
  <2>2. Cardinality(Facing) <= Workers
    <3>1. InCall \in SUBSET Tasks /\ Facing \in SUBSET InCall /\ Facing \in SUBSET Tasks
      BY SetsOfTasks
    <3>2. Cardinality(Facing) <= Cardinality(InCall) /\ Cardinality(Facing) \in Nat
      BY <3>1, Sizes
    <3> QED
      BY <3>1, <3>2, Sizes, Numbers DEF PoolOK
  <2>3. outlived' \cup Facing' = Facing
    BY <1>0, <2>1
  <2>4. RoundsOK' /\ CountedOK' /\ OutlivedOK'
    BY <2>1, <2>2, <2>3, Numbers DEF RoundsOK, CountedOK, OutlivedOK
  <2> QED
    BY <1>1, <2>4
<1>3. CASE Tick
  <2>1. /\ count' = count /\ rounds' = rounds /\ counted' = counted /\ outlived' = outlived
        /\ outlived' \in SUBSET Tasks
    BY <1>3 DEF Tick, history, TypeOK
  <2> QED
    BY <1>0, <1>1, <2>1, CounterKept, OutlivedKept
<1> QED
  BY <1>2, <1>3

LEMMA InitIInv == Init => IInv
<1> SUFFICES ASSUME Init PROVE IInv
  OBVIOUS
<1>1. InCall = {} /\ Facing = {} /\ Cardinality({}) = 0
  BY FS_EmptySet DEF Init, InCall, Facing, Calls
<1>2. count = 0 /\ rounds = 0 /\ counted = {} /\ outlived = {}
  BY DEF Init
<1>3. outlived \cup Facing = {}
  BY <1>1, <1>2
<1> QED
  BY <1>1, <1>2, <1>3, TypeInit, Numbers DEF IInv, PoolOK, RoundsOK, CountedOK, OutlivedOK

LEMMA StepIInv == IInv /\ [Next]_vars => IInv'
<1> SUFFICES ASSUME TypeOK, PoolOK, RoundsOK, CountedOK, OutlivedOK, [Next]_vars PROVE IInv'
  BY DEF IInv
<1>0. TypeOK'
  BY TypeInductive
<1>1. CASE UNCHANGED vars
  BY <1>0, <1>1 DEF IInv, PoolOK, RoundsOK, CountedOK, OutlivedOK, InCall, Opening, Raising, Facing,
                    vars, keys, history
<1>2. ASSUME NEW t \in Tasks, Step(t) PROVE IInv'
  BY <1>0, <1>2, StepKeeps DEF IInv
<1>3. ASSUME NEW t \in Tasks, Die(t) \/ Reconnect(t) PROVE IInv'
  BY <1>0, <1>3, FaultKeeps DEF IInv
<1>4. CASE Expire \/ Tick
  BY <1>0, <1>4, ClockKeeps DEF IInv
<1> QED
  BY <1>1, <1>2, <1>3, <1>4 DEF Next

LEMMA RateFollows == IInv => CountedRateIsKept
<1> SUFFICES ASSUME TypeOK, RoundsOK, CountedOK, OutlivedOK PROVE CountedRateIsKept
  BY DEF IInv
<1>0. count \in Nat /\ rounds \in Nat /\ counted \in SUBSET Tasks
  BY DEF TypeOK
<1>1. Cardinality(Opening) \in Nat /\ Cardinality(Raising) \in Nat /\ Cardinality(counted) \in Nat
  <2>1. Opening \in SUBSET Tasks /\ Raising \in SUBSET Tasks
    BY SetsOfTasks
  <2> QED
    BY <1>0, <2>1, Sizes
<1>2. rounds <= Workers
  BY <1>0, <1>1, Numbers DEF RoundsOK
<1>3. Cardinality(counted) <= Allowed + (Workers - 1)
  <2>1. CASE count >= Allowed
    BY <1>0, <1>1, <2>1, Numbers DEF CountedOK
  <2>2. CASE count < Allowed
    BY <1>0, <1>1, <2>2, Numbers DEF CountedOK
  <2> QED
    BY <1>0, <2>1, <2>2, Numbers
<1> QED
  BY <1>2, <1>3 DEF CountedRateIsKept, OutlivedOK

\* However many tasks race, and however their calls interleave, expire and fail:
\* in a window each worker begins the counter at most once, a counter that was
\* begun lets through at most the rate and one task for each other worker, and
\* each worker runs at most one task that found the window before full.  With one
\* worker that is the rate.
THEOREM RateHolds == Spec => []CountedRateIsKept
BY InitIInv, StepIInv, RateFollows, PTL DEF Spec
=============================================================================
