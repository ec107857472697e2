--------------------------- MODULE RssFeed_proofs ---------------------------
(***************************************************************************)
(* Proofs about RssFeed, for any items, rows, frequencies and failures.    *)
(*                                                                         *)
(* What becomes of the items depends on the chains alone (HoldingOK).  That *)
(* chains do not overlap early depends on the rows: every running chain    *)
(* has a row the daemon looks for (RunningOK), the rows looked for always  *)
(* have a latest one (LatestOK), and a chain that has a later row has run  *)
(* for as long as one may (LateOK).                                        *)
(***************************************************************************)
EXTENDS RssFeed, FiniteSetTheorems, TLAPS

Lost == (claimed \ merged) \ Held

\* A chain holds one claimed item at a time, while it merges.
HoldingOK ==
    \A k \in Slots :
        /\ holding[k] # {} => step[k] = "merge"
        /\ holding[k] \subseteq claimed
        /\ \A i, j \in holding[k] : i = j

RunningOK == \A k \in Slots : Running(k) => status[k] = "IN_PROGRESS"

LatestOK ==
    \A C \in SUBSET Candidates :
        C # {} => \E k \in C : C \ {k} \subseteq older[k]

LateOK ==
    \A i, j \in Slots :
        i \in older[j] /\ Running(i) => age[i] = RSS_MAX_PROCESSING_DURATION

RowsOK == RunningOK /\ LatestOK /\ LateOK

IInv == TypeOK /\ HoldingOK /\ RowsOK /\ OneItemPerFailure

----------------------------------------------------------------------------
(* Types, and what the chains hold.                                        *)

\* The latest row is one of those looked for, and later than the others.
LEMMA LatestIs ==
  ASSUME LatestOK, Candidates # {}
  PROVE  Latest \in Candidates /\ Candidates \ {Latest} \subseteq older[Latest]
<1>1. \E k \in Candidates : Candidates \ {k} \subseteq older[k]
  BY DEF LatestOK
<1> QED
  BY <1>1 DEF Latest

LEMMA TypesVisit ==
  ASSUME TypeOK, HoldingOK, LatestOK, Visit
  PROVE  TypeOK' /\ HoldingOK'
<1>1. PICK k \in Slots :
         /\ Free(k)
         /\ older' = [j \in Slots |-> IF j = k THEN InUse
                                      ELSE IF Free(j) THEN {} ELSE older[j] \cap InUse]
         /\ status' = [j \in Slots |-> IF j = k THEN "IN_PROGRESS"
                                       ELSE IF Free(j) THEN "FAILED" ELSE status[j]]
         /\ built' = [j \in Slots |-> built[j] /\ ~Free(j)]
         /\ age' = [j \in Slots |-> IF Free(j) THEN 0 ELSE age[j]]
         /\ step' = [step EXCEPT ![k] = "check"]
         /\ given' = [given EXCEPT ![k] = Candidates # {} /\ built[Latest]]
  BY DEF Visit
<1>2. UNCHANGED <<posted, left, data, holding, retried, claimed, merged, failures>>
  BY DEF Visit, items
<1>3. HoldingOK'
  <2>1. holding[k] = {}
    BY <1>1 DEF Free, Running, HoldingOK
  <2> QED
    BY <1>1, <1>2, <2>1 DEF TypeOK, HoldingOK
<1>4. older' \in [Slots -> SUBSET Slots]
  BY <1>1 DEF TypeOK, InUse
<1>5. built' \in [Slots -> BOOLEAN] /\ age' \in [Slots -> 0..RSS_MAX_PROCESSING_DURATION]
  BY <1>1, FeedAssumption DEF TypeOK, FeedAssumption
<1>6. given' \in [Slots -> BOOLEAN]
  <2>1. (Candidates # {} /\ built[Latest]) \in BOOLEAN
    BY LatestIs DEF TypeOK, Candidates
  <2> QED
    BY <1>1, <2>1 DEF TypeOK
<1>7. /\ status' \in [Slots -> {"IN_PROGRESS", "SUCCESSFUL", "UNCHANGED", "FAILED"}]
      /\ step' \in [Slots -> {"check", "merge", "mark", "ended"}]
  BY <1>1 DEF TypeOK
<1> QED
  BY <1>2, <1>3, <1>4, <1>5, <1>6, <1>7 DEF TypeOK

LEMMA TypesChain ==
  ASSUME TypeOK, HoldingOK, NEW k \in Slots, ChainStep(k)
  PROVE  TypeOK' /\ HoldingOK'
<1>1. CASE FeedUnchanged(k)
  BY <1>1 DEF FeedUnchanged, End, TypeOK, HoldingOK, items
<1>2. CASE FeedChanged(k)
  BY <1>2 DEF FeedChanged, TypeOK, HoldingOK, items
<1>3. ASSUME NEW i \in Items, ClaimItem(k, i) PROVE TypeOK' /\ HoldingOK'
  BY <1>3 DEF ClaimItem, TypeOK, HoldingOK, row
<1>4. ASSUME NEW i \in Items, SkipItem(k, i) PROVE TypeOK' /\ HoldingOK'
  BY <1>4 DEF SkipItem, TypeOK, HoldingOK, row, items
<1>5. CASE CommitItem(k)
  <2>1. holding[k] \subseteq claimed
    BY <1>5 DEF HoldingOK
  <2>2. merged' \in SUBSET claimed'
    BY <1>5, <2>1 DEF CommitItem, TypeOK
  <2> QED
    BY <1>5, <2>2 DEF CommitItem, TypeOK, HoldingOK, row
<1>6. CASE EndMerge(k)
  BY <1>6 DEF EndMerge, TypeOK, HoldingOK, row, items
<1>7. CASE MarkSuccessful(k)
  BY <1>7 DEF MarkSuccessful, End, TypeOK, HoldingOK, items
<1> QED
  BY <1>1, <1>2, <1>3, <1>4, <1>5, <1>6, <1>7 DEF ChainStep

LEMMA TypesFault ==
  ASSUME TypeOK, HoldingOK, NEW k \in Slots, ChainFault(k)
  PROVE  TypeOK' /\ HoldingOK'
<1>1. failures' = failures + 1 /\ UNCHANGED <<posted, older, built, age, claimed, merged>>
  BY DEF ChainFault, Expire, CheckFails, RetryMerge, ChainDies, Fail, items, row
<1>2. status' \in [Slots -> {"IN_PROGRESS", "SUCCESSFUL", "UNCHANGED", "FAILED"}]
  BY DEF ChainFault, Expire, CheckFails, RetryMerge, ChainDies, TypeOK, row
<1>3. CASE RetryMerge(k)
  BY <1>1, <1>2, <1>3 DEF RetryMerge, TypeOK, HoldingOK
<1>4. CASE End(k)
  BY <1>1, <1>2, <1>4 DEF End, TypeOK, HoldingOK
<1> QED
  BY <1>3, <1>4 DEF ChainFault, Expire, CheckFails, ChainDies

LEMMA TypesRest ==
  ASSUME TypeOK, HoldingOK, Rebuild \/ Tick \/ UNCHANGED vars
  PROVE  TypeOK' /\ HoldingOK'
<1>1. posted' \in SUBSET Items
  BY DEF TypeOK, Rebuild, Tick, vars
<1>2. UNCHANGED <<older, status, step, data, left, holding, retried, claimed, merged, failures>>
  BY DEF Rebuild, Tick, vars, row, chain, items
<1>3. built' \in [Slots -> BOOLEAN] /\ given' \in [Slots -> BOOLEAN]
  BY DEF TypeOK, Rebuild, Tick, vars, row, chain
<1>4. age' \in [Slots -> 0..RSS_MAX_PROCESSING_DURATION]
  BY FeedAssumption DEF TypeOK, Rebuild, Tick, vars, row, FeedAssumption
<1> QED
  BY <1>1, <1>2, <1>3, <1>4 DEF TypeOK, HoldingOK

----------------------------------------------------------------------------
(* What is lost.                                                           *)

LEMMA HeldIs ==
  ASSUME TypeOK, NEW i
  PROVE  i \in Held <=> \E k \in Slots : i \in holding[k]
BY DEF Held

LEMMA HeldNext ==
  ASSUME TypeOK', NEW i
  PROVE  i \in Held' <=> \E k \in Slots : i \in holding'[k]
BY DEF Held

LEMMA LostIsFinite ==
  /\ TypeOK => IsFiniteSet(Lost) /\ Cardinality(Lost) \in Nat
  /\ TypeOK' => IsFiniteSet(Lost') /\ Cardinality(Lost') \in Nat
<1>1. TypeOK => Lost \subseteq Items
  BY DEF TypeOK, Lost
<1>2. TypeOK' => Lost' \subseteq Items
  BY DEF TypeOK, Lost
<1> QED
  BY <1>1, <1>2, FS_Subset, FS_CardinalityType, FeedAssumption DEF FeedAssumption

\* Nothing is lost in a step.
LEMMA NoneLost ==
  ASSUME TypeOK, TypeOK', OneItemPerFailure, Lost' \subseteq Lost, failures' = failures
  PROVE  OneItemPerFailure'
<1>1. Cardinality(Lost') <= Cardinality(Lost)
  BY LostIsFinite, FS_Subset
<1>2. Cardinality(Lost) <= failures
  BY DEF OneItemPerFailure, Lost
<1>3. Cardinality(Lost') <= failures'
  BY <1>1, <1>2, LostIsFinite DEF TypeOK
<1> QED
  BY <1>3 DEF OneItemPerFailure, Lost

LEMMA LostVisit ==
  ASSUME TypeOK, TypeOK', OneItemPerFailure, Visit \/ Rebuild \/ Tick \/ UNCHANGED vars
  PROVE  OneItemPerFailure'
<1>1. UNCHANGED <<holding, claimed, merged, failures>>
  BY DEF Visit, Rebuild, Tick, vars, chain, items
<1> QED
  BY <1>1 DEF OneItemPerFailure, Held

LEMMA LostChain ==
  ASSUME TypeOK, TypeOK', HoldingOK, OneItemPerFailure, NEW k \in Slots, ChainStep(k)
  PROVE  OneItemPerFailure'
<1> USE HeldIs, HeldNext
<1>1. CASE FeedUnchanged(k) \/ MarkSuccessful(k)
  <2>1. holding[k] = {}
    BY <1>1 DEF FeedUnchanged, MarkSuccessful, HoldingOK
  <2>2. /\ \A l \in Slots : holding'[l] = holding[l]
        /\ UNCHANGED <<claimed, merged, failures>>
    <3>1. holding \in [Slots -> SUBSET Items]
      BY DEF TypeOK
    <3> QED
      BY <1>1, <2>1, <3>1 DEF FeedUnchanged, MarkSuccessful, End, items
  <2>3. Lost' \subseteq Lost
    BY <2>2 DEF Lost
  <2> QED
    BY <2>2, <2>3, NoneLost
<1>2. CASE FeedChanged(k) \/ EndMerge(k) \/ \E i \in Items : SkipItem(k, i)
  <2>1. UNCHANGED <<holding, claimed, merged, failures>>
    BY <1>2 DEF FeedChanged, EndMerge, SkipItem, items
  <2> QED
    BY <2>1 DEF OneItemPerFailure, Held
<1>3. ASSUME NEW i \in Items, ClaimItem(k, i) PROVE OneItemPerFailure'
  <2>1. /\ claimed' = claimed \cup {i} /\ merged' = merged /\ failures' = failures
        /\ holding'[k] = {i} /\ \A l \in Slots : holding[l] \subseteq holding'[l]
    BY <1>3 DEF ClaimItem, TypeOK
  <2>2. Lost' \subseteq Lost
    BY <2>1 DEF Lost
  <2> QED
    BY <2>1, <2>2, NoneLost
<1>4. CASE CommitItem(k)
  <2>1. /\ claimed' = claimed /\ merged' = merged \cup holding[k] /\ failures' = failures
        /\ \A l \in Slots : l # k => holding'[l] = holding[l]
    BY <1>4 DEF CommitItem, TypeOK
  <2>2. Lost' \subseteq Lost
    BY <2>1 DEF Lost
  <2> QED
    BY <2>1, <2>2, NoneLost
<1> QED
  BY <1>1, <1>2, <1>3, <1>4 DEF ChainStep

\* The item that a chain holds is lost with it.
LEMMA LostFault ==
  ASSUME TypeOK, TypeOK', HoldingOK, OneItemPerFailure, NEW k \in Slots, ChainFault(k)
  PROVE  OneItemPerFailure'
<1>0. IsFiniteSet(Lost) /\ Cardinality(Lost) \in Nat
  BY LostIsFinite
<1>1. /\ claimed' = claimed /\ merged' = merged /\ failures' = failures + 1
      /\ \A l \in Slots : l # k => holding'[l] = holding[l]
  BY DEF ChainFault, Expire, CheckFails, RetryMerge, ChainDies, End, Fail, TypeOK, items
<1>2. PICK x : holding[k] \subseteq {x}
  BY DEF HoldingOK
<1>3. Lost' \subseteq Lost \cup {x}
  BY <1>1, <1>2, HeldIs, HeldNext DEF Lost
<1>4. IsFiniteSet(Lost \cup {x}) /\ Cardinality(Lost \cup {x}) <= Cardinality(Lost) + 1
  <2>1. IsFiniteSet(Lost \cup {x})
    BY <1>0, FS_AddElement, Zenon
  <2>2. \/ Cardinality(Lost \cup {x}) = Cardinality(Lost)
        \/ Cardinality(Lost \cup {x}) = Cardinality(Lost) + 1
    BY <1>0, FS_AddElement, Zenon
  <2> QED
    BY <1>0, <2>1, <2>2
<1>5. Cardinality(Lost') <= Cardinality(Lost \cup {x}) /\ Cardinality(Lost \cup {x}) \in Nat
  BY <1>3, <1>4, FS_Subset, FS_CardinalityType
<1>6. Cardinality(Lost) <= failures
  BY DEF OneItemPerFailure, Lost
<1>7. Cardinality(Lost') <= failures + 1
  BY <1>4, <1>5, <1>6, LostIsFinite DEF TypeOK
<1> QED
  BY <1>1, <1>7 DEF OneItemPerFailure, Lost

----------------------------------------------------------------------------
(* The rows.                                                               *)

\* A running chain looks to the daemon like one.
LEMMA RunningCounts ==
  ASSUME RunningOK, NEW k \in Slots, Running(k)
  PROVE  Counted(k) /\ ~Free(k) /\ k \in InUse /\ k \in Candidates
BY DEF RunningOK, Counted, Free, InUse, Candidates

\* A visit starts a chain only when those that run have run long enough, and
\* its row is the latest.
LEMMA RowsVisit ==
  ASSUME TypeOK, RowsOK, Visit
  PROVE  RowsOK'
<1>1. PICK k \in Slots :
         /\ Free(k)
         /\ older' = [j \in Slots |-> IF j = k THEN InUse
                                      ELSE IF Free(j) THEN {} ELSE older[j] \cap InUse]
         /\ status' = [j \in Slots |-> IF j = k THEN "IN_PROGRESS"
                                       ELSE IF Free(j) THEN "FAILED" ELSE status[j]]
         /\ age' = [j \in Slots |-> IF Free(j) THEN 0 ELSE age[j]]
         /\ step' = [step EXCEPT ![k] = "check"]
  BY DEF Visit
<1>2. RunningOK'
  BY <1>1, RunningCounts DEF RowsOK, RunningOK, Running, TypeOK
<1>3. LatestOK'
  <2> SUFFICES ASSUME NEW C \in SUBSET Candidates', C # {}
               PROVE  \E l \in C : C \ {l} \subseteq older'[l]
    BY DEF LatestOK
  <2>1. \A j \in C : j \in Slots /\ (j # k => j \in InUse /\ Counted(j))
    BY <1>1 DEF Candidates, Counted, InUse
  <2>2. CASE k \in C
    BY <1>1, <2>1, <2>2
  <2>3. CASE k \notin C
    <3>1. C \in SUBSET Candidates
      BY <2>1, <2>3 DEF Candidates
    <3>2. PICK l \in C : C \ {l} \subseteq older[l]
      BY <3>1 DEF RowsOK, LatestOK
    <3>3. older'[l] = older[l] \cap InUse
      BY <1>1, <2>1, <2>3 DEF InUse
    <3> QED
      BY <2>1, <2>3, <3>2, <3>3
  <2> QED
    BY <2>2, <2>3
<1>4. ASSUME NEW i \in Slots, Running(i)
      PROVE  age[i] = RSS_MAX_PROCESSING_DURATION
  <2>1. i \in Candidates
    BY <1>4, RunningCounts DEF RowsOK
  <2>2. Latest \in Candidates /\ Candidates \ {Latest} \subseteq older[Latest]
    BY <2>1, LatestIs DEF RowsOK
  <2>3. CASE i = Latest
    <3>1. ~TooSoon(i) /\ status[i] = "IN_PROGRESS"
      BY <1>4, <2>1, <2>3 DEF Visit, RowsOK, RunningOK
    <3> QED
      BY <3>1, FeedAssumption DEF TooSoon, TypeOK, FeedAssumption
  <2>4. CASE i # Latest
    BY <1>4, <2>1, <2>2, <2>4 DEF RowsOK, LateOK, Candidates
  <2> QED
    BY <2>3, <2>4
<1>5. LateOK'
  <2> SUFFICES ASSUME NEW i \in Slots, NEW j \in Slots, i \in older'[j], Running(i)'
               PROVE  age'[i] = RSS_MAX_PROCESSING_DURATION
    BY DEF LateOK
  <2>1. i \in InUse
    BY <1>1
  <2>2. i # k /\ ~Free(i)
    BY <1>1, <2>1 DEF InUse
  <2>3. Running(i)
    BY <1>1, <2>2 DEF Running, TypeOK
  <2> QED
    BY <1>1, <1>4, <2>2, <2>3
<1> QED
  BY <1>2, <1>3, <1>5 DEF RowsOK

\* Any other step stops chains and settles their rows, and makes none of them
\* younger.
LEMMA RowsOther ==
  ASSUME TypeOK, RowsOK, UNCHANGED older,
         \A k \in Slots :
            /\ Running(k)' => Running(k) /\ status'[k] = status[k]
            /\ Counted(k)' => Counted(k)
            /\ age[k] = RSS_MAX_PROCESSING_DURATION => age'[k] = age[k]
  PROVE  RowsOK'
<1>1. RunningOK'
  BY DEF RowsOK, RunningOK
<1>2. LatestOK'
  <2>1. Candidates' \subseteq Candidates
    BY DEF Candidates
  <2> QED
    BY <2>1 DEF RowsOK, LatestOK
<1>3. LateOK'
  BY DEF RowsOK, LateOK
<1> QED
  BY <1>1, <1>2, <1>3 DEF RowsOK

LEMMA RowsChain ==
  ASSUME TypeOK, RowsOK, HoldingOK, NEW k \in Slots, ChainStep(k) \/ ChainFault(k)
  PROVE  RowsOK'
<1>1. /\ older' = older /\ age' = age
      /\ Running(k)
      /\ \A j \in Slots : j # k => step'[j] = step[j] /\ status'[j] = status[j]
      /\ status'[k] = status[k] \/ ~Running(k)'
  <2>1. CASE FeedUnchanged(k) \/ MarkSuccessful(k) \/ CheckFails(k)
    BY <2>1 DEF FeedUnchanged, MarkSuccessful, CheckFails, End, Running, TypeOK
  <2>2. CASE Expire(k) \/ ChainDies(k)
    BY <2>2 DEF Expire, ChainDies, End, Running, TypeOK, row
  <2>3. CASE FeedChanged(k) \/ EndMerge(k)
    BY <2>3 DEF FeedChanged, EndMerge, Running, TypeOK, row
  <2>4. CASE CommitItem(k) \/ RetryMerge(k) \/ \E i \in Items : ClaimItem(k, i) \/ SkipItem(k, i)
    BY <2>4 DEF CommitItem, RetryMerge, ClaimItem, SkipItem, Running, HoldingOK, row
  <2> QED
    BY <2>1, <2>2, <2>3, <2>4 DEF ChainStep, ChainFault
<1>2. Counted(k)
  BY <1>1, RunningCounts DEF RowsOK
<1> QED
  BY <1>1, <1>2, RowsOther DEF Running, Counted

LEMMA RowsRest ==
  ASSUME TypeOK, RowsOK, Rebuild \/ Tick \/ UNCHANGED vars
  PROVE  RowsOK'
<1>1. UNCHANGED <<older, step, status>>
  BY DEF Rebuild, Tick, vars, row, chain
<1>2. \A k \in Slots : age[k] = RSS_MAX_PROCESSING_DURATION => age'[k] = age[k]
  BY FeedAssumption DEF Rebuild, Tick, vars, row, TypeOK, FeedAssumption
<1> QED
  BY <1>1, <1>2, RowsOther DEF Running, Counted

----------------------------------------------------------------------------
(* The invariant and the theorems.                                         *)

LEMMA InitIInv == Init => IInv
<1> SUFFICES ASSUME Init PROVE IInv
  OBVIOUS
<1>1. TypeOK /\ HoldingOK
  BY FeedAssumption DEF Init, TypeOK, HoldingOK, FeedAssumption
<1>2. RowsOK
  BY DEF Init, RowsOK, RunningOK, LatestOK, LateOK, Running, Candidates, Counted
<1>3. (claimed \ merged) \ Held = {}
  BY DEF Init
<1>4. OneItemPerFailure
  BY <1>3, FS_EmptySet DEF Init, OneItemPerFailure
<1> QED
  BY <1>1, <1>2, <1>4 DEF IInv

LEMMA StepIInv == IInv /\ [Next]_vars => IInv'
<1> SUFFICES ASSUME TypeOK, HoldingOK, RowsOK, OneItemPerFailure, [Next]_vars PROVE IInv'
  BY DEF IInv
<1>1. CASE Visit
  BY <1>1, TypesVisit, RowsVisit, LostVisit DEF IInv, RowsOK
<1>2. ASSUME NEW k \in Slots, ChainStep(k) PROVE IInv'
  BY <1>2, TypesChain, RowsChain, LostChain DEF IInv
<1>3. ASSUME NEW k \in Slots, ChainFault(k) PROVE IInv'
  BY <1>3, TypesFault, RowsChain, LostFault DEF IInv
<1>4. CASE Rebuild \/ Tick \/ UNCHANGED vars
  BY <1>4, TypesRest, RowsRest, LostVisit DEF IInv
<1> QED
  BY <1>1, <1>2, <1>3, <1>4 DEF Next

\* Every step keeps the rows, chains and items in their types, and merges only
\* items that were claimed in Redis.
THEOREM TypeCorrect == Spec => []TypeOK
<1>1. IInv => TypeOK
  BY DEF IInv
<1> QED
  BY <1>1, InitIInv, StepIInv, PTL DEF Spec

\* Each task of a chain that fails, or expires, costs the feed one item at most:
\* the one that was claimed in Redis and whose transaction did not commit.
THEOREM FailuresCostOneItem == Spec => []OneItemPerFailure
<1>1. IInv => OneItemPerFailure
  BY DEF IInv
<1> QED
  BY <1>1, InitIInv, StepIInv, PTL DEF Spec

\* scrape_rss.py looks at the latest row alone, and only at rows that did not
\* fail: that is enough for no chain to be started next to one that has been
\* running for less than RSS_MAX_PROCESSING_DURATION, however many have been
\* left behind by failures.
THEOREM NoEarlyOverlap == Spec => []OverlapIsLate
<1>1. IInv => OverlapIsLate
  BY DEF IInv, RowsOK, LateOK, OverlapIsLate
<1> QED
  BY <1>1, InitIInv, StepIInv, PTL DEF Spec
=============================================================================
