------------------------- MODULE PrayAndPay_proofs -------------------------
(***************************************************************************)
(* Proofs about PrayAndPay, for any users, documents, purchases, uploads   *)
(* and bounds.  The inductive invariant relates what each process has read *)
(* of a document to what has happened to it since:                         *)
(*   - KnownOK: who believes a document to be here is right, and a document *)
(*     that has arrived is shown as missing only after a task wrote so;    *)
(*   - RequestOK: a request under way read its document before it arrived, *)
(*     or did not look, or was misled;                                     *)
(*   - SavedOK: an open transaction holds all who wait for its document,   *)
(*     apart from those who will be overtaken;                             *)
(*   - UploadOK: an upload grants after the document is here, and mails    *)
(*     about prayers that are granted, or were deleted through the API     *)
(*     after they were.                                                    *)
(***************************************************************************)
EXTENDS PrayAndPay, TLAPS

KnownOK ==
    /\ \A d \in Docs : available[d] => d \in arrived
    /\ \A d \in arrived : ~available[d] => d \in clobbered
    /\ \A w \in Wishes : knew[w] => Doc(w) \in arrived
    /\ \A a \in Arrivals : copy[a].available => GoesTo[a] \in arrived

RequestOK ==
    \A w \in Wishes :
        ask[w] \in {"looked", "counted"} =>
            w \in early \/ w \in ByApi \/ Doc(w) \in clobbered

SavedOK ==
    \A f \in Fetches :
        at[f] = "saved" =>
            /\ \A g \in Fetches : at[g] = "saved" /\ GoesTo[g] = GoesTo[f] => g = f
            /\ batch[f] \subseteq told
            /\ \A w \in batch[f] : Doc(w) = GoesTo[f] /\ prayer[w] = "WAITING"
            /\ GoesTo[f] \notin arrived =>
                  \A w \in Wishes : Doc(w) = GoesTo[f] /\ prayer[w] = "WAITING" =>
                      w \in batch[f] \/ w \in overtaken \/ w \in ByApi

UploadOK ==
    \A u \in Uploads :
        /\ at[u] = "saved" => GoesTo[u] \in arrived
        /\ at[u] = "mailing" => \A w \in batch[u] : prayer[w] = "GRANTED" \/ w \in revoked

IInv == /\ TypeOK /\ KnownOK /\ RequestOK /\ SavedOK /\ UploadOK
        /\ WaitingIsWarranted /\ TellingIsExact

----------------------------------------------------------------------------
(* What each part depends on.                                              *)

LEMMA DocOf == ASSUME PrayerAssumption, NEW w \in Wishes PROVE Doc(w) \in Docs
BY DEF PrayerAssumption, Doc

LEMMA GoalOf == ASSUME PrayerAssumption, NEW a \in Arrivals PROVE GoesTo[a] \in Docs
BY DEF PrayerAssumption

LEMMA Kinds ==
  ASSUME PrayerAssumption
  PROVE  /\ Fetches \subseteq Arrivals /\ Uploads \subseteq Arrivals
         /\ \A f \in Fetches, u \in Uploads : f # u
BY DEF PrayerAssumption, Arrivals

LEMMA KnownFrame ==
  ASSUME KnownOK, UNCHANGED <<available, knew, copy, arrived, clobbered>>
  PROVE  KnownOK'
BY DEF KnownOK

\* An arrival that forgets what it has read claims nothing.
LEMMA ForgetKeeps ==
  ASSUME TypeOK, NEW a \in Arrivals, Forget(a)
  PROVE  /\ copy' \in [Arrivals -> Copy]
         /\ \A b \in Arrivals : copy'[b].available => copy[b].available
BY DEF TypeOK, Forget, Unread, Copy, Seal

LEMMA KnownForget ==
  ASSUME TypeOK, KnownOK, NEW a \in Arrivals, Forget(a),
         UNCHANGED <<available, knew, arrived, clobbered>>
  PROVE  KnownOK'
BY ForgetKeeps DEF KnownOK

LEMMA RequestFrame ==
  ASSUME RequestOK, UNCHANGED <<ask, early, clobbered>>
  PROVE  RequestOK'
BY DEF RequestOK

LEMMA SavedFrame ==
  ASSUME SavedOK, UNCHANGED <<prayer, at, batch, told, arrived, overtaken>>
  PROVE  SavedOK'
BY DEF SavedOK

LEMMA UploadFrame ==
  ASSUME UploadOK, UNCHANGED <<prayer, at, batch, arrived, revoked>>
  PROVE  UploadOK'
BY DEF UploadOK

LEMMA WarrantedFrame ==
  ASSUME WaitingIsWarranted,
         UNCHANGED <<prayer, arrived, overtaken, clobbered, abandoned, at>>
  PROVE  WaitingIsWarranted'
BY DEF WaitingIsWarranted

LEMMA TellingFrame ==
  ASSUME TellingIsExact, UNCHANGED <<prayer, told, parted, claimed, revoked, at, batch>>
  PROVE  TellingIsExact'
BY DEF TellingIsExact

----------------------------------------------------------------------------
(* Requests.                                                               *)

LEMMA ReadDocumentKeeps ==
  ASSUME PrayerAssumption, IInv, NEW w \in Wishes, ReadDocument(w)
  PROVE  IInv'
<1> USE DEF IInv
<1>1. TypeOK'
  BY DocOf DEF ReadDocument, TypeOK, prayers, documents, checks, arrivals
<1>2. RequestOK'
  BY DocOf DEF ReadDocument, TypeOK, RequestOK, KnownOK
<1> QED
  BY <1>1, <1>2, KnownFrame, SavedFrame, UploadFrame, WarrantedFrame, TellingFrame
  DEF ReadDocument, prayers, documents, checks, arrivals

LEMMA CountPrayersKeeps ==
  ASSUME PrayerAssumption, IInv, NEW w \in Wishes, CountPrayers(w)
  PROVE  IInv'
<1> USE DEF IInv
<1>1. TypeOK'
  <2>1. ask' \in [Wishes -> {"none", "looked", "counted", "created"}]
    BY DEF CountPrayers, Seal, TypeOK
  <2>2. sees' \in [Wishes -> Seal]
    BY DEF CountPrayers, Seal, TypeOK
  <2>3. early' \in SUBSET Wishes
    BY DEF CountPrayers, Seal, TypeOK
  <2> QED
    BY <2>1, <2>2, <2>3
    DEF CountPrayers, Seal, TypeOK, prayers, documents, checks, arrivals,
        bounds
<1>2. RequestOK'
  BY DocOf DEF CountPrayers, TypeOK, RequestOK
<1> QED
  BY <1>1, <1>2, KnownFrame, SavedFrame, UploadFrame, WarrantedFrame, TellingFrame
  DEF CountPrayers, prayers, documents, checks, arrivals, bounds

LEMMA CreatePrayerKeeps ==
  ASSUME PrayerAssumption, IInv, NEW w \in Wishes, CreatePrayer(w)
  PROVE  IInv'
<1> USE DEF IInv
<1>1. TypeOK'
  <2>1. CASE prayer[w] = "none"
    <3>1. prayer' \in [Wishes -> {"none", "WAITING", "GRANTED"}]
      BY <2>1 DEF CreatePrayer, StatusesOf, TypeOK
    <3>2. recent' \in [Wishes -> BOOLEAN]
      BY <2>1 DEF CreatePrayer, TypeOK
    <3>3. \A v \in Wishes : prayer'[v] = "none" => ~recent'[v]
      BY <2>1 DEF CreatePrayer, StatusesOf, TypeOK
    <3>4. ask' \in [Wishes -> {"none", "looked", "counted", "created"}]
      BY <2>1 DEF CreatePrayer, TypeOK
    <3>5. /\ overtaken' \in SUBSET Wishes /\ early' \in SUBSET Wishes
          /\ claimed' \in SUBSET Wishes /\ told' \in SUBSET Wishes
      BY <2>1 DEF CreatePrayer, TypeOK
    <3> QED
      BY <2>1, <3>1, <3>2, <3>3, <3>4, <3>5
      DEF CreatePrayer, TypeOK, documents, checks, arrivals, bounds
  <2>2. CASE prayer[w] # "none"
    <3>1. ask' \in [Wishes -> {"none", "looked", "counted", "created"}]
      BY <2>2 DEF CreatePrayer, TypeOK
    <3>2. sees' \in [Wishes -> Seal] /\ early' \in SUBSET Wishes
      BY <2>2 DEF CreatePrayer, TypeOK, Seal
    <3> QED
      BY <2>2, <3>1, <3>2
      DEF CreatePrayer, TypeOK, prayers, documents, checks, arrivals, bounds
  <2> QED
    BY <2>1, <2>2
<1>2. RequestOK'
  BY DocOf DEF CreatePrayer, TypeOK, RequestOK
<1>3. SavedOK'
  <2>1. CASE prayer[w] # "none"
    BY <2>1, SavedFrame DEF CreatePrayer, prayers, arrivals
  <2>2. CASE prayer[w] = "none"
    <3>1. UNCHANGED <<at, batch, arrived>> /\ told' = told \ {w}
      BY <2>2 DEF CreatePrayer, arrivals
    <3>2. \A v \in Wishes : v # w => prayer'[v] = prayer[v] /\ (v \in overtaken' <=> v \in overtaken)
      BY <2>2 DEF CreatePrayer, TypeOK
    <3>3. \A f \in Fetches : at[f] = "saved" => w \notin batch[f]
      BY <2>2 DEF SavedOK
    <3>4. ASSUME NEW f \in Fetches, at[f] = "saved", GoesTo[f] = Doc(w),
                 Doc(w) \notin arrived
          PROVE  w \in overtaken' \/ w \in ByApi
      <4>1. w \in early \/ w \in ByApi
        BY <3>4 DEF RequestOK, CreatePrayer, TypeOK
      <4>2. ~DocIsFree(Doc(w))
        BY <3>4 DEF DocIsFree, Saving
      <4> QED
        BY <2>2, <4>1, <4>2 DEF CreatePrayer
    <3>5. batch \in [Arrivals -> SUBSET Wishes]
      BY DEF TypeOK
    <3>6. \A f \in Fetches : at[f] = "saved" => batch[f] \subseteq told'
      BY <3>1, <3>3 DEF SavedOK
    <3> QED
      BY <3>1, <3>2, <3>3, <3>4, <3>5, <3>6, Kinds DEF SavedOK
  <2> QED
    BY <2>1, <2>2
<1>4. UploadOK'
  <2>1. UNCHANGED <<at, batch, arrived, revoked>>
    BY DEF CreatePrayer, arrivals
  <2>2. \A v \in Wishes : prayer[v] = "GRANTED" => prayer'[v] = "GRANTED"
    BY DEF CreatePrayer, TypeOK, prayers
  <2>3. batch \in [Arrivals -> SUBSET Wishes]
    BY DEF TypeOK
  <2> QED
    BY <2>1, <2>2, <2>3, Kinds DEF UploadOK
<1>5. WaitingIsWarranted'
  <2>1. CASE prayer[w] # "none"
    BY <2>1, WarrantedFrame DEF CreatePrayer, prayers, arrivals
  <2>2. CASE prayer[w] = "none"
    <3>1. UNCHANGED <<at, arrived, clobbered, abandoned>>
      BY DEF CreatePrayer, arrivals
    <3>2. \A v \in Wishes : v # w => prayer'[v] = prayer[v] /\ (v \in overtaken' <=> v \in overtaken)
      BY <2>2 DEF CreatePrayer, TypeOK
    <3>3. Doc(w) \in arrived => w \in overtaken' \/ w \in ByApi \/ Doc(w) \in clobbered
      BY <2>2 DEF RequestOK, CreatePrayer
    <3> QED
      BY <3>1, <3>2, <3>3 DEF WaitingIsWarranted
  <2> QED
    BY <2>1, <2>2
<1>6. TellingIsExact'
  <2>1. CASE prayer[w] # "none"
    BY <2>1, TellingFrame DEF CreatePrayer, prayers, arrivals
  <2>2. CASE prayer[w] = "none"
    <3>1. UNCHANGED <<at, batch, parted, revoked>> /\ told' = told \ {w}
      BY <2>2 DEF CreatePrayer, arrivals
    <3>2. \A v \in Wishes : v # w => prayer'[v] = prayer[v] /\ (v \in claimed' <=> v \in claimed)
      BY <2>2 DEF CreatePrayer, TypeOK
    <3>3. prayer'[w] = "GRANTED" => w \in claimed'
      BY <2>2 DEF CreatePrayer, TypeOK
    <3> QED
      BY <3>1, <3>2, <3>3 DEF TellingIsExact
  <2> QED
    BY <2>1, <2>2
<1> QED
  BY <1>1, <1>2, <1>3, <1>4, <1>5, <1>6, KnownFrame
  DEF CreatePrayer, prayers, documents, checks, arrivals, bounds

LEMMA CheckAvailabilityKeeps ==
  ASSUME PrayerAssumption, IInv, NEW w \in Wishes, CheckAvailability(w)
  PROVE  IInv'
<1> USE DEF IInv
<1>1. TypeOK'
  <2>1. ask' \in [Wishes -> {"none", "looked", "counted", "created"}]
    BY DocOf DEF CheckAvailability, Seal, TypeOK
  <2>2. sees' \in [Wishes -> Seal]
    BY DocOf DEF CheckAvailability, Seal, TypeOK
  <2>3. denial' \in [Docs -> {"none", "recent", "old"}]
    BY DocOf DEF CheckAvailability, Seal, TypeOK
  <2>4. check' \in [Wishes -> {"none", "queued", "asked", "sealed", "open", "counting"}]
    BY DocOf DEF CheckAvailability, Seal, TypeOK
  <2> QED
    BY <2>1, <2>2, <2>3, <2>4
    DEF CheckAvailability, Seal, TypeOK, prayers, arrivals, past, bounds
<1>2. RequestOK'
  BY DocOf DEF CheckAvailability, TypeOK, RequestOK, past
<1> QED
  BY <1>1, <1>2, KnownFrame, SavedFrame, UploadFrame, WarrantedFrame, TellingFrame
  DEF CheckAvailability, prayers, arrivals, past, bounds

\* A row that goes was in no open transaction, and in the batch of an upload
\* only if it was granted.
LEMMA DeleteRowKeeps ==
  ASSUME PrayerAssumption, IInv, NEW w \in Wishes, DeleteRow(w),
         UNCHANGED <<documents, requests, checks, arrivals, told, arrived, early,
                     clobbered, parted, abandoned>>,
         revoked' \in SUBSET Wishes, revoked \subseteq revoked',
         prayer[w] = "GRANTED" => w \in revoked',
         asked' = asked, faults' = faults
  PROVE  IInv'
<1> USE DEF IInv
<1>0. /\ \A v \in Wishes : v # w => prayer'[v] = prayer[v]
      /\ prayer'[w] = "none" /\ prayer \in [Wishes -> {"none", "WAITING", "GRANTED"}]
      /\ UNCHANGED <<at, batch, told, arrived, clobbered, parted, abandoned>>
      /\ \A v \in Wishes : v # w => (v \in overtaken' <=> v \in overtaken)
      /\ \A v \in Wishes : v # w => (v \in claimed' <=> v \in claimed)
  BY DEF DeleteRow, TypeOK, arrivals
<1>1. TypeOK'
  BY DEF DeleteRow, TypeOK, documents, requests, checks, arrivals
<1>2. SavedOK'
  <2>1. \A f \in Fetches : at[f] = "saved" => w \notin batch[f]
    BY DEF DeleteRow, RowIsFree, Saving, SavedOK
  <2>2. batch \in [Arrivals -> SUBSET Wishes]
    BY DEF TypeOK
  <2> QED
    BY <1>0, <2>1, <2>2, Kinds DEF SavedOK
<1>3. UploadOK'
  <2>1. batch \in [Arrivals -> SUBSET Wishes]
    BY DEF TypeOK
  <2> QED
    BY <1>0, <2>1, Kinds DEF UploadOK
<1>4. WaitingIsWarranted'
  BY <1>0 DEF WaitingIsWarranted
<1>5. TellingIsExact'
  <2>1. \A f \in Fetches : at[f] = "saved" => w \notin batch[f]
    BY DEF DeleteRow, RowIsFree, Saving, SavedOK
  <2>2. w \in told => w \in parted \/ w \in revoked'
    BY <2>1 DEF TellingIsExact
  <2> QED
    BY <1>0, <2>2 DEF TellingIsExact
<1> QED
  BY <1>1, <1>2, <1>3, <1>4, <1>5, KnownFrame, RequestFrame
  DEF documents, requests, checks, arrivals

LEMMA WithdrawKeeps ==
  ASSUME PrayerAssumption, IInv, NEW w \in Wishes, Withdraw(w)
  PROVE  IInv'
<1>1. revoked \in SUBSET Wishes
  BY DEF IInv, TypeOK
<1> QED
  BY <1>1, DeleteRowKeeps DEF Withdraw, past, bounds

LEMMA FindPrayerKeeps ==
  ASSUME PrayerAssumption, IInv, NEW w \in Wishes, FindPrayer(w)
  PROVE  IInv'
<1> USE DEF IInv
<1>1. TypeOK'
  BY DEF FindPrayer, TypeOK, PrayerAssumption, documents, requests, checks, arrivals, past
<1> QED
  BY <1>1, KnownFrame, RequestFrame, SavedFrame, UploadFrame, WarrantedFrame, TellingFrame
  DEF FindPrayer, documents, requests, checks, arrivals, past

LEMMA DestroyPrayerKeeps ==
  ASSUME PrayerAssumption, IInv, NEW w \in Wishes, DestroyPrayer(w)
  PROVE  IInv'
<1>1. revoked \in SUBSET Wishes
  BY DEF IInv, TypeOK
<1>2. revoked' \in SUBSET Wishes /\ revoked \subseteq revoked'
  BY <1>1 DEF DestroyPrayer
<1>3. prayer[w] = "GRANTED" => w \in revoked'
  BY DEF DestroyPrayer
<1> QED
  BY <1>2, <1>3, DeleteRowKeeps DEF DestroyPrayer, bounds

----------------------------------------------------------------------------
(* The task that asks PACER.                                               *)

LEMMA QueryPacerKeeps ==
  ASSUME PrayerAssumption, IInv, NEW w \in Wishes, QueryPacer(w)
  PROVE  IInv'
<1> USE DEF IInv
<1>1. TypeOK'
  BY DocOf
  DEF QueryPacer, TypeOK, prayers, documents, requests, arrivals, past, bounds
<1>2. KnownOK'
  BY DocOf DEF QueryPacer, TypeOK, KnownOK, documents, arrivals, past
<1> QED
  BY <1>1, <1>2, RequestFrame, SavedFrame, UploadFrame, WarrantedFrame, TellingFrame
  DEF QueryPacer, prayers, documents, requests, arrivals, past, bounds

LEMMA FindSealedKeeps ==
  ASSUME PrayerAssumption, IInv, NEW w \in Wishes, FindSealed(w)
  PROVE  IInv'
<1> USE DEF IInv
<1>1. TypeOK'
  <2>1. available' \in [Docs -> BOOLEAN]
    BY DocOf DEF FindSealed, SaveOldCopy, Seal, TypeOK
  <2>2. sealed' \in [Docs -> Seal]
    BY DocOf DEF FindSealed, SaveOldCopy, Seal, TypeOK
  <2>3. check' \in [Wishes -> {"none", "queued", "asked", "sealed", "open", "counting"}]
    BY DocOf DEF FindSealed, SaveOldCopy, Seal, TypeOK
  <2>4. clobbered' \in SUBSET arrived
    BY DocOf DEF FindSealed, SaveOldCopy, Seal, TypeOK
  <2> QED
    BY <2>1, <2>2, <2>3, <2>4
    DEF FindSealed, SaveOldCopy, Seal, TypeOK, prayers, requests, arrivals,
        bounds
<1>2. KnownOK'
  BY DocOf DEF FindSealed, SaveOldCopy, TypeOK, KnownOK, arrivals
<1>3. RequestOK'
  BY DocOf DEF FindSealed, SaveOldCopy, TypeOK, RequestOK, requests
<1>4. WaitingIsWarranted'
  BY DocOf
  DEF FindSealed, SaveOldCopy, TypeOK, WaitingIsWarranted, prayers, arrivals
<1> QED
  BY <1>1, <1>2, <1>3, <1>4, SavedFrame, UploadFrame, TellingFrame
  DEF FindSealed, SaveOldCopy, prayers, requests, arrivals, bounds

LEMMA RecordDenialKeeps ==
  ASSUME PrayerAssumption, IInv, NEW w \in Wishes, RecordDenial(w)
  PROVE  IInv'
<1> USE DEF IInv
<1>1. TypeOK'
  BY DocOf
  DEF RecordDenial, EndCheck, TypeOK, prayers, requests, arrivals, past,
      bounds
<1>2. KnownOK'
  BY DocOf DEF RecordDenial, EndCheck, TypeOK, KnownOK, arrivals, past
<1> QED
  BY <1>1, <1>2, RequestFrame, SavedFrame, UploadFrame, WarrantedFrame, TellingFrame
  DEF RecordDenial, EndCheck, prayers, requests, arrivals, past, bounds

LEMMA FindOpenKeeps ==
  ASSUME PrayerAssumption, IInv, NEW w \in Wishes, FindOpen(w)
  PROVE  IInv'
<1> USE DEF IInv
<1>1. TypeOK'
  <2>1. available' \in [Docs -> BOOLEAN]
    BY DocOf DEF FindOpen, SaveOldCopy, Seal, TypeOK
  <2>2. sealed' \in [Docs -> Seal]
    BY DocOf DEF FindOpen, SaveOldCopy, Seal, TypeOK
  <2>3. check' \in [Wishes -> {"none", "queued", "asked", "sealed", "open", "counting"}]
    BY DocOf DEF FindOpen, SaveOldCopy, Seal, TypeOK
  <2>4. clobbered' \in SUBSET arrived
    BY DocOf DEF FindOpen, SaveOldCopy, Seal, TypeOK
  <2> QED
    BY <2>1, <2>2, <2>3, <2>4
    DEF FindOpen, SaveOldCopy, Seal, TypeOK, prayers, requests, arrivals,
        bounds
<1>2. KnownOK'
  BY DocOf DEF FindOpen, SaveOldCopy, TypeOK, KnownOK, arrivals
<1>3. RequestOK'
  BY DocOf DEF FindOpen, SaveOldCopy, TypeOK, RequestOK, requests
<1>4. WaitingIsWarranted'
  BY DocOf
  DEF FindOpen, SaveOldCopy, TypeOK, WaitingIsWarranted, prayers, arrivals
<1> QED
  BY <1>1, <1>2, <1>3, <1>4, SavedFrame, UploadFrame, TellingFrame
  DEF FindOpen, SaveOldCopy, prayers, requests, arrivals, bounds

LEMMA ClearDenialKeeps ==
  ASSUME PrayerAssumption, IInv, NEW w \in Wishes, ClearDenial(w)
  PROVE  IInv'
<1> USE DEF IInv
<1>1. TypeOK'
  <2>1. sealed' \in [Docs -> Seal]
    BY DocOf DEF ClearDenial, Seal, TypeOK
  <2>2. denial' \in [Docs -> {"none", "recent", "old"}]
    BY DocOf DEF ClearDenial, Seal, TypeOK
  <2>3. check' \in [Wishes -> {"none", "queued", "asked", "sealed", "open", "counting"}]
    BY DocOf DEF ClearDenial, Seal, TypeOK
  <2> QED
    BY <2>1, <2>2, <2>3
    DEF ClearDenial, Seal, TypeOK, prayers, requests, arrivals, past, bounds
<1> QED
  BY <1>1, KnownFrame, RequestFrame, SavedFrame, UploadFrame, WarrantedFrame, TellingFrame
  DEF ClearDenial, prayers, requests, arrivals, past, bounds

LEMMA SavePageCountKeeps ==
  ASSUME PrayerAssumption, IInv, NEW w \in Wishes, SavePageCount(w)
  PROVE  IInv'
<1> USE DEF IInv
<1>1. TypeOK'
  <2>1. available' \in [Docs -> BOOLEAN]
    BY DocOf DEF SavePageCount, SaveOldCopy, EndCheck, Seal, TypeOK
  <2>2. sealed' \in [Docs -> Seal]
    BY DocOf DEF SavePageCount, SaveOldCopy, EndCheck, Seal, TypeOK
  <2>3. check' \in [Wishes -> {"none", "queued", "asked", "sealed", "open", "counting"}]
    BY DocOf DEF SavePageCount, SaveOldCopy, EndCheck, Seal, TypeOK
  <2>4. clobbered' \in SUBSET arrived
    BY DocOf DEF SavePageCount, SaveOldCopy, EndCheck, Seal, TypeOK
  <2>5. knew' \in [Wishes -> BOOLEAN]
    BY DocOf DEF SavePageCount, SaveOldCopy, EndCheck, Seal, TypeOK
  <2> QED
    BY <2>1, <2>2, <2>3, <2>4, <2>5
    DEF SavePageCount, SaveOldCopy, EndCheck, Seal, TypeOK, prayers, requests,
        arrivals, bounds
<1>2. KnownOK'
  <2>1. UNCHANGED <<copy, arrived>>
    BY DEF SavePageCount, arrivals
  <2>2. \A v \in Wishes : knew'[v] => Doc(v) \in arrived
    BY DEF SavePageCount, EndCheck, TypeOK, KnownOK
  <2>3. CASE UNCHANGED <<available, clobbered>>
    BY <2>1, <2>2, <2>3 DEF KnownOK
  <2>4. CASE SaveOldCopy(w)
    <3>1. \A d \in Docs : available'[d] => d \in arrived
      BY <2>4, DocOf DEF SaveOldCopy, TypeOK, KnownOK
    <3>2. \A d \in arrived : ~available'[d] => d \in clobbered'
      BY <2>4, DocOf DEF SaveOldCopy, TypeOK, KnownOK
    <3> QED
      BY <2>1, <2>2, <3>1, <3>2 DEF KnownOK
  <2> QED
    BY <2>3, <2>4 DEF SavePageCount
<1>3. RequestOK'
  BY DocOf
  DEF SavePageCount, SaveOldCopy, EndCheck, TypeOK, RequestOK, requests
<1>4. WaitingIsWarranted'
  BY DocOf
  DEF SavePageCount, SaveOldCopy, EndCheck, TypeOK, WaitingIsWarranted,
      prayers, arrivals
<1> QED
  BY <1>1, <1>2, <1>3, <1>4, SavedFrame, UploadFrame, TellingFrame
  DEF SavePageCount, SaveOldCopy, EndCheck, prayers, requests, arrivals, bounds

----------------------------------------------------------------------------
(* Fetches.                                                                *)

LEMMA BeginFetchKeeps ==
  ASSUME PrayerAssumption, IInv, NEW f \in Fetches, BeginFetch(f)
  PROVE  IInv'
<1> USE DEF IInv
<1>1. TypeOK'
  BY GoalOf, Kinds
  DEF BeginFetch, TypeOK, prayers, documents, requests, checks, past, bounds
<1>2. SavedOK'
  BY GoalOf, Kinds DEF BeginFetch, TypeOK, SavedOK, prayers, past
<1>3. UploadOK'
  BY GoalOf, Kinds DEF BeginFetch, TypeOK, UploadOK, prayers, past
<1>4. WaitingIsWarranted'
  BY GoalOf, Kinds DEF BeginFetch, TypeOK, WaitingIsWarranted, prayers, past
<1>5. TellingIsExact'
  BY GoalOf, Kinds DEF BeginFetch, TypeOK, TellingIsExact, prayers, past
<1> QED
  BY <1>1, <1>2, <1>3, <1>4, <1>5, KnownFrame, RequestFrame
  DEF BeginFetch, prayers, documents, requests, checks, past, bounds

LEMMA DownloadKeeps ==
  ASSUME PrayerAssumption, IInv, NEW f \in Fetches, Download(f)
  PROVE  IInv'
<1> USE DEF IInv
<1>1. TypeOK'
  BY GoalOf, Kinds
  DEF Download, CopyOf, Copy, TypeOK, prayers, documents, requests, checks,
      past, bounds
<1>2. KnownOK'
  BY GoalOf, Kinds
  DEF Download, CopyOf, Copy, TypeOK, KnownOK, documents, checks, past
<1>3. SavedOK'
  BY GoalOf, Kinds DEF Download, CopyOf, Copy, TypeOK, SavedOK, prayers, past
<1>4. UploadOK'
  BY GoalOf, Kinds DEF Download, CopyOf, Copy, TypeOK, UploadOK, prayers, past
<1>5. WaitingIsWarranted'
  BY GoalOf, Kinds
  DEF Download, CopyOf, Copy, TypeOK, WaitingIsWarranted, prayers, past
<1>6. TellingIsExact'
  BY GoalOf, Kinds
  DEF Download, CopyOf, Copy, TypeOK, TellingIsExact, prayers, past
<1> QED
  BY <1>1, <1>2, <1>3, <1>4, <1>5, <1>6, RequestFrame
  DEF Download, CopyOf, Copy, prayers, documents, requests, checks, past, bounds

LEMMA DownloadFailsKeeps ==
  ASSUME PrayerAssumption, IInv, NEW f \in Fetches, DownloadFails(f)
  PROVE  IInv'
<1> USE DEF IInv
<1>1. TypeOK'
  BY GoalOf, Kinds
  DEF DownloadFails, TypeOK, prayers, documents, requests, checks, past,
      bounds
<1>2. SavedOK'
  BY GoalOf, Kinds DEF DownloadFails, TypeOK, SavedOK, prayers, past
<1>3. UploadOK'
  BY GoalOf, Kinds DEF DownloadFails, TypeOK, UploadOK, prayers, past
<1>4. WaitingIsWarranted'
  BY GoalOf, Kinds
  DEF DownloadFails, TypeOK, WaitingIsWarranted, prayers, past
<1>5. TellingIsExact'
  BY GoalOf, Kinds DEF DownloadFails, TypeOK, TellingIsExact, prayers, past
<1> QED
  BY <1>1, <1>2, <1>3, <1>4, <1>5, KnownFrame, RequestFrame
  DEF DownloadFails, prayers, documents, requests, checks, past, bounds

LEMMA SaveFetchedKeeps ==
  ASSUME PrayerAssumption, IInv, NEW f \in Fetches, SaveFetched(f)
  PROVE  IInv'
<1> USE DEF IInv
<1>1. TypeOK'
  BY GoalOf, Kinds
  DEF SaveFetched, Waiting, Granted, WishesFor, TypeOK, prayers, documents,
      requests, checks, past, bounds
<1>2. SavedOK'
  <2> DEFINE d == GoesTo[f]
  <2>1. UNCHANGED <<prayer, arrived, overtaken>> /\ told \subseteq told'
    BY DEF SaveFetched, prayers, past
  <2>2. \A g \in Fetches : g # f => at'[g] = at[g] /\ batch'[g] = batch[g]
    BY Kinds DEF SaveFetched, TypeOK
  <2>3. at[f] = "read" /\ \A g \in Fetches : at[g] = "saved" => GoesTo[g] # d
    BY DEF SaveFetched, DocIsFree, Saving
  <2>4. batch'[f] = IF copy[f].available THEN {} ELSE Waiting(d)
    BY Kinds DEF SaveFetched, TypeOK
  <2>5. batch'[f] \subseteq told'
    BY <2>4 DEF SaveFetched
  <2>6. \A w \in batch'[f] : Doc(w) = d /\ prayer[w] = "WAITING"
    BY <2>4 DEF Waiting, WishesFor
  <2>7. ASSUME d \notin arrived, NEW w \in Wishes, Doc(w) = d, prayer[w] = "WAITING"
        PROVE  w \in batch'[f]
    BY <2>4, <2>7, Kinds DEF KnownOK, Waiting, WishesFor
  <2> HIDE DEF d
  <2> QED
    BY <2>1, <2>2, <2>3, <2>5, <2>6, <2>7 DEF SavedOK, d
<1>3. UploadOK'
  BY GoalOf, Kinds
  DEF SaveFetched, Waiting, Granted, WishesFor, TypeOK, UploadOK, prayers,
      past
<1>4. WaitingIsWarranted'
  BY GoalOf, Kinds
  DEF SaveFetched, Waiting, Granted, WishesFor, TypeOK, WaitingIsWarranted,
      prayers, past
<1>5. TellingIsExact'
  BY GoalOf, Kinds
  DEF SaveFetched, Waiting, Granted, WishesFor, TypeOK, TellingIsExact,
      prayers, past
<1> QED
  BY <1>1, <1>2, <1>3, <1>4, <1>5, KnownFrame, RequestFrame
  DEF SaveFetched, Waiting, Granted, WishesFor, prayers, documents, requests, checks, past, bounds

LEMMA CommitFetchKeeps ==
  ASSUME PrayerAssumption, IInv, NEW f \in Fetches, CommitFetch(f)
  PROVE  IInv'
<1> USE DEF IInv
<1>1. TypeOK'
  <2>1. prayer' \in [Wishes -> {"none", "WAITING", "GRANTED"}]
    BY GoalOf, Kinds DEF CommitFetch, TypeOK
  <2>2. \A w \in Wishes : prayer'[w] = "none" => ~recent'[w]
    BY GoalOf, Kinds DEF CommitFetch, TypeOK
  <2>3. available' \in [Docs -> BOOLEAN]
    BY GoalOf, Kinds DEF CommitFetch, TypeOK
  <2>4. sealed' \in [Docs -> Seal]
    BY GoalOf, Kinds DEF CommitFetch, TypeOK, Seal, Copy
  <2>5. denial' \in [Docs -> {"none", "recent", "old"}]
    BY GoalOf, Kinds DEF CommitFetch, TypeOK
  <2>6. at' \in [Arrivals -> {"new", "begun", "read", "saved", "mailing", "done"}]
    BY GoalOf, Kinds DEF CommitFetch, TypeOK
  <2>7. batch' \in [Arrivals -> SUBSET Wishes]
    BY GoalOf, Kinds DEF CommitFetch, TypeOK
  <2>8. clears' \in [Fetches -> BOOLEAN]
    BY GoalOf, Kinds DEF CommitFetch, TypeOK
  <2>9. arrived' \in SUBSET Docs /\ arrived \subseteq arrived'
    BY GoalOf, Kinds DEF CommitFetch, TypeOK
  <2> QED
    BY <2>1, <2>2, <2>3, <2>4, <2>5, <2>6, <2>7, <2>8, <2>9, ForgetKeeps, Kinds
    DEF CommitFetch, TypeOK, requests, checks, bounds
<1>2. KnownOK'
  BY GoalOf, Kinds, ForgetKeeps DEF CommitFetch, TypeOK, KnownOK, checks
<1>3. SavedOK'
  BY GoalOf, Kinds DEF CommitFetch, TypeOK, SavedOK
<1>4. UploadOK'
  BY GoalOf, Kinds DEF CommitFetch, TypeOK, UploadOK
<1>5. WaitingIsWarranted'
  <2> DEFINE d == GoesTo[f]
  <2>1. UNCHANGED <<overtaken, clobbered, abandoned>> /\ arrived' = arrived \cup {d}
    BY DEF CommitFetch
  <2>2. \A u \in Uploads : at'[u] = at[u]
    BY Kinds DEF CommitFetch, TypeOK
  <2>3. \A w \in Wishes : prayer'[w] = "WAITING" => prayer[w] = "WAITING" /\ w \notin batch[f]
    BY DEF CommitFetch
  <2>4. d \notin arrived =>
          \A w \in Wishes : Doc(w) = d /\ prayer[w] = "WAITING" =>
              w \in batch[f] \/ w \in overtaken \/ w \in ByApi
    BY DEF CommitFetch, SavedOK
  <2> HIDE DEF d
  <2> QED
    BY <2>1, <2>2, <2>3, <2>4 DEF WaitingIsWarranted
<1>6. TellingIsExact'
  <2>1. UNCHANGED <<told, parted, claimed, revoked>> /\ at[f] = "saved"
    BY DEF CommitFetch
  <2>2. \A a \in Arrivals : a # f => at'[a] = at[a] /\ batch'[a] = batch[a]
    BY DEF CommitFetch, TypeOK
  <2>3. \A w \in Wishes : prayer[w] = "GRANTED" => prayer'[w] = "GRANTED"
    BY DEF CommitFetch
  <2>4. \A w \in Wishes : prayer'[w] = "GRANTED" => prayer[w] = "GRANTED" \/ w \in batch[f]
    BY DEF CommitFetch
  <2>5. batch[f] \subseteq told
    BY <2>1 DEF SavedOK
  <2>6. \A w \in Wishes : w \in batch[f] => prayer'[w] = "GRANTED"
    BY DEF CommitFetch
  <2>7. ASSUME NEW w \in Wishes \ parted, w \in told
        PROVE  \/ prayer'[w] = "GRANTED" \/ w \in revoked
               \/ \E g \in Fetches : at'[g] = "saved" /\ w \in batch'[g]
    BY <2>2, <2>3, <2>6, <2>7, Kinds DEF TellingIsExact
  <2>8. ASSUME NEW w \in Wishes \ parted, prayer'[w] = "GRANTED"
        PROVE  \/ w \in told \/ w \in claimed
               \/ \E u \in Uploads : at'[u] = "mailing" /\ w \in batch'[u]
    BY <2>2, <2>4, <2>5, <2>8, Kinds DEF TellingIsExact
  <2> QED
    BY <2>1, <2>7, <2>8 DEF TellingIsExact
<1> QED
  BY <1>1, <1>2, <1>3, <1>4, <1>5, <1>6, RequestFrame
  DEF CommitFetch, requests, checks, bounds

----------------------------------------------------------------------------
(* Uploads.                                                                *)

LEMMA ReadUploadKeeps ==
  ASSUME PrayerAssumption, IInv, NEW u \in Uploads, ReadUpload(u)
  PROVE  IInv'
<1> USE DEF IInv
<1>1. TypeOK'
  BY GoalOf, Kinds
  DEF ReadUpload, CopyOf, Copy, TypeOK, prayers, documents, requests, checks,
      past, bounds
<1>2. KnownOK'
  BY GoalOf, Kinds
  DEF ReadUpload, CopyOf, Copy, TypeOK, KnownOK, documents, checks, past
<1>3. SavedOK'
  BY GoalOf, Kinds
  DEF ReadUpload, CopyOf, Copy, TypeOK, SavedOK, prayers, past
<1>4. UploadOK'
  BY GoalOf, Kinds
  DEF ReadUpload, CopyOf, Copy, TypeOK, UploadOK, prayers, past
<1>5. WaitingIsWarranted'
  BY GoalOf, Kinds
  DEF ReadUpload, CopyOf, Copy, TypeOK, WaitingIsWarranted, prayers, past
<1>6. TellingIsExact'
  BY GoalOf, Kinds
  DEF ReadUpload, CopyOf, Copy, TypeOK, TellingIsExact, prayers, past
<1> QED
  BY <1>1, <1>2, <1>3, <1>4, <1>5, <1>6, RequestFrame
  DEF ReadUpload, CopyOf, Copy, prayers, documents, requests, checks, past, bounds

LEMMA SaveUploadKeeps ==
  ASSUME PrayerAssumption, IInv, NEW u \in Uploads, SaveUpload(u)
  PROVE  IInv'
<1> USE DEF IInv
<1>1. TypeOK'
  <2>1. available' \in [Docs -> BOOLEAN]
    BY GoalOf, Kinds DEF SaveUpload, TypeOK
  <2>2. sealed' \in [Docs -> Seal]
    BY GoalOf, Kinds DEF SaveUpload, TypeOK, Seal, Copy
  <2>3. at' \in [Arrivals -> {"new", "begun", "read", "saved", "mailing", "done"}]
    BY GoalOf, Kinds DEF SaveUpload, TypeOK
  <2>4. arrived' \in SUBSET Docs /\ arrived \subseteq arrived'
    BY GoalOf, Kinds DEF SaveUpload, TypeOK
  <2> QED
    BY <2>1, <2>2, <2>3, <2>4, ForgetKeeps, Kinds
    DEF SaveUpload, TypeOK, prayers, requests, checks, bounds
<1>2. KnownOK'
  BY GoalOf, Kinds, ForgetKeeps DEF SaveUpload, TypeOK, KnownOK, checks
<1>3. SavedOK'
  BY GoalOf, Kinds DEF SaveUpload, TypeOK, SavedOK, prayers
<1>4. UploadOK'
  BY GoalOf, Kinds DEF SaveUpload, TypeOK, UploadOK, prayers
<1>5. WaitingIsWarranted'
  <2> DEFINE d == GoesTo[u]
  <2>1. UNCHANGED <<prayer, overtaken, clobbered, abandoned>> /\ arrived' = arrived \cup {d}
    BY DEF SaveUpload, prayers
  <2>2. \A v \in Uploads : at[v] = "saved" => at'[v] = "saved"
    BY Kinds DEF SaveUpload, TypeOK
  <2>3. d \in arrived \/ at'[u] = "saved"
    BY Kinds DEF SaveUpload, TypeOK, KnownOK
  <2> QED
    BY <2>1, <2>2, <2>3 DEF WaitingIsWarranted
<1>6. TellingIsExact'
  BY GoalOf, Kinds DEF SaveUpload, TypeOK, TellingIsExact, prayers
<1> QED
  BY <1>1, <1>2, <1>3, <1>4, <1>5, <1>6, RequestFrame
  DEF SaveUpload, prayers, requests, checks, bounds

LEMMA GrantPrayersKeeps ==
  ASSUME PrayerAssumption, IInv, NEW u \in Uploads, GrantPrayers(u)
  PROVE  IInv'
<1> USE DEF IInv
<1>1. TypeOK'
  <2> DEFINE d == GoesTo[u]
  <2>1. CASE Waiting(d) = {}
    <3>1. at' \in [Arrivals -> {"new", "begun", "read", "saved", "mailing", "done"}]
      BY <2>1 DEF GrantPrayers, TypeOK
    <3> QED
      BY <2>1, <3>1 DEF GrantPrayers, TypeOK, requests, checks, past, bounds
  <2>2. CASE Waiting(d) # {}
    <3>1. at' \in [Arrivals -> {"new", "begun", "read", "saved", "mailing", "done"}]
      BY <2>2 DEF GrantPrayers, TypeOK
    <3>2. prayer' \in [Wishes -> {"none", "WAITING", "GRANTED"}]
      BY <2>2 DEF GrantPrayers, TypeOK
    <3>3. \A w \in Wishes : prayer'[w] = "none" => prayer[w] = "none"
      BY <2>2 DEF GrantPrayers, TypeOK
    <3>4. batch' \in [Arrivals -> SUBSET Wishes]
      <4>1. Waiting(d) \cup Granted(d) \in SUBSET Wishes
        BY DEF Waiting, Granted, WishesFor
      <4>2. batch' = [batch EXCEPT ![u] = Waiting(d) \cup Granted(d)]
        BY <2>2 DEF GrantPrayers
      <4> HIDE DEF d
      <4> QED
        BY <4>1, <4>2 DEF TypeOK
    <3>5. denial' \in [Docs -> {"none", "recent", "old"}]
      BY <2>2 DEF GrantPrayers, TypeOK
    <3>6. sealed' \in [Docs -> Seal]
      BY <2>2 DEF GrantPrayers, TypeOK, Seal
    <3> QED
      BY <2>2, <3>1, <3>2, <3>3, <3>4, <3>5, <3>6
      DEF GrantPrayers, TypeOK, requests, checks, past, bounds
  <2> QED
    BY <2>1, <2>2
<1>2. SavedOK'
  <2> DEFINE d == GoesTo[u]
  <2>1. UNCHANGED <<told, arrived, overtaken>>
    BY DEF GrantPrayers, past
  <2>2. \A f \in Fetches : at'[f] = at[f] /\ batch'[f] = batch[f]
    BY Kinds DEF GrantPrayers, TypeOK
  <2>3. \A w \in Wishes : prayer'[w] = "WAITING" => prayer[w] = "WAITING"
    BY DEF GrantPrayers
  <2>4. \A w \in Wishes : Doc(w) # d => prayer'[w] = prayer[w]
    BY DEF GrantPrayers, Waiting, WishesFor, TypeOK
  <2>5. \A f \in Fetches : at[f] = "saved" /\ GoesTo[f] = d => batch[f] = {}
    BY DEF GrantPrayers, RowsAreFree, Saving
  <2>6. batch \in [Arrivals -> SUBSET Wishes]
    BY DEF TypeOK
  <2> HIDE DEF d
  <2>7. ASSUME NEW f \in Fetches, at[f] = "saved", NEW w \in batch[f]
        PROVE  Doc(w) = GoesTo[f] /\ prayer'[w] = "WAITING"
    BY <2>4, <2>5, <2>6, <2>7, Kinds DEF SavedOK
  <2> QED
    BY <2>1, <2>2, <2>3, <2>7 DEF SavedOK
<1>3. UploadOK'
  BY GoalOf, Kinds
  DEF GrantPrayers, Waiting, Granted, WishesFor, TypeOK, UploadOK, past
<1>4. WaitingIsWarranted'
  BY GoalOf, Kinds
  DEF GrantPrayers, Waiting, Granted, WishesFor, TypeOK, WaitingIsWarranted,
      past
<1>5. TellingIsExact'
  <2> DEFINE d == GoesTo[u]
  <2>1. UNCHANGED <<told, parted, claimed, revoked>> /\ at[u] = "saved"
    BY DEF GrantPrayers, past
  <2>2. \A a \in Arrivals : a # u => at'[a] = at[a] /\ batch'[a] = batch[a]
    BY DEF GrantPrayers, TypeOK
  <2>3. \A w \in Wishes : prayer[w] = "GRANTED" => prayer'[w] = "GRANTED"
    BY DEF GrantPrayers
  <2>4. ASSUME NEW w \in Wishes, prayer'[w] = "GRANTED", prayer[w] # "GRANTED"
        PROVE  at'[u] = "mailing" /\ w \in batch'[u]
    BY <2>4, Kinds DEF GrantPrayers, TypeOK
  <2>5. ASSUME NEW w \in Wishes \ parted, w \in told
        PROVE  \/ prayer'[w] = "GRANTED" \/ w \in revoked
               \/ \E f \in Fetches : at'[f] = "saved" /\ w \in batch'[f]
    BY <2>2, <2>3, <2>5, Kinds DEF TellingIsExact
  <2>6. ASSUME NEW w \in Wishes \ parted, prayer'[w] = "GRANTED"
        PROVE  \/ w \in told \/ w \in claimed
               \/ \E v \in Uploads : at'[v] = "mailing" /\ w \in batch'[v]
    <3>1. CASE prayer[w] = "GRANTED"
      BY <2>1, <2>2, <2>6, <3>1, Kinds DEF TellingIsExact
    <3>2. CASE prayer[w] # "GRANTED"
      BY <2>4, <2>6, <3>2
    <3> QED
      BY <3>1, <3>2
  <2> QED
    BY <2>1, <2>5, <2>6 DEF TellingIsExact
<1> QED
  BY <1>1, <1>2, <1>3, <1>4, <1>5, KnownFrame, RequestFrame
  DEF GrantPrayers, Waiting, Granted, WishesFor, requests, checks, past, bounds

LEMMA SendPrayerEmailsKeeps ==
  ASSUME PrayerAssumption, IInv, NEW u \in Uploads, SendPrayerEmails(u)
  PROVE  IInv'
<1> USE DEF IInv
<1>1. TypeOK'
  BY GoalOf, Kinds
  DEF SendPrayerEmails, TypeOK, prayers, documents, requests, checks, past,
      bounds
<1>2. SavedOK'
  BY GoalOf, Kinds DEF SendPrayerEmails, TypeOK, SavedOK, prayers, past
<1>3. UploadOK'
  BY GoalOf, Kinds DEF SendPrayerEmails, TypeOK, UploadOK, prayers, past
<1>4. WaitingIsWarranted'
  BY GoalOf, Kinds
  DEF SendPrayerEmails, TypeOK, WaitingIsWarranted, prayers, past
<1>5. TellingIsExact'
  <2>1. UNCHANGED <<prayer, parted, claimed, revoked>> /\ told' = told \cup batch[u]
    BY DEF SendPrayerEmails, prayers, past
  <2>2. \A a \in Arrivals : a # u => at'[a] = at[a] /\ batch'[a] = batch[a]
    BY DEF SendPrayerEmails, TypeOK
  <2>3. \A w \in batch[u] : prayer[w] = "GRANTED" \/ w \in revoked
    BY DEF SendPrayerEmails, UploadOK
  <2>4. ASSUME NEW w \in Wishes \ parted, w \in told'
        PROVE  \/ prayer[w] = "GRANTED" \/ w \in revoked
               \/ \E f \in Fetches : at'[f] = "saved" /\ w \in batch'[f]
    BY <2>1, <2>2, <2>3, <2>4, Kinds DEF TellingIsExact
  <2>5. ASSUME NEW w \in Wishes \ parted, prayer[w] = "GRANTED"
        PROVE  \/ w \in told' \/ w \in claimed
               \/ \E v \in Uploads : at'[v] = "mailing" /\ w \in batch'[v]
    BY <2>1, <2>2, <2>5, Kinds DEF TellingIsExact
  <2> QED
    BY <2>1, <2>4, <2>5 DEF TellingIsExact
<1> QED
  BY <1>1, <1>2, <1>3, <1>4, <1>5, KnownFrame, RequestFrame
  DEF SendPrayerEmails, prayers, documents, requests, checks, past, bounds

----------------------------------------------------------------------------
(* Faults and the clock.                                                   *)

LEMMA RetryCheckKeeps ==
  ASSUME PrayerAssumption, IInv, NEW w \in Wishes, RetryCheck(w)
  PROVE  IInv'
<1> USE DEF IInv
<1>1. TypeOK'
  BY DocOf
  DEF RetryCheck, Fault, TypeOK, prayers, documents, requests, arrivals, past
<1> QED
  BY <1>1, KnownFrame, RequestFrame, SavedFrame, UploadFrame, WarrantedFrame, TellingFrame
  DEF RetryCheck, Fault, prayers, documents, requests, arrivals, past

LEMMA CheckDiesKeeps ==
  ASSUME PrayerAssumption, IInv, NEW w \in Wishes, CheckDies(w)
  PROVE  IInv'
<1> USE DEF IInv
<1>1. TypeOK'
  BY DocOf
  DEF CheckDies, Fault, EndCheck, TypeOK, prayers, documents, requests,
      arrivals, past
<1>2. KnownOK'
  BY DocOf
  DEF CheckDies, Fault, EndCheck, TypeOK, KnownOK, documents, arrivals, past
<1> QED
  BY <1>1, <1>2, RequestFrame, SavedFrame, UploadFrame, WarrantedFrame, TellingFrame
  DEF CheckDies, Fault, EndCheck, prayers, documents, requests, arrivals, past

LEMMA RetryFetchKeeps ==
  ASSUME PrayerAssumption, IInv, NEW f \in Fetches, RetryFetch(f)
  PROVE  IInv'
<1> USE DEF IInv
<1>1. TypeOK'
  BY GoalOf, Kinds
  DEF RetryFetch, Fault, TypeOK, prayers, documents, requests, checks, past
<1>2. SavedOK'
  BY GoalOf, Kinds DEF RetryFetch, Fault, TypeOK, SavedOK, prayers, past
<1>3. UploadOK'
  BY GoalOf, Kinds DEF RetryFetch, Fault, TypeOK, UploadOK, prayers, past
<1>4. WaitingIsWarranted'
  BY GoalOf, Kinds
  DEF RetryFetch, Fault, TypeOK, WaitingIsWarranted, prayers, past
<1>5. TellingIsExact'
  BY GoalOf, Kinds
  DEF RetryFetch, Fault, TypeOK, TellingIsExact, prayers, past
<1> QED
  BY <1>1, <1>2, <1>3, <1>4, <1>5, KnownFrame, RequestFrame
  DEF RetryFetch, Fault, prayers, documents, requests, checks, past

LEMMA RollBackKeeps ==
  ASSUME PrayerAssumption, IInv, NEW f \in Fetches, RollBack(f)
  PROVE  IInv'
<1> USE DEF IInv
<1>1. TypeOK'
  BY GoalOf, Kinds, ForgetKeeps
  DEF RollBack, Fault, TypeOK, prayers, documents, requests, checks
<1>2. SavedOK'
  BY GoalOf, Kinds DEF RollBack, Fault, TypeOK, SavedOK, prayers
<1>3. UploadOK'
  BY GoalOf, Kinds DEF RollBack, Fault, TypeOK, UploadOK, prayers
<1>4. WaitingIsWarranted'
  BY GoalOf, Kinds DEF RollBack, Fault, TypeOK, WaitingIsWarranted, prayers
<1>5. TellingIsExact'
  BY GoalOf, Kinds DEF RollBack, Fault, TypeOK, TellingIsExact, prayers
<1> QED
  BY <1>1, <1>2, <1>3, <1>4, <1>5, Kinds, KnownForget, RequestFrame
  DEF RollBack, Fault, prayers, documents, requests, checks

LEMMA UploadDiesKeeps ==
  ASSUME PrayerAssumption, IInv, NEW u \in Uploads, UploadDies(u)
  PROVE  IInv'
<1> USE DEF IInv
<1>1. TypeOK'
  BY GoalOf, Kinds, ForgetKeeps
  DEF UploadDies, Fault, TypeOK, UploadOK, prayers, documents, requests,
      checks
<1>2. SavedOK'
  BY GoalOf, Kinds DEF UploadDies, Fault, TypeOK, SavedOK, prayers
<1>3. UploadOK'
  BY GoalOf, Kinds DEF UploadDies, Fault, TypeOK, UploadOK, prayers
<1>4. WaitingIsWarranted'
  BY GoalOf, Kinds DEF UploadDies, Fault, TypeOK, WaitingIsWarranted, prayers
<1>5. TellingIsExact'
  BY GoalOf, Kinds DEF UploadDies, Fault, TypeOK, TellingIsExact, prayers
<1> QED
  BY <1>1, <1>2, <1>3, <1>4, <1>5, Kinds, KnownForget, RequestFrame
  DEF UploadDies, Fault, prayers, documents, requests, checks

LEMMA DayPassesKeeps ==
  ASSUME PrayerAssumption, IInv, NEW w \in Wishes, DayPasses(w)
  PROVE  IInv'
<1> USE DEF IInv
<1>1. TypeOK'
  BY DocOf
  DEF DayPasses, TypeOK, documents, requests, checks, arrivals, past, bounds
<1> QED
  BY <1>1, KnownFrame, RequestFrame, SavedFrame, UploadFrame, WarrantedFrame, TellingFrame
  DEF DayPasses, documents, requests, checks, arrivals, past, bounds

LEMMA WeekPassesKeeps ==
  ASSUME PrayerAssumption, IInv, NEW d \in Docs, WeekPasses(d)
  PROVE  IInv'
<1> USE DEF IInv
<1>1. TypeOK'
  BY DEF WeekPasses, TypeOK, prayers, requests, checks, arrivals, past, bounds
<1> QED
  BY <1>1, KnownFrame, RequestFrame, SavedFrame, UploadFrame, WarrantedFrame, TellingFrame
  DEF WeekPasses, prayers, requests, checks, arrivals, past, bounds

----------------------------------------------------------------------------
(* The invariant and the theorems.                                         *)

LEMMA InitIInv == ASSUME PrayerAssumption, Init PROVE IInv
<1>1. TypeOK
  BY DEF Init, TypeOK, Copy, Seal, Unread
<1>2. KnownOK /\ RequestOK /\ SavedOK /\ UploadOK
  BY DEF Init, KnownOK, RequestOK, SavedOK, UploadOK, Copy, Unread, Arrivals
<1>3. WaitingIsWarranted /\ TellingIsExact
  BY DEF Init, WaitingIsWarranted, TellingIsExact
<1> QED
  BY <1>1, <1>2, <1>3 DEF IInv

LEMMA StepIInv == ASSUME PrayerAssumption, IInv, [Next]_vars PROVE IInv'
<1>1. CASE UNCHANGED vars
  <2>1. TypeOK'
    BY <1>1 DEF IInv, TypeOK, vars, prayers, documents, requests, checks, arrivals, past, bounds
  <2> QED
    BY <1>1, <2>1, KnownFrame, RequestFrame, SavedFrame, UploadFrame,
       WarrantedFrame, TellingFrame
    DEF IInv, vars, prayers, documents, requests, checks, arrivals, past, bounds
<1>2. ASSUME NEW w \in Wishes,
             \/ ReadDocument(w) \/ RequestStep(w) \/ CheckStep(w)
             \/ Withdraw(w) \/ FindPrayer(w) \/ DestroyPrayer(w)
             \/ RetryCheck(w) \/ CheckDies(w) \/ DayPasses(w)
      PROVE  IInv'
  BY <1>2, ReadDocumentKeeps, CountPrayersKeeps, CreatePrayerKeeps,
     CheckAvailabilityKeeps, WithdrawKeeps, FindPrayerKeeps,
     DestroyPrayerKeeps, QueryPacerKeeps,
     FindSealedKeeps, RecordDenialKeeps, FindOpenKeeps,
     ClearDenialKeeps, SavePageCountKeeps, RetryCheckKeeps,
     CheckDiesKeeps, DayPassesKeeps
  DEF RequestStep, CheckStep
<1>3. ASSUME NEW f \in Fetches, FetchStep(f) \/ RetryFetch(f) \/ RollBack(f)
      PROVE  IInv'
  BY <1>3, BeginFetchKeeps, DownloadKeeps, DownloadFailsKeeps,
     SaveFetchedKeeps, CommitFetchKeeps, RetryFetchKeeps, RollBackKeeps
  DEF FetchStep
<1>4. ASSUME NEW u \in Uploads, UploadStep(u) \/ UploadDies(u)
      PROVE  IInv'
  BY <1>4, ReadUploadKeeps, SaveUploadKeeps, GrantPrayersKeeps,
     SendPrayerEmailsKeeps, UploadDiesKeeps
  DEF UploadStep
<1>5. ASSUME NEW d \in Docs, WeekPasses(d) PROVE IInv'
  BY <1>5, WeekPassesKeeps
<1> QED
  BY <1>1, <1>2, <1>3, <1>4, <1>5 DEF Next

THEOREM Invariance == Spec => []IInv
<1>1. Init => IInv
  BY InitIInv, PrayerAssumption
<1>2. IInv /\ [Next]_vars => IInv'
  BY StepIInv, PrayerAssumption
<1> QED
  BY <1>1, <1>2, PTL DEF Spec

\* Every variable keeps its type: in particular what is marked as missing, or
\* abandoned by an upload, has arrived.
THEOREM TypeCorrect == Spec => []TypeOK
<1>1. IInv => TypeOK
  BY DEF IInv
<1> QED
  BY <1>1, Invariance, PTL

\* For any users, documents, purchases and uploads: nobody waits for a document
\* that is here, but for requests that were overtaken, were made through the
\* API, were shown a document as missing, or were left by an upload.
THEOREM WaitingIsAlwaysWarranted == Spec => []WaitingIsWarranted
<1>1. IInv => WaitingIsWarranted
  BY DEF IInv
<1> QED
  BY <1>1, Invariance, PTL

\* For any users, documents, purchases and uploads: who is told that a document
\* is here has a granted prayer, and who has a granted prayer is told, unless the
\* API deleted the prayer after it was granted, or created it as granted, or a
\* transaction was rolled back or an upload died between the two.
THEOREM TellingIsAlwaysExact == Spec => []TellingIsExact
<1>1. IInv => TellingIsExact
  BY DEF IInv
<1> QED
  BY <1>1, Invariance, PTL
=============================================================================
