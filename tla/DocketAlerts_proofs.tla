------------------------ MODULE DocketAlerts_proofs ------------------------
(***************************************************************************)
(* Proofs about DocketAlerts, for any sources, contents and numbers of     *)
(* faults.                                                                 *)
(*                                                                         *)
(* SourcesOK, OrdersOK and EmailsOK say what a source may still do once it *)
(* has asked for a docket, which is what CoverageIsKept needs: that no     *)
(* source asks again for a docket whose entries its alert has read.        *)
(* AlertsOK counts the alerts of a docket together with the sources that   *)
(* are between their look at its semaphore and their setting it.           *)
(***************************************************************************)
EXTENDS DocketAlerts, FiniteSetTheorems, TLAPS

\* What a source has open it has still to ask for.
SourcesOK ==
    \A s \in Sources :
        /\ at[s] = "new" =>
               news[s] = {} /\ open[s] = {} /\ \A d \in Dockets : alert[<<s, d>>] = "none"
        /\ open[s] # {} => looking[s] = NoDocket /\ s \notin Uploads /\ at[s] = "merging"
        /\ \A e \in open[s] : DocketOf[e] \in news[s] /\ e \notin old[s]
        /\ looking[s] # NoDocket /\ s \in Emails => at[s] = "asking"
        /\ looking[s] # NoDocket /\ s \in Uploads => todo[s] = {}

\* An alert is queued when its source is through with the docket.
OrdersOK ==
    \A s \in Sources, d \in Dockets :
        alert[<<s, d>>] \in {"queued", "read"} =>
            /\ d \notin news[s]
            /\ s \notin Emails => todo[s] = {}
            /\ s \in Feeds => news[s] = {} /\ open[s] = {}
            /\ s \in Emails => Content[s] \subseteq entries

\* No entry of a notification is lost on the way.
EmailsOK ==
    \A m \in Emails :
        /\ todo[m] \subseteq Content[m]
        /\ at[m] \in {"new", "merging"} => Content[m] \subseteq todo[m] \cup open[m] \cup entries
        /\ at[m] = "asking" => Content[m] \subseteq entries

Under(d) == {s \in Sources : alert[<<s, d>>] \in Underway}

Extra == expiries + races

\* A semaphore that is up allows one alert, and one more for each source that
\* found it down before.
AlertsOK(d) ==
    IF d \in semaphores
      THEN Cardinality(Under(d)) + Cardinality(Lookers(d)) <= 1 + Extra
      ELSE Cardinality(Under(d)) <= Extra

IInv == TypeOK /\ SourcesOK /\ OrdersOK /\ EmailsOK /\ \A d \in Dockets : AlertsOK(d)

----------------------------------------------------------------------------
(* Types.                                                                  *)

LEMMA SourcesAreSources ==
  /\ Feeds \subseteq Sources /\ Uploads \subseteq Sources /\ Emails \subseteq Sources
  /\ \A s \in Sources : s \in Feeds \/ s \in Uploads \/ s \in Emails
  /\ \A s \in Feeds : s \notin Uploads /\ s \notin Emails
  /\ \A s \in Uploads : s \notin Emails
BY SourcesAssumption DEF Sources, SourcesAssumption

LEMMA CreatedAreEntries ==
  ASSUME TypeOK
  PROVE  Created \in SUBSET Entries
BY DEF TypeOK, Created

LEMMA ForgetTypes ==
  ASSUME TypeOK, NEW s \in Sources, Forget(s)
  PROVE  /\ alert' \in [Orders -> Phase]
         /\ \A o \in Orders : alert'[o] = alert[o] \/ alert'[o] = "none"
BY DEF TypeOK, Forget, Phase

LEMMA TypeSource ==
  ASSUME TypeOK, NEW s \in Sources, SourceStep(s)
  PROVE TypeOK'
<1> USE SourcesAssumption, SourcesAreSources DEF SourcesAssumption
<1>1. CASE Start(s)
  BY <1>1, CreatedAreEntries DEF Start, TypeOK, alerts, faults
<1>2. ASSUME NEW e \in Entries, Merge(s, e) PROVE TypeOK'
  <2>1. DocketOf[e] \in Dockets
    OBVIOUS
  <2> QED
    BY <1>2, <2>1 DEF Merge, TypeOK, alerts, faults
<1>3. CASE CommitItem(s)
  BY <1>3 DEF CommitItem, TypeOK, alerts, faults
<1>4. CASE CommitEmail(s)
  <2>1. alert' \in [Orders -> Phase]
    BY <1>4 DEF CommitEmail, TypeOK, Phase
  <2> QED
    BY <1>4, <2>1 DEF CommitEmail, TypeOK, faults
<1>5. ASSUME NEW d \in Dockets, FindUp(s, d) PROVE TypeOK'
  BY <1>5 DEF FindUp, MayAsk, TypeOK, alerts, faults
<1>6. ASSUME NEW d \in Dockets, FindDown(s, d) PROVE TypeOK'
  BY <1>6 DEF FindDown, MayAsk, TypeOK, alerts, faults
<1>7. CASE Take(s)
  <2>1. looking[s] \in Dockets /\ <<s, looking[s]>> \in Orders
    BY <1>7 DEF Take, TypeOK, Orders
  <2>2. Cardinality(Lookers(looking[s]) \ {s}) \in Nat
    <3>1. Lookers(looking[s]) \ {s} \subseteq Sources
      BY DEF Lookers
    <3> QED
      BY <3>1, FS_Subset, FS_CardinalityType
  <2>3. alert' \in [Orders -> Phase]
    BY <1>7, <2>1 DEF Take, TypeOK, Phase
  <2> QED
    BY <1>7, <2>1, <2>2, <2>3 DEF Take, TypeOK, faults
<1>8. CASE HandOver(s)
  <2>1. alert' \in [Orders -> Phase]
    BY <1>8 DEF HandOver, TypeOK, Phase
  <2> QED
    BY <1>8, <2>1 DEF HandOver, TypeOK, merge, faults
<1> QED
  BY <1>1, <1>2, <1>3, <1>4, <1>5, <1>6, <1>7, <1>8 DEF SourceStep

LEMMA TypeAlert ==
  ASSUME TypeOK, NEW s \in Sources, NEW d \in Dockets, AlertStep(s, d)
  PROVE TypeOK'
<1>0. <<s, d>> \in Orders
  BY DEF Orders
<1>1. CASE ReadEntries(s, d)
  BY <1>0, <1>1 DEF ReadEntries, TypeOK, Phase, merge, faults
<1>2. CASE SendMail(s, d)
  BY <1>0, <1>2 DEF SendMail, TypeOK, Phase, merge, faults
<1>3. CASE MailUserOnly(s, d)
  BY <1>0, <1>3 DEF MailUserOnly, TypeOK, Phase, merge, faults
<1> QED
  BY <1>1, <1>2, <1>3 DEF AlertStep

LEMMA TypeFault ==
  ASSUME TypeOK, Fault
  PROVE TypeOK'
<1> USE SourcesAssumption, SourcesAreSources DEF SourcesAssumption, Fail
<1>1. ASSUME NEW s \in Sources, NEW E \in SUBSET Entries, Restart(s, E), Forget(s),
             UNCHANGED <<entries, semaphores, seen, mailed, told, races, expiries>>,
             failures' = failures + 1,
             retried' \in [Sources -> BOOLEAN],
             at' \in [Sources -> {"new", "merging", "asking", "dead"}]
      PROVE TypeOK'
  <2>1. /\ todo' \in [Sources -> SUBSET Entries] /\ open' \in [Sources -> SUBSET Entries]
        /\ old' \in [Sources -> SUBSET Entries] /\ news' \in [Sources -> SUBSET Dockets]
        /\ looking' \in [Sources -> Dockets \cup {NoDocket}]
        /\ \A t \in Sources : looking'[t] \in news'[t] \cup {NoDocket}
    BY <1>1, CreatedAreEntries DEF Restart, TypeOK
  <2> QED
    BY <1>1, <2>1, ForgetTypes DEF TypeOK
<1>2. ASSUME NEW f \in Feeds, NEW e \in Entries, FeedRetries(f, e) PROVE TypeOK'
  BY <1>1, <1>2 DEF FeedRetries, TypeOK
<1>3. ASSUME NEW m \in Emails, EmailRetries(m) PROVE TypeOK'
  BY <1>1, <1>3 DEF EmailRetries, TypeOK
<1>4. ASSUME NEW s \in Sources, SourceDies(s) PROVE TypeOK'
  BY <1>1, <1>4 DEF SourceDies, TypeOK
<1>5. ASSUME NEW s \in Sources, NEW d \in Dockets, AlertRaises(s, d) PROVE TypeOK'
  <2>1. <<s, d>> \in Orders
    BY DEF Orders
  <2>2. alert' \in [Orders -> Phase]
    BY <1>5 DEF AlertRaises, TypeOK, Phase
  <2>3. seen[<<s, d>>] \in SUBSET Entries
    BY <2>1 DEF TypeOK
  <2>4. seen' \in [Orders -> SUBSET Entries]
    BY <1>5, <2>1 DEF AlertRaises, TypeOK
  <2>5. mailed' \in SUBSET Entries
    BY <1>5, <2>3 DEF AlertRaises, TypeOK
  <2>6. failures' \in Nat
    BY <1>5 DEF AlertRaises, TypeOK
  <2> QED
    BY <1>5, <2>2, <2>4, <2>5, <2>6 DEF AlertRaises, TypeOK, merge
<1>6. ASSUME NEW d \in Dockets, SemaphoreExpiresEarly(d) PROVE TypeOK'
  BY <1>6 DEF SemaphoreExpiresEarly, TypeOK, merge, alerts
<1> QED
  BY <1>2, <1>3, <1>4, <1>5, <1>6 DEF Fault

LEMMA TypeStep ==
  ASSUME TypeOK, [Next]_vars
  PROVE TypeOK'
<1>1. ASSUME NEW d \in Dockets, SemaphoreExpires(d) PROVE TypeOK'
  BY <1>1 DEF SemaphoreExpires, TypeOK, merge, alerts, faults
<1>2. CASE UNCHANGED vars
  BY <1>2 DEF vars, TypeOK, merge, alerts, faults
<1> QED
  BY <1>1, <1>2, TypeSource, TypeAlert, TypeFault DEF Next

----------------------------------------------------------------------------
(* Counting alerts.                                                        *)

LEMMA CountsAreFinite ==
  ASSUME NEW d
  PROVE  /\ IsFiniteSet(Under(d)) /\ IsFiniteSet(Lookers(d))
         /\ IsFiniteSet(Under(d)') /\ IsFiniteSet(Lookers(d)')
         /\ Cardinality(Under(d)) \in Nat /\ Cardinality(Lookers(d)) \in Nat
         /\ Cardinality(Under(d)') \in Nat /\ Cardinality(Lookers(d)') \in Nat
<1>1. /\ Under(d) \subseteq Sources /\ Lookers(d) \subseteq Sources
      /\ Under(d)' \subseteq Sources /\ Lookers(d)' \subseteq Sources
  BY DEF Under, Lookers
<1> QED
  BY <1>1, SourcesAssumption, FS_Subset, FS_CardinalityType DEF SourcesAssumption

LEMMA ExtraGrows ==
  ASSUME TypeOK
  PROVE  /\ Extra \in Nat
         /\ UNCHANGED <<expiries, races>> => Extra' = Extra
         /\ \A n \in Nat :
               \/ UNCHANGED expiries /\ races' = races + n
               \/ UNCHANGED races /\ expiries' = expiries + n
               => Extra' = Extra + n
BY DEF TypeOK, Extra

\* A step that starts no alert about d and makes no source look at its
\* semaphore while it is up.
LEMMA CountFrame ==
  ASSUME TypeOK, NEW d \in Dockets, AlertsOK(d),
         Under(d)' \subseteq Under(d),
         d \in semaphores' <=> d \in semaphores,
         d \in semaphores => Lookers(d)' \subseteq Lookers(d),
         NEW n \in Nat, Extra' = Extra + n
  PROVE AlertsOK(d)'
<1>1. Cardinality(Under(d)') <= Cardinality(Under(d))
  BY CountsAreFinite, FS_Subset
<1>2. d \in semaphores => Cardinality(Lookers(d)') <= Cardinality(Lookers(d))
  BY CountsAreFinite, FS_Subset
<1>3. Extra \in Nat
  BY ExtraGrows
<1>4. CASE d \in semaphores
  <2>1. Cardinality(Under(d)') + Cardinality(Lookers(d)') <= 1 + Extra'
    BY <1>1, <1>2, <1>3, <1>4, CountsAreFinite DEF AlertsOK
  <2> QED
    BY <1>4, <2>1 DEF AlertsOK
<1>5. CASE d \notin semaphores
  <2>1. Cardinality(Under(d)') <= Extra'
    BY <1>1, <1>3, <1>5, CountsAreFinite DEF AlertsOK
  <2> QED
    BY <1>5, <2>1 DEF AlertsOK
<1> QED
  BY <1>4, <1>5

\* The key is set: one alert more, for one that looked less.
LEMMA CountTake ==
  ASSUME TypeOK, NEW d \in Dockets, AlertsOK(d), NEW s \in Sources, Take(s)
  PROVE AlertsOK(d)'
<1> DEFINE k == looking[s]
           n == Cardinality(Lookers(k) \ {s})
<1>0. Extra \in Nat /\ k \in Dockets /\ <<s, k>> \in Orders /\ UNCHANGED expiries
  BY ExtraGrows DEF TypeOK, Take, Orders, faults
<1>1. n \in Nat
  BY CountsAreFinite, FS_Subset, FS_CardinalityType
<1>2. \A t \in Sources : looking'[t] = IF t = s THEN NoDocket ELSE looking[t]
  BY DEF Take, TypeOK
<1>3. \A t \in Sources, c \in Dockets :
          <<t, c>> # <<s, k>> => alert'[<<t, c>>] = alert[<<t, c>>]
  BY DEF Take, TypeOK, Orders
<1>4. Extra' = IF k \in semaphores THEN Extra ELSE Extra + n
  <2>1. races' = IF k \in semaphores THEN races ELSE races + n
    BY DEF Take, IsUp
  <2> HIDE DEF k, n
  <2> QED
    BY <1>0, <1>1, <2>1, ExtraGrows
<1>5. CASE d # k
  <2>1. Under(d)' \subseteq Under(d) /\ Lookers(d)' \subseteq Lookers(d)
    BY <1>2, <1>3, <1>5, SourcesAssumption DEF Under, Lookers, SourcesAssumption
  <2>2. d \in semaphores' <=> d \in semaphores
    BY <1>5 DEF Take
  <2>3. PICK i \in Nat : Extra' = Extra + i
    BY <1>0, <1>1, <1>4
  <2> QED
    BY <2>1, <2>2, <2>3, CountFrame
<1>6. CASE d = k
  <2>1. Under(d)' \subseteq Under(d) \cup {s}
    BY <1>3, <1>6 DEF Under
  <2>2. Cardinality(Under(d)') <= Cardinality(Under(d)) + 1
    <3>1. IsFiniteSet(Under(d) \cup {s})
      BY CountsAreFinite, FS_AddElement
    <3>2. Cardinality(Under(d) \cup {s}) =
              IF s \in Under(d) THEN Cardinality(Under(d)) ELSE Cardinality(Under(d)) + 1
      BY CountsAreFinite, FS_AddElement
    <3>3. Cardinality(Under(d)') <= Cardinality(Under(d) \cup {s})
      BY <2>1, <3>1, FS_Subset
    <3> QED
      BY <3>2, <3>3, CountsAreFinite
  <2>3. Lookers(d)' = Lookers(d) \ {s} /\ s \in Lookers(d)
    BY <1>2, <1>6, SourcesAssumption DEF Lookers, SourcesAssumption
  <2>4. Cardinality(Lookers(d)') = Cardinality(Lookers(d)) - 1
    BY <2>3, CountsAreFinite, FS_RemoveElement
  <2>5. d \in semaphores'
    BY <1>6 DEF Take
  <2>6. CASE d \in semaphores
    <3>1. Cardinality(Under(d)') + Cardinality(Lookers(d)') <= 1 + Extra
      BY <1>0, <2>2, <2>4, <2>6, CountsAreFinite DEF AlertsOK
    <3> QED
      BY <1>4, <1>6, <2>5, <2>6, <3>1 DEF AlertsOK
  <2>7. CASE d \notin semaphores
    <3>1. Extra' = Extra + Cardinality(Lookers(d)')
      BY <1>4, <1>6, <2>3, <2>7
    <3>2. Cardinality(Under(d)') + Cardinality(Lookers(d)') <= 1 + Extra'
      BY <1>0, <2>2, <2>7, <3>1, CountsAreFinite DEF AlertsOK
    <3> QED
      BY <2>5, <3>2 DEF AlertsOK
  <2> QED
    BY <2>6, <2>7
<1> QED
  BY <1>5, <1>6

\* The semaphore comes down: with an alert that ends, or without one under way,
\* or counted as an early expiry.
LEMMA CountDown ==
  ASSUME TypeOK, NEW d \in Dockets, AlertsOK(d), NEW c \in Dockets,
         \/ \E s \in Sources : SendMail(s, c)
         \/ SemaphoreExpires(c)
         \/ SemaphoreExpiresEarly(c)
  PROVE AlertsOK(d)'
<1>0. Extra \in Nat /\ semaphores' = semaphores \ {c} /\ looking' = looking
  BY ExtraGrows DEF SendMail, SemaphoreExpires, SemaphoreExpiresEarly, merge
<1>1. Lookers(d)' = Lookers(d)
  BY <1>0 DEF Lookers
<1>2. \A t \in Sources, b \in Dockets :
          alert'[<<t, b>>] = alert[<<t, b>>] \/ alert'[<<t, b>>] = "done"
  BY DEF SendMail, SemaphoreExpires, SemaphoreExpiresEarly, alerts, TypeOK, Orders
<1>3. Under(d)' \subseteq Under(d)
  BY <1>2 DEF Under, Underway
<1>4. Cardinality(Under(d)') <= Cardinality(Under(d))
  BY <1>3, CountsAreFinite, FS_Subset
<1>5. Extra' = Extra \/ (SemaphoreExpiresEarly(c) /\ Extra' = Extra + 1)
  BY ExtraGrows DEF SendMail, SemaphoreExpires, SemaphoreExpiresEarly, faults
<1>6. CASE d # c \/ d \notin semaphores
  <2>1. PICK n \in Nat : Extra' = Extra + n
    BY <1>0, <1>5
  <2>2. d \in semaphores' <=> d \in semaphores
    BY <1>0, <1>6
  <2> QED
    BY <1>1, <1>3, <2>1, <2>2, CountFrame
<1>7. CASE d = c /\ d \in semaphores
  <2>0. Cardinality(Under(d)) <= 1 + Extra
    BY <1>0, <1>7, CountsAreFinite DEF AlertsOK
  <2>1. ASSUME NEW s \in Sources, SendMail(s, c)
        PROVE Cardinality(Under(d)') <= Extra'
    <3>1. s \in Under(d) /\ s \notin Under(d)'
      BY <1>7, <2>1 DEF SendMail, Under, Underway, TypeOK, Orders
    <3>2. /\ Cardinality(Under(d) \ {s}) = Cardinality(Under(d)) - 1
          /\ IsFiniteSet(Under(d) \ {s})
      BY <3>1, CountsAreFinite, FS_RemoveElement
    <3>3. Cardinality(Under(d)') <= Cardinality(Under(d) \ {s})
      BY <1>3, <3>1, <3>2, FS_Subset
    <3>4. Extra' = Extra
      BY <2>1, ExtraGrows DEF SendMail, faults
    <3> QED
      BY <1>0, <2>0, <3>2, <3>3, <3>4, CountsAreFinite
  <2>2. CASE SemaphoreExpires(c)
    <3>1. Under(d)' = {}
      BY <1>3, <1>7, <2>2 DEF SemaphoreExpires, IsUnderway, Under
    <3>2. Cardinality(Under(d)') = 0
      BY <3>1, FS_EmptySet
    <3>3. Extra' = Extra
      BY <2>2, ExtraGrows DEF SemaphoreExpires, faults
    <3> QED
      BY <1>0, <1>7, <3>2, <3>3 DEF AlertsOK
  <2>3. CASE SemaphoreExpiresEarly(c)
    <3>1. Extra' = Extra + 1
      BY <2>3, ExtraGrows DEF SemaphoreExpiresEarly
    <3>2. Cardinality(Under(d)') <= Extra'
      BY <1>0, <1>4, <2>0, <3>1, CountsAreFinite
    <3> QED
      BY <1>0, <1>7, <3>2 DEF AlertsOK
  <2> QED
    BY <1>0, <1>7, <2>1, <2>2, <2>3 DEF AlertsOK
<1> QED
  BY <1>6, <1>7

LEMMA CountStep ==
  ASSUME TypeOK, NEW d \in Dockets, AlertsOK(d), [Next]_vars
  PROVE AlertsOK(d)'
<1> DEFINE Fewer == Under(d)' \subseteq Under(d)
           Same  == UNCHANGED <<semaphores, expiries, races>>
           Looks == Lookers(d)' \subseteq Lookers(d)
<1>1. ASSUME Fewer, Same, d \in semaphores => Looks PROVE AlertsOK(d)'
  <2>1. Extra' = Extra + 0
    BY <1>1, ExtraGrows
  <2> QED
    BY <1>1, <2>1, CountFrame
<1>2. ASSUME NEW s \in Sources, SourceStep(s) PROVE AlertsOK(d)'
  <2>1. CASE Take(s)
    BY <2>1, CountTake
  <2>2. CASE Start(s) \/ (\E e \in Entries : Merge(s, e)) \/ CommitItem(s)
             \/ \E c \in Dockets : FindUp(s, c)
    <3>1. UNCHANGED <<alert, looking, semaphores, expiries, races>>
      BY <2>2 DEF Start, Merge, CommitItem, FindUp, alerts, faults
    <3> QED
      BY <1>1, <3>1 DEF Under, Lookers
  <2>3. ASSUME NEW c \in Dockets, FindDown(s, c) PROVE AlertsOK(d)'
    <3>1. UNCHANGED <<alert, semaphores, expiries, races>>
      BY <2>3 DEF FindDown, alerts, faults
    <3>2. d \in semaphores => Looks
      BY <2>3 DEF FindDown, IsUp, Lookers, TypeOK
    <3> QED
      BY <1>1, <3>1, <3>2 DEF Under
  <2>4. CASE CommitEmail(s) \/ HandOver(s)
    <3>1. UNCHANGED <<looking, semaphores, expiries, races>>
      BY <2>4 DEF CommitEmail, HandOver, merge, faults
    <3>2. \A t \in Sources :
              \/ alert'[<<t, d>>] = alert[<<t, d>>] \/ alert'[<<t, d>>] = "private"
              \/ alert'[<<t, d>>] = "queued" /\ alert[<<t, d>>] = "listed"
      BY <2>4 DEF CommitEmail, HandOver, Orders
    <3>3. Fewer
      BY <3>2 DEF Under, Underway
    <3> QED
      BY <1>1, <3>1, <3>3 DEF Lookers
  <2> QED
    BY <1>2, <2>1, <2>2, <2>3, <2>4 DEF SourceStep
<1>3. ASSUME NEW s \in Sources, NEW c \in Dockets, AlertStep(s, c) PROVE AlertsOK(d)'
  <2>1. CASE SendMail(s, c)
    BY <2>1, CountDown
  <2>2. CASE ReadEntries(s, c) \/ MailUserOnly(s, c)
    <3>1. UNCHANGED <<looking, semaphores, expiries, races>>
      BY <2>2 DEF ReadEntries, MailUserOnly, merge, faults
    <3>2. \A t \in Sources :
              \/ alert'[<<t, d>>] = alert[<<t, d>>] \/ alert'[<<t, d>>] = "done"
              \/ alert'[<<t, d>>] = "read" /\ alert[<<t, d>>] = "queued"
      BY <2>2 DEF ReadEntries, MailUserOnly, TypeOK, Orders
    <3>3. Fewer
      BY <3>2 DEF Under, Underway
    <3> QED
      BY <1>1, <3>1, <3>3 DEF Lookers
  <2> QED
    BY <1>3, <2>1, <2>2 DEF AlertStep
<1>4. CASE Fault
  <2>1. ASSUME NEW c \in Dockets, SemaphoreExpiresEarly(c) PROVE AlertsOK(d)'
    BY <2>1, CountDown
  <2>2. ASSUME NEW s \in Sources, NEW E, Restart(s, E), Forget(s), Same PROVE AlertsOK(d)'
    <3>1. Fewer
      BY <2>2 DEF Forget, Under, Underway, Orders
    <3>2. Looks
      BY <2>2, SourcesAssumption DEF Restart, Lookers, TypeOK, SourcesAssumption
    <3> QED
      BY <1>1, <2>2, <3>1, <3>2
  <2>3. ASSUME NEW s \in Sources, NEW c \in Dockets, AlertRaises(s, c) PROVE AlertsOK(d)'
    <3>1. UNCHANGED <<looking, semaphores, expiries, races>>
      BY <2>3 DEF AlertRaises, merge
    <3>2. Fewer
      BY <2>3 DEF AlertRaises, Under, Underway, Orders
    <3> QED
      BY <1>1, <3>1, <3>2 DEF Lookers
  <2> QED
    BY <1>4, <2>1, <2>2, <2>3, SourcesAreSources
       DEF Fault, FeedRetries, EmailRetries, SourceDies
<1>5. ASSUME NEW c \in Dockets, SemaphoreExpires(c) PROVE AlertsOK(d)'
  BY <1>5, CountDown
<1>6. CASE UNCHANGED vars
  BY <1>1, <1>6 DEF vars, merge, alerts, faults, Under, Lookers
<1> QED
  BY <1>2, <1>3, <1>4, <1>5, <1>6 DEF Next

----------------------------------------------------------------------------
(* What a source may still do.                                             *)

StateOK == SourcesOK /\ OrdersOK /\ EmailsOK

\* A step that changes nothing a source stands for.
LEMMA StateFrame ==
  ASSUME StateOK, UNCHANGED <<open, at, todo, old, news, looking>>,
         entries \subseteq entries',
         \A s \in Sources, d \in Dockets :
             \/ alert'[<<s, d>>] = alert[<<s, d>>]
             \/ /\ alert[<<s, d>>] \in {"queued", "read", "private"}
                /\ alert'[<<s, d>>] \in {"read", "done", "dead"}
                /\ alert'[<<s, d>>] = "read" => alert[<<s, d>>] = "queued"
  PROVE StateOK'
<1>1. SourcesOK'
  BY DEF StateOK, SourcesOK
<1>2. OrdersOK'
  BY DEF StateOK, OrdersOK
<1>3. EmailsOK'
  BY DEF StateOK, EmailsOK
<1> QED
  BY <1>1, <1>2, <1>3 DEF StateOK

LEMMA StateStart ==
  ASSUME TypeOK, StateOK, NEW s \in Sources, Start(s)
  PROVE StateOK'
<1>1. /\ at[s] = "new" /\ at' = [at EXCEPT ![s] = "merging"]
      /\ old' = [old EXCEPT ![s] = Created]
      /\ UNCHANGED <<entries, open, todo, news, looking, alert>>
  BY DEF Start, alerts
<1>2. SourcesOK'
  BY <1>1 DEF StateOK, SourcesOK, TypeOK
<1>3. OrdersOK'
  BY <1>1 DEF StateOK, OrdersOK
<1>4. EmailsOK'
  BY <1>1, SourcesAreSources DEF StateOK, EmailsOK, TypeOK
<1> QED
  BY <1>2, <1>3, <1>4 DEF StateOK

LEMMA StateMerge ==
  ASSUME TypeOK, StateOK, NEW s \in Sources, NEW e \in Entries, Merge(s, e)
  PROVE StateOK'
<1> DEFINE d == DocketOf[e]
<1>0. d \in Dockets
  BY SourcesAssumption DEF SourcesAssumption
<1>1. /\ at[s] = "merging" /\ e \in todo[s]
      /\ s \in Feeds => open[s] = {} /\ news[s] = {}
      /\ todo' = [todo EXCEPT ![s] = todo[s] \ {e}]
      /\ UNCHANGED <<at, looking, alert>>
  BY DEF Merge, alerts
<1>2. looking[s] = NoDocket
  BY <1>1, SourcesAreSources DEF StateOK, SourcesOK, TypeOK
<1>3. CASE e \in entries
  <2>1. UNCHANGED <<entries, open, old, news>>
    BY <1>3 DEF Merge
  <2>2. SourcesOK'
    BY <1>1, <2>1 DEF StateOK, SourcesOK, TypeOK
  <2>3. OrdersOK'
    BY <1>1, <2>1 DEF StateOK, OrdersOK, TypeOK
  <2>4. EmailsOK'
    BY <1>1, <1>3, <2>1, SourcesAreSources DEF StateOK, EmailsOK, TypeOK
  <2> QED
    BY <2>2, <2>3, <2>4 DEF StateOK
<1>4. CASE e \notin entries
  <2>1. /\ old' = [t \in Sources |-> old[t] \ {e}]
        /\ news' = [news EXCEPT ![s] = news[s] \cup {d}]
        /\ IF s \in Uploads THEN entries' = entries \cup {e} /\ UNCHANGED open
           ELSE open' = [open EXCEPT ![s] = open[s] \cup {e}] /\ UNCHANGED entries
    BY <1>4 DEF Merge
  <2>2. entries \subseteq entries'
    BY <2>1
  <2>3. SourcesOK'
    <3> HIDE DEF d
    <3>1. ASSUME NEW t \in Sources, t # s
          PROVE  /\ open'[t] = open[t] /\ news'[t] = news[t] /\ todo'[t] = todo[t]
                 /\ old'[t] \subseteq old[t]
      BY <1>1, <2>1, <3>1 DEF TypeOK
    <3>2. /\ open'[s] = open[s] \/ open'[s] = open[s] \cup {e}
          /\ s \in Uploads => open'[s] = open[s]
          /\ news'[s] = news[s] \cup {d} /\ todo'[s] = todo[s] \ {e}
          /\ old'[s] = old[s] \ {e}
      BY <1>1, <2>1 DEF TypeOK
    <3>3. ASSUME NEW t \in Sources, t # s
          PROVE /\ at[t] = "new" =>
                     news'[t] = {} /\ open'[t] = {} /\ \A c \in Dockets : alert[<<t, c>>] = "none"
                /\ open'[t] # {} => looking[t] = NoDocket /\ t \notin Uploads /\ at[t] = "merging"
                /\ \A x \in open'[t] : DocketOf[x] \in news'[t] /\ x \notin old'[t]
                /\ looking[t] # NoDocket /\ t \in Emails => at[t] = "asking"
                /\ looking[t] # NoDocket /\ t \in Uploads => todo'[t] = {}
      BY <3>1, <3>3 DEF StateOK, SourcesOK
    <3>4. \A x \in open'[s] : DocketOf[x] \in news'[s] /\ x \notin old'[s]
      BY <3>2 DEF StateOK, SourcesOK, d
    <3>5. open'[s] # {} => s \notin Uploads
      BY <3>2 DEF StateOK, SourcesOK
    <3> QED
      BY <1>1, <1>2, <3>3, <3>4, <3>5 DEF SourcesOK
  <2>4. OrdersOK'
    <3>1. ASSUME NEW c \in Dockets, alert[<<s, c>>] \in {"queued", "read"} PROVE FALSE
      BY <1>1, <1>4, <3>1, SourcesAreSources DEF StateOK, OrdersOK, EmailsOK
    <3>2. ASSUME NEW t \in Sources, t # s
          PROVE open'[t] = open[t] /\ news'[t] = news[t] /\ todo'[t] = todo[t]
      BY <1>1, <2>1, <3>2 DEF TypeOK
    <3>3. ASSUME NEW t \in Sources, NEW c \in Dockets, alert'[<<t, c>>] \in {"queued", "read"}
          PROVE  /\ c \notin news'[t]
                 /\ t \notin Emails => todo'[t] = {}
                 /\ t \in Feeds => news'[t] = {} /\ open'[t] = {}
                 /\ t \in Emails => Content[t] \subseteq entries'
      BY <1>1, <2>2, <3>1, <3>2, <3>3 DEF StateOK, OrdersOK
    <3> QED
      BY <3>3 DEF OrdersOK
  <2>5. EmailsOK'
    BY <1>1, <2>1, SourcesAreSources DEF StateOK, EmailsOK, TypeOK
  <2> QED
    BY <2>3, <2>4, <2>5 DEF StateOK
<1> QED
  BY <1>3, <1>4

LEMMA StateCommit ==
  ASSUME TypeOK, StateOK, NEW s \in Sources,
         (s \in Feeds /\ CommitItem(s)) \/ (s \in Emails /\ CommitEmail(s))
  PROVE StateOK'
<1>1. CASE s \in Feeds /\ CommitItem(s)
  <2>1. /\ at[s] = "merging" /\ open[s] # {} /\ open' = [open EXCEPT ![s] = {}]
        /\ entries \subseteq entries'
        /\ UNCHANGED <<at, todo, old, news, looking, alert>>
    BY <1>1 DEF CommitItem, alerts
  <2>2. SourcesOK'
    BY <2>1 DEF StateOK, SourcesOK, TypeOK
  <2>3. OrdersOK'
    BY <2>1 DEF StateOK, OrdersOK, TypeOK
  <2>4. \A m \in Emails : open'[m] = open[m]
    BY <1>1, <2>1, SourcesAreSources DEF TypeOK
  <2>5. EmailsOK'
    BY <2>1, <2>4 DEF StateOK, EmailsOK
  <2> QED
    BY <2>2, <2>3, <2>5 DEF StateOK
<1>2. CASE s \in Emails /\ CommitEmail(s)
  <2>1. /\ at[s] = "merging" /\ todo[s] = {} /\ open' = [open EXCEPT ![s] = {}]
        /\ at' = [at EXCEPT ![s] = "asking"]
        /\ entries' = entries \cup open[s]
        /\ UNCHANGED <<todo, old, news, looking>>
    BY <1>2 DEF CommitEmail
  <2>2. \A t \in Sources, d \in Dockets :
            \/ alert'[<<t, d>>] = alert[<<t, d>>]
            \/ t = s /\ alert'[<<t, d>>] = "private"
    BY <1>2 DEF CommitEmail, Orders
  <2>3. SourcesOK'
    BY <2>1, <2>2 DEF StateOK, SourcesOK, TypeOK
  <2>4. OrdersOK'
    BY <1>2, <2>1, <2>2, SourcesAreSources DEF StateOK, OrdersOK, TypeOK
  <2>5. EmailsOK'
    BY <1>2, <2>1, SourcesAreSources DEF StateOK, EmailsOK, TypeOK
  <2> QED
    BY <2>3, <2>4, <2>5 DEF StateOK
<1> QED
  BY <1>1, <1>2

LEMMA StateAsk ==
  ASSUME TypeOK, StateOK, NEW s \in Sources,
         \/ \E d \in Dockets : FindUp(s, d) \/ FindDown(s, d)
         \/ Take(s)
         \/ s \in Feeds /\ HandOver(s)
  PROVE StateOK'
<1> USE SourcesAreSources
<1>1. ASSUME NEW d \in Dockets, FindUp(s, d) PROVE StateOK'
  <2>1. /\ d \in news[s] /\ news' = [news EXCEPT ![s] = news[s] \ {d}]
        /\ at[s] # "new" /\ open[s] = {}
        /\ UNCHANGED <<entries, open, at, todo, old, looking, alert>>
    BY <1>1 DEF FindUp, MayAsk, alerts, StateOK, SourcesOK, EmailsOK
  <2>2. SourcesOK' /\ OrdersOK' /\ EmailsOK'
    BY <2>1 DEF StateOK, SourcesOK, OrdersOK, EmailsOK, TypeOK
  <2> QED
    BY <2>2 DEF StateOK
<1>2. ASSUME NEW d \in Dockets, FindDown(s, d) PROVE StateOK'
  <2>1. /\ d \in news[s] /\ looking' = [looking EXCEPT ![s] = d]
        /\ at[s] # "new" /\ open[s] = {}
        /\ s \in Emails => at[s] = "asking"
        /\ s \in Uploads => todo[s] = {}
        /\ UNCHANGED <<entries, open, at, todo, old, news, alert>>
    BY <1>2 DEF FindDown, MayAsk, alerts, StateOK, SourcesOK, EmailsOK
  <2>2. SourcesOK'
    BY <2>1 DEF StateOK, SourcesOK, TypeOK
  <2>3. OrdersOK' /\ EmailsOK'
    BY <2>1 DEF StateOK, OrdersOK, EmailsOK
  <2> QED
    BY <2>2, <2>3 DEF StateOK
<1>3. CASE Take(s)
  <2> DEFINE d == looking[s]
  <2>1. /\ d \in Dockets /\ d \in news[s] /\ d # NoDocket
        /\ looking' = [looking EXCEPT ![s] = NoDocket]
        /\ news' = [news EXCEPT ![s] = news[s] \ {d}]
        /\ at[s] # "new" /\ open[s] = {}
        /\ s \in Emails => at[s] = "asking"
        /\ s \in Uploads => todo[s] = {}
        /\ UNCHANGED <<entries, open, at, todo, old>>
    BY <1>3 DEF Take, TypeOK, StateOK, SourcesOK
  <2>2. \A t \in Sources, c \in Dockets :
            alert'[<<t, c>>] = IF t = s /\ c = d
                                 THEN (IF s \in Feeds THEN "listed" ELSE "queued")
                                 ELSE alert[<<t, c>>]
    BY <1>3 DEF Take, TypeOK, Orders
  <2> HIDE DEF d
  <2>3. SourcesOK'
    <3>1. ASSUME NEW t \in Sources, t # s
          PROVE  /\ news'[t] = news[t] /\ looking'[t] = looking[t]
                 /\ \A c \in Dockets : alert'[<<t, c>>] = alert[<<t, c>>]
      BY <2>1, <2>2, <3>1 DEF TypeOK
    <3>2. looking'[s] = NoDocket
      BY <2>1 DEF TypeOK
    <3> QED
      BY <2>1, <3>1, <3>2 DEF StateOK, SourcesOK
  <2>4. OrdersOK'
    BY <2>1, <2>2 DEF StateOK, OrdersOK, EmailsOK, TypeOK
  <2>5. EmailsOK'
    BY <2>1 DEF StateOK, EmailsOK
  <2> QED
    BY <2>3, <2>4, <2>5 DEF StateOK
<1>4. CASE s \in Feeds /\ HandOver(s)
  <2>1. /\ todo[s] = {} /\ open[s] = {} /\ news[s] = {}
        /\ UNCHANGED <<entries, open, at, todo, old, news, looking>>
    BY <1>4 DEF HandOver, FeedIsMerged, merge
  <2>2. \A t \in Sources, c \in Dockets :
            \/ alert'[<<t, c>>] = alert[<<t, c>>]
            \/ t = s /\ alert[<<t, c>>] = "listed" /\ alert'[<<t, c>>] = "queued"
    BY <1>4 DEF HandOver, Orders
  <2>3. SourcesOK'
    BY <2>1, <2>2 DEF StateOK, SourcesOK
  <2>4. OrdersOK'
    BY <1>4, <2>1, <2>2 DEF StateOK, OrdersOK
  <2>5. EmailsOK'
    BY <2>1 DEF StateOK, EmailsOK
  <2> QED
    BY <2>3, <2>4, <2>5 DEF StateOK
<1> QED
  BY <1>1, <1>2, <1>3, <1>4

LEMMA StateFault ==
  ASSUME TypeOK, StateOK, Fault
  PROVE StateOK'
<1> USE SourcesAreSources
<1>1. ASSUME NEW s \in Sources, NEW E \in SUBSET Entries, Restart(s, E), Forget(s),
             UNCHANGED entries, NEW b, at' = [at EXCEPT ![s] = b],
             b # "new", s \in Emails => E \subseteq Content[s],
             s \in Emails /\ b = "merging" => E = Content[s], b # "asking",
             s \notin Emails => E = {} \/ \A d \in Dockets : alert[<<s, d>>] \notin {"queued", "read"}
      PROVE StateOK'
  <2>1. ASSUME NEW t \in Sources
        PROVE IF t = s
                THEN /\ todo'[t] = E /\ open'[t] = {} /\ news'[t] = {} /\ looking'[t] = NoDocket
                     /\ at'[t] = b
                ELSE /\ todo'[t] = todo[t] /\ open'[t] = open[t] /\ news'[t] = news[t]
                     /\ looking'[t] = looking[t] /\ at'[t] = at[t] /\ old'[t] = old[t]
    BY <1>1 DEF Restart, TypeOK
  <2>2. \A t \in Sources, d \in Dockets :
            \/ alert'[<<t, d>>] = alert[<<t, d>>]
            \/ t = s /\ alert'[<<t, d>>] = "none"
    BY <1>1 DEF Forget, Orders
  <2>3. SourcesOK'
    BY <1>1, <2>1, <2>2 DEF StateOK, SourcesOK
  <2>4. OrdersOK'
    BY <1>1, <2>1, <2>2 DEF StateOK, OrdersOK
  <2>5. EmailsOK'
    BY <1>1, <2>1 DEF StateOK, EmailsOK
  <2> QED
    BY <2>3, <2>4, <2>5 DEF StateOK
<1>2. ASSUME NEW f \in Feeds, NEW e \in Entries, FeedRetries(f, e) PROVE StateOK'
  <2>1. /\ Restart(f, todo[f] \ {e}) /\ Forget(f) /\ UNCHANGED <<entries, at>>
        /\ at[f] = "merging" /\ e \in todo[f]
    BY <1>2 DEF FeedRetries
  <2>2. at' = [at EXCEPT ![f] = "merging"] /\ todo[f] \ {e} \in SUBSET Entries
    BY <2>1 DEF TypeOK
  <2>3. \A d \in Dockets : alert[<<f, d>>] \notin {"queued", "read"}
    BY <2>1 DEF StateOK, OrdersOK
  <2> QED
    BY <1>1, <2>1, <2>2, <2>3
<1>3. ASSUME NEW m \in Emails, EmailRetries(m) PROVE StateOK'
  <2>1. /\ Restart(m, Content[m]) /\ Forget(m) /\ UNCHANGED entries
        /\ at' = [at EXCEPT ![m] = "merging"]
    BY <1>3 DEF EmailRetries
  <2>2. Content[m] \in SUBSET Entries
    BY SourcesAssumption DEF SourcesAssumption
  <2> QED
    BY <1>1, <2>1, <2>2
<1>4. ASSUME NEW s \in Sources, SourceDies(s) PROVE StateOK'
  <2>1. /\ Restart(s, {}) /\ Forget(s) /\ UNCHANGED entries
        /\ at' = [at EXCEPT ![s] = "dead"]
    BY <1>4 DEF SourceDies
  <2>2. {} \in SUBSET Entries /\ {} \subseteq Content[s]
    OBVIOUS
  <2>3. "dead" # "new" /\ "dead" # "merging" /\ "dead" # "asking"
    OBVIOUS
  <2> QED
    BY <1>1, <2>1, <2>2, <2>3
<1>5. ASSUME NEW s \in Sources, NEW d \in Dockets, AlertRaises(s, d) PROVE StateOK'
  <2>1. UNCHANGED <<open, at, todo, old, news, looking, entries>>
    BY <1>5 DEF AlertRaises, merge
  <2>2. \A t \in Sources, c \in Dockets :
            \/ alert'[<<t, c>>] = alert[<<t, c>>]
            \/ alert[<<t, c>>] \in {"queued", "read"} /\ alert'[<<t, c>>] = "dead"
    BY <1>5 DEF AlertRaises, Orders
  <2> QED
    BY <2>1, <2>2, StateFrame
<1>6. ASSUME NEW d \in Dockets, SemaphoreExpiresEarly(d) PROVE StateOK'
  BY <1>6, StateFrame DEF SemaphoreExpiresEarly, merge, alerts
<1> QED
  BY <1>2, <1>3, <1>4, <1>5, <1>6 DEF Fault

LEMMA StateStep ==
  ASSUME TypeOK, StateOK, [Next]_vars
  PROVE StateOK'
<1>1. ASSUME NEW s \in Sources, SourceStep(s) PROVE StateOK'
  <2>1. CASE Start(s)
    BY <2>1, StateStart
  <2>2. ASSUME NEW e \in Entries, Merge(s, e) PROVE StateOK'
    BY <2>2, StateMerge
  <2>3. CASE (s \in Feeds /\ CommitItem(s)) \/ (s \in Emails /\ CommitEmail(s))
    BY <2>3, StateCommit
  <2>4. ASSUME NEW d \in Dockets, FindUp(s, d) \/ FindDown(s, d) PROVE StateOK'
    BY <2>4, StateAsk
  <2>5. CASE Take(s)
    BY <2>5, StateAsk
  <2>6. CASE s \in Feeds /\ HandOver(s)
    BY <2>6, StateAsk
  <2> QED
    BY <1>1, <2>1, <2>2, <2>3, <2>4, <2>5, <2>6 DEF SourceStep
<1>2. ASSUME NEW s \in Sources, NEW d \in Dockets, AlertStep(s, d) PROVE StateOK'
  <2>1. UNCHANGED <<open, at, todo, old, news, looking, entries>>
    BY <1>2 DEF AlertStep, ReadEntries, SendMail, MailUserOnly, merge
  <2>2. \A t \in Sources, c \in Dockets :
            \/ alert'[<<t, c>>] = alert[<<t, c>>]
            \/ alert[<<t, c>>] = "queued" /\ alert'[<<t, c>>] = "read"
            \/ alert[<<t, c>>] \in {"read", "private"} /\ alert'[<<t, c>>] = "done"
    BY <1>2 DEF AlertStep, ReadEntries, SendMail, MailUserOnly, TypeOK, Orders
  <2> QED
    BY <2>1, <2>2, StateFrame
<1>3. ASSUME NEW d \in Dockets, SemaphoreExpires(d) PROVE StateOK'
  BY <1>3, StateFrame DEF SemaphoreExpires, merge, alerts
<1>4. CASE UNCHANGED vars
  BY <1>4, StateFrame DEF vars, merge, alerts
<1> QED
  BY <1>1, <1>2, <1>3, <1>4, StateFault DEF Next

----------------------------------------------------------------------------
(* Coverage.                                                               *)

\* What the source s does for an entry that is committed.
LEMMA CoverSource ==
  ASSUME TypeOK, StateOK, NEW s \in Sources, SourceStep(s),
         NEW e \in Entries, e \in entries', e \in entries => IsCovered(e),
         ~FindUp(s, DocketOf[e])
  PROVE IsCovered(e)'
<1> USE SourcesAreSources
<1> DEFINE d == DocketOf[e]
<1>0. d \in Dockets
  BY SourcesAssumption DEF SourcesAssumption
<1>a. ASSUME NEW t \in Sources, (Covers(t, e) \/ WillAsk(t, e))' PROVE IsCovered(e)'
  BY <1>a DEF IsCovered
<1>b. mailed' = mailed
  BY DEF SourceStep, Start, Merge, CommitItem, CommitEmail, FindUp, FindDown, Take, HandOver,
         alerts
<1>c. CASE e \in mailed
  BY <1>b, <1>c DEF IsCovered
<1>d. CASE e \in entries /\ e \notin mailed
  <2>0. PICK t \in Sources : Covers(t, e) \/ WillAsk(t, e)
    BY <1>d DEF IsCovered
  <2>1. CASE Start(s)
    <3>1. at[s] = "new" /\ old' = [old EXCEPT ![s] = Created] /\ UNCHANGED <<news, alert, seen>>
      BY <2>1 DEF Start, alerts
    <3>2. t # s
      BY <1>0, <2>0, <3>1 DEF Covers, WillAsk, StateOK, SourcesOK
    <3>3. Covers(t, e)' \/ WillAsk(t, e)'
      BY <2>0, <3>1, <3>2 DEF Covers, WillAsk, TypeOK
    <3> QED
      BY <1>a, <3>3
  <2>2. ASSUME NEW x \in Entries, Merge(s, x) PROVE IsCovered(e)'
    <3>1. old'[t] \subseteq old[t] /\ news[t] \subseteq news'[t] /\ UNCHANGED <<alert, seen>>
      BY <2>2 DEF Merge, alerts, TypeOK
    <3>2. Covers(t, e)' \/ WillAsk(t, e)'
      BY <2>0, <3>1 DEF Covers, WillAsk
    <3> QED
      BY <1>a, <3>2
  <2>3. CASE CommitItem(s)
    <3>1. UNCHANGED <<old, news, alert, seen>>
      BY <2>3 DEF CommitItem, alerts
    <3>2. Covers(t, e)' \/ WillAsk(t, e)'
      BY <2>0, <3>1 DEF Covers, WillAsk
    <3> QED
      BY <1>a, <3>2
  <2>4. CASE CommitEmail(s)
    <3>1. UNCHANGED <<old, news, seen>>
      BY <2>4 DEF CommitEmail
    <3>2. alert[<<t, d>>] # "none" => alert'[<<t, d>>] = alert[<<t, d>>]
      BY <1>0, <2>4 DEF CommitEmail, Orders
    <3>3. Covers(t, e)' \/ WillAsk(t, e)'
      BY <2>0, <3>1, <3>2 DEF Covers, WillAsk
    <3> QED
      BY <1>a, <3>3
  <2>5. ASSUME NEW c \in Dockets, FindUp(s, c) PROVE IsCovered(e)'
    <3>1. c # d /\ news' = [news EXCEPT ![s] = news[s] \ {c}] /\ UNCHANGED <<old, alert, seen>>
      BY <2>5 DEF FindUp, alerts
    <3>2. d \in news[t] => d \in news'[t]
      BY <3>1 DEF TypeOK
    <3>3. Covers(t, e)' \/ WillAsk(t, e)'
      BY <2>0, <3>1, <3>2 DEF Covers, WillAsk
    <3> QED
      BY <1>a, <3>3
  <2>6. ASSUME NEW c \in Dockets, FindDown(s, c) PROVE IsCovered(e)'
    <3>1. UNCHANGED <<old, news, alert, seen>>
      BY <2>6 DEF FindDown, alerts
    <3>2. Covers(t, e)' \/ WillAsk(t, e)'
      BY <2>0, <3>1 DEF Covers, WillAsk
    <3> QED
      BY <1>a, <3>2
  <2>7. CASE Take(s)
    <3> DEFINE k == looking[s]
    <3>1. /\ k \in Dockets /\ k \in news[s]
          /\ news' = [news EXCEPT ![s] = news[s] \ {k}]
          /\ UNCHANGED <<old, seen>>
      BY <2>7 DEF Take, TypeOK
    <3>2. \A r \in Sources, c \in Dockets :
              alert'[<<r, c>>] = IF r = s /\ c = k
                                   THEN (IF s \in Feeds THEN "listed" ELSE "queued")
                                   ELSE alert[<<r, c>>]
      BY <2>7, <3>1 DEF Take, TypeOK, Orders
    <3> HIDE DEF k
    <3>3. CASE t = s /\ d = k
      <4>1. alert[<<t, d>>] # "read"
        BY <1>0, <3>1, <3>3 DEF StateOK, OrdersOK
      <4>2. e \notin old[s]
        BY <2>0, <3>3, <4>1 DEF Covers, WillAsk
      <4>3. Covers(s, e)'
        BY <1>0, <3>1, <3>2, <3>3, <4>2 DEF Covers
      <4> QED
        BY <1>a, <4>3
    <3>4. CASE t # s \/ d # k
      <4>1. alert'[<<t, d>>] = alert[<<t, d>>] /\ (d \in news[t] => d \in news'[t])
        BY <1>0, <3>1, <3>2, <3>4 DEF TypeOK
      <4>2. Covers(t, e)' \/ WillAsk(t, e)'
        BY <2>0, <3>1, <4>1 DEF Covers, WillAsk
      <4> QED
        BY <1>a, <4>2
    <3> QED
      BY <3>3, <3>4
  <2>8. CASE HandOver(s)
    <3>1. UNCHANGED <<old, news, seen>>
      BY <2>8 DEF HandOver, merge
    <3>2. \/ alert'[<<t, d>>] = alert[<<t, d>>]
          \/ alert[<<t, d>>] = "listed" /\ alert'[<<t, d>>] = "queued"
      BY <1>0, <2>8 DEF HandOver, Orders
    <3>3. Covers(t, e)' \/ WillAsk(t, e)'
      BY <2>0, <3>1, <3>2 DEF Covers, WillAsk
    <3> QED
      BY <1>a, <3>3
  <2> QED
    BY <2>1, <2>2, <2>3, <2>4, <2>5, <2>6, <2>7, <2>8 DEF SourceStep
\* The step commits e: its source has still to ask.
<1>e. CASE e \notin entries
  <2>1. CASE \E x \in Entries : Merge(s, x)
    <3>1. Merge(s, e) /\ s \in Uploads
      BY <1>e, <2>1 DEF Merge
    <3>2. d \in news'[s] /\ e \notin old'[s]
      BY <1>e, <3>1 DEF Merge, TypeOK
    <3> QED
      BY <1>a, <3>2 DEF WillAsk
  <2>2. CASE CommitItem(s) \/ CommitEmail(s)
    <3>1. e \in open[s] /\ UNCHANGED <<old, news>>
      BY <1>e, <2>2 DEF CommitItem, CommitEmail
    <3>2. d \in news'[s] /\ e \notin old'[s]
      BY <3>1 DEF StateOK, SourcesOK
    <3> QED
      BY <1>a, <3>2 DEF WillAsk
  <2>3. CASE UNCHANGED entries
    BY <1>e, <2>3
  <2> QED
    BY <2>1, <2>2, <2>3 DEF SourceStep, Start, FindUp, FindDown, Take, HandOver, merge
<1> QED
  BY <1>c, <1>d, <1>e

LEMMA CoverAlert ==
  ASSUME TypeOK, NEW s \in Sources, NEW c \in Dockets, AlertStep(s, c),
         NEW e \in Entries, e \in entries, IsCovered(e)
  PROVE IsCovered(e)'
<1> DEFINE d == DocketOf[e]
<1>0. d \in Dockets /\ e \in EntriesOf(d)
  BY SourcesAssumption DEF SourcesAssumption, EntriesOf
<1>1. UNCHANGED <<entries, old, news>> /\ mailed \subseteq mailed'
  BY DEF AlertStep, ReadEntries, SendMail, MailUserOnly, merge
<1>2. CASE e \in mailed
  BY <1>1, <1>2 DEF IsCovered
<1>3. ASSUME NEW t \in Sources, WillAsk(t, e) PROVE IsCovered(e)'
  BY <1>1, <1>3 DEF WillAsk, IsCovered
<1>4. ASSUME NEW t \in Sources, Covers(t, e) PROVE IsCovered(e)'
  <2>1. CASE ReadEntries(s, c)
    <3>1. CASE t = s /\ d = c
      <4>1. e \notin old[s]
        BY <1>4, <2>1, <3>1 DEF ReadEntries, Covers
      <4>2. alert'[<<s, d>>] = "read" /\ e \in seen'[<<s, d>>]
        BY <1>0, <2>1, <3>1, <4>1 DEF ReadEntries, TypeOK, Orders
      <4> QED
        BY <3>1, <4>2 DEF IsCovered, Covers
    <3>2. CASE t # s \/ d # c
      <4>1. alert'[<<t, d>>] = alert[<<t, d>>] /\ seen'[<<t, d>>] = seen[<<t, d>>]
        BY <1>0, <2>1, <3>2 DEF ReadEntries, TypeOK, Orders
      <4> QED
        BY <1>1, <1>4, <4>1 DEF IsCovered, Covers
    <3> QED
      BY <3>1, <3>2
  <2>2. CASE SendMail(s, c)
    <3>1. CASE t = s /\ d = c
      <4>1. e \in mailed'
        BY <1>4, <2>2, <3>1 DEF SendMail, Covers
      <4> QED
        BY <4>1 DEF IsCovered
    <3>2. CASE t # s \/ d # c
      <4>1. alert'[<<t, d>>] = alert[<<t, d>>] /\ seen'[<<t, d>>] = seen[<<t, d>>]
        BY <1>0, <2>2, <3>2 DEF SendMail, TypeOK, Orders
      <4> QED
        BY <1>1, <1>4, <4>1 DEF IsCovered, Covers
    <3> QED
      BY <3>1, <3>2
  <2>3. CASE MailUserOnly(s, c)
    <3>1. alert'[<<t, d>>] = alert[<<t, d>>] /\ UNCHANGED seen
      BY <1>0, <1>4, <2>3 DEF MailUserOnly, Covers, TypeOK, Orders
    <3> QED
      BY <1>1, <1>4, <3>1 DEF IsCovered, Covers
  <2> QED
    BY <2>1, <2>2, <2>3 DEF AlertStep
<1> QED
  BY <1>2, <1>3, <1>4 DEF IsCovered

LEMMA CoverStep ==
  ASSUME TypeOK, StateOK, [Next]_vars, NEW e \in Entries,
         e \in entries', e \in entries => IsCovered(e), UNCHANGED failures,
         \A s \in Sources : ~FindUp(s, DocketOf[e])
  PROVE IsCovered(e)'
<1>1. ASSUME NEW s \in Sources, SourceStep(s) PROVE IsCovered(e)'
  BY <1>1, CoverSource
<1>2. ASSUME NEW s \in Sources, NEW d \in Dockets, AlertStep(s, d) PROVE IsCovered(e)'
  <2>1. UNCHANGED entries
    BY <1>2 DEF AlertStep, ReadEntries, SendMail, MailUserOnly, merge
  <2> QED
    BY <1>2, <2>1, CoverAlert
<1>3. CASE UNCHANGED <<merge, alerts>>
  BY <1>3 DEF merge, alerts, IsCovered, Covers, WillAsk
<1>4. ASSUME NEW d \in Dockets, SemaphoreExpires(d) \/ SemaphoreExpiresEarly(d)
      PROVE UNCHANGED <<merge, alerts>>
  BY <1>4 DEF SemaphoreExpires, SemaphoreExpiresEarly
<1>5. ASSUME Fail PROVE FALSE
  <2>1. failures \in Nat /\ failures' = failures + 1 /\ failures' = failures
    BY <1>5 DEF Fail, TypeOK
  <2> QED
    BY <2>1
<1>6. CASE UNCHANGED vars
  BY <1>3, <1>6 DEF vars
<1> QED
  BY <1>1, <1>2, <1>3, <1>4, <1>5, <1>6
     DEF Next, Fault, FeedRetries, EmailRetries, SourceDies, AlertRaises

----------------------------------------------------------------------------
(* The theorems.                                                           *)

LEMMA InitIInv ==
  ASSUME Init
  PROVE IInv
<1> USE SourcesAssumption, SourcesAreSources DEF Init, SourcesAssumption
<1>1. TypeOK
  BY DEF TypeOK, Phase
<1>2. SourcesOK
  BY DEF SourcesOK, Orders
<1>3. OrdersOK
  BY DEF OrdersOK, Orders
<1>4. EmailsOK
  BY DEF EmailsOK
<1>5. ASSUME NEW d \in Dockets PROVE AlertsOK(d)
  <2>1. Under(d) = {}
    BY DEF Under, Underway, Orders
  <2>2. Cardinality(Under(d)) = 0
    BY <2>1, FS_EmptySet
  <2> QED
    BY <2>2 DEF AlertsOK, Extra
<1> QED
  BY <1>1, <1>2, <1>3, <1>4, <1>5 DEF IInv

LEMMA StepIInv ==
  ASSUME IInv, [Next]_vars
  PROVE IInv'
<1>1. TypeOK /\ StateOK
  BY DEF IInv, StateOK
<1>2. TypeOK' /\ StateOK'
  BY <1>1, TypeStep, StateStep
<1>3. \A d \in Dockets : AlertsOK(d)'
  BY <1>1, CountStep DEF IInv
<1> QED
  BY <1>2, <1>3 DEF IInv, StateOK

LEMMA Invariance == Spec => []IInv
<1>1. Init => IInv
  BY InitIInv
<1>2. IInv /\ [Next]_vars => IInv'
  BY StepIInv
<1> QED
  BY <1>1, <1>2, PTL DEF Spec

\* Entries, sources, alerts and semaphores keep to their types.
THEOREM TypeCorrect == Spec => []TypeOK
<1>1. IInv => TypeOK
  BY DEF IInv
<1> QED
  BY <1>1, Invariance, PTL

\* Every alert about a docket beyond the first one under way is due to a key that
\* expired under an alert, or to a source that found the key missing just before
\* another set it.
THEOREM AlertsAreCounted == Spec => []OneAlertAtATime
<1>1. ASSUME IInv PROVE OneAlertAtATime
  <2>1. ASSUME NEW d \in Dockets
        PROVE Cardinality({s \in Sources : alert[<<s, d>>] \in Underway}) <= 1 + expiries + races
    <3>1. AlertsOK(d) /\ expiries \in Nat /\ races \in Nat /\ Extra = expiries + races
      BY <1>1 DEF IInv, TypeOK, Extra
    <3>2. Cardinality(Under(d)) <= 1 + expiries + races
      BY <3>1, CountsAreFinite DEF AlertsOK
    <3> QED
      BY <3>2 DEF Under
  <2> QED
    BY <2>1 DEF OneAlertAtATime
<1> QED
  BY <1>1, Invariance, PTL

\* An entry loses the alert that would mail it only when a task fails or its
\* docket's semaphore is found up.
THEOREM CoverageIsNotLost == Spec => CoverageIsKept
<1>1. IInv /\ [Next]_vars =>
        [\A e \in Entries :
            e \in entries' /\ (e \in entries => IsCovered(e)) /\ ~IsCovered(e)' =>
                \/ failures' # failures
                \/ \E s \in Sources, d \in Dockets : FindUp(s, d) /\ d = DocketOf[e]]_vars
  <2>1. ASSUME IInv, [Next]_vars, NEW e \in Entries,
               e \in entries', e \in entries => IsCovered(e), ~IsCovered(e)',
               failures' = failures
        PROVE \E s \in Sources, d \in Dockets : FindUp(s, d) /\ d = DocketOf[e]
    <3>1. DocketOf[e] \in Dockets
      BY SourcesAssumption DEF SourcesAssumption
    <3>2. TypeOK /\ StateOK
      BY <2>1 DEF IInv, StateOK
    <3>3. ~\A s \in Sources : ~FindUp(s, DocketOf[e])
      BY <2>1, <3>2, CoverStep
    <3> QED
      BY <3>1, <3>3
  <2> QED
    BY <2>1
<1> QED
  BY <1>1, Invariance, PTL DEF Spec, CoverageIsKept
=============================================================================
