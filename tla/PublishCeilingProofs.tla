------------------------ MODULE PublishCeilingProofs ------------------------
(* Theorems about PublishCeiling, for any posts, requests, ceiling and faults. *)
EXTENDS PublishCeiling, FiniteSetTheorems, TLAPS

(* TallyOK: a request past its count knows of at least its own entries, but for
   those missed, and sends below the ceiling or has missed the post it sends.
   Lonely: as long as no two requests were in flight at a time, the one there is
   knows of all of them. *)
Busy == {"send", "settle", "log"}
Past == {"next", "send", "settle", "log"}

PublisherRecord ==
  [pc : {"idle", "count", "next", "send", "settle", "log"},
   todo : SUBSET DuePosts, used : Nat, post : DuePosts \cup {NoOne}, adds : {0, 1}]

HandOK ==
  \A r \in Publishers :
    IF publishers[r].pc \in Busy THEN publishers[r].post \in DuePosts ELSE publishers[r].adds = 1
Beyond(r) == IF publishers[r].pc \in Busy THEN 1 - publishers[r].adds ELSE 0
Fits(r, e) ==
  /\ e + Beyond(r) <= Ceiling + missed
  /\ publishers[r].pc \in Past => e + Beyond(r) <= publishers[r].used + missed
CountOK(r) ==
  /\ Fits(r, Cardinality(EntriesBy(r)))
  /\ publishers[r].pc \in Busy /\ publishers[r].adds = 1 => publishers[r].used < Ceiling
TallyOK == \A r \in Publishers : CountOK(r)

Single == \A r, s \in Publishers : publishers[r].pc # "idle" /\ publishers[s].pc # "idle" => r = s
Aware == \A r \in Publishers : Fits(r, Cardinality(Entries))
Lonely == Single /\ Cardinality(Entries) <= Ceiling + missed /\ Aware

CeilingInv == CeilingTypeOK /\ HandOK /\ TallyOK /\ unlogged <= ceilingFaults /\ (crowded \/ Lonely)

(* The sets that are counted are finite, and a subset counts for no more.  *)
LEMMA Smaller ==
  ASSUME NEW S \in SUBSET DuePosts, NEW T \in SUBSET S
  PROVE  Cardinality(S) \in Nat /\ Cardinality(T) \in Nat /\ Cardinality(T) <= Cardinality(S)
<1>1. IsFiniteSet(S)  BY CeilingAssumption, FS_Subset
<1> QED  BY <1>1, FS_Subset, FS_CardinalityType

(* One more member counts for one more at most.                            *)
LEMMA OneMore ==
  ASSUME NEW S \in SUBSET DuePosts, NEW p \in DuePosts, NEW T \in SUBSET (S \cup {p})
  PROVE  /\ Cardinality(S) \in Nat /\ Cardinality(T) \in Nat
         /\ Cardinality(T) <= Cardinality(S) + 1
<1>1. IsFiniteSet(S)  BY CeilingAssumption, FS_Subset
<1>2. Cardinality(S) \in Nat  BY <1>1, FS_CardinalityType
<1>3. Cardinality(S \cup {p}) \in {Cardinality(S), Cardinality(S) + 1}
  BY <1>1, FS_AddElement, Zenon
<1>4. S \cup {p} \in SUBSET DuePosts  OBVIOUS
<1>5. Cardinality(T) \in Nat /\ Cardinality(T) <= Cardinality(S \cup {p})  BY <1>4, Smaller
<1> QED  BY <1>2, <1>3, <1>5

LEMMA EntriesFinite ==
  /\ Cardinality(Entries) \in Nat
  /\ \A r \in Publishers : Cardinality(EntriesBy(r)) \in Nat
<1>1. Entries \in SUBSET DuePosts  BY DEF Entries
<1>2. \A r \in Publishers : EntriesBy(r) \in SUBSET DuePosts  BY DEF EntriesBy
<1> QED  BY <1>1, <1>2, Smaller

(* When no entry is written, the counts can only shrink.                   *)
LEMMA NoNewEntries ==
  ASSUME \A p \in DuePosts : loggedBy'[p] \in {loggedBy[p], NoOne}
  PROVE  /\ Cardinality(Entries)' <= Cardinality(Entries)
         /\ Cardinality(Entries)' \in Nat /\ Cardinality(Entries) \in Nat
         /\ \A r \in Publishers : /\ Cardinality(EntriesBy(r))' <= Cardinality(EntriesBy(r))
                                  /\ Cardinality(EntriesBy(r))' \in Nat
                                  /\ Cardinality(EntriesBy(r)) \in Nat
<1>1. Entries' \in SUBSET Entries /\ Entries \in SUBSET DuePosts  BY DEF Entries
<1>2. ASSUME NEW r \in Publishers
      PROVE  EntriesBy(r)' \in SUBSET EntriesBy(r) /\ EntriesBy(r) \in SUBSET DuePosts
  BY CeilingAssumption DEF EntriesBy
<1>3. /\ Cardinality(Entries') <= Cardinality(Entries)
      /\ Cardinality(Entries') \in Nat /\ Cardinality(Entries) \in Nat
  BY <1>1, Smaller
<1>4. ASSUME NEW r \in Publishers
      PROVE  /\ Cardinality(EntriesBy(r)') <= Cardinality(EntriesBy(r))
             /\ Cardinality(EntriesBy(r)') \in Nat /\ Cardinality(EntriesBy(r)) \in Nat
  BY <1>2, Smaller
<1> QED  BY <1>3, <1>4

LEMMA InitCeiling == CeilingInit => CeilingInv
<1> SUFFICES ASSUME CeilingInit  PROVE CeilingInv
  OBVIOUS
<1>1. CeilingTypeOK /\ HandOK
  <2>1. OffDuty \in PublisherRecord
    BY DEF OffDuty, PublisherRecord
  <2>2. OffDuty.pc = "idle" /\ OffDuty.adds = 1  BY DEF OffDuty
  <2>3. /\ dueRows \in [DuePosts -> {"due", "publishing", "published"}]
        /\ loggedBy \in [DuePosts -> Publishers \cup {NoOne}]
    BY DEF CeilingInit
  <2>4. {unlogged, ceilingFaults, missed} \subseteq Nat /\ crowded \in BOOLEAN
    <3>1. {unlogged, ceilingFaults, missed} \subseteq Nat  BY DEF CeilingInit
    <3>2. crowded \in BOOLEAN  BY Zenon DEF CeilingInit
    <3> QED  BY <3>1, <3>2
  <2>5. publishers = [r \in Publishers |-> OffDuty]  BY DEF CeilingInit
  <2>6. HandOK  BY <2>2, <2>5 DEF HandOK, Busy
  <2>7. publishers \in [Publishers -> PublisherRecord]  BY <2>1, <2>5
  <2> QED  BY <2>3, <2>4, <2>6, <2>7, Zenon DEF CeilingTypeOK, PublisherRecord
<1>2. Entries = {} /\ \A r \in Publishers : EntriesBy(r) = {}
  BY CeilingAssumption DEF CeilingInit, Entries, EntriesBy
<1>3. Cardinality({}) = 0  BY FS_EmptySet
<1>4. missed = 0 /\ \A r \in Publishers : publishers[r].pc = "idle"  BY DEF CeilingInit, OffDuty
<1>5. \A r \in Publishers : Fits(r, 0)  BY <1>4, CeilingAssumption DEF Fits, Beyond, Past, Busy
<1>6. TallyOK  BY <1>2, <1>3, <1>4, <1>5 DEF TallyOK, CountOK, Busy
<1>7. Lonely  BY <1>2, <1>3, <1>4, <1>5, CeilingAssumption DEF Lonely, Single, Aware
<1> QED  BY <1>1, <1>6, <1>7 DEF CeilingInv, CeilingInit

(* What a request has beyond its count is its post in hand, at most.        *)
LEMMA BeyondIsSmall ==
  CeilingTypeOK => \A r \in Publishers : /\ Beyond(r) \in {0, 1} /\ publishers[r].used \in Nat
                                         /\ publishers[r].adds \in {0, 1} /\ missed \in Nat
  BY DEF CeilingTypeOK, Beyond

(* What fits a request that stays as it is still fits, whatever is missed, and
   so does any smaller number. *)
LEMMA FitsStill ==
  ASSUME CeilingTypeOK, CeilingTypeOK', NEW s \in Publishers, publishers'[s] = publishers[s],
         missed' >= missed, NEW e \in Nat, NEW n \in Nat, n <= e, Fits(s, e)
  PROVE  Fits(s, n)'
<1>1. Beyond(s)' = Beyond(s)  BY DEF Beyond
<1>2. /\ Beyond(s) \in {0, 1} /\ publishers[s].used \in Nat
      /\ missed \in Nat /\ missed' \in Nat
  BY BeyondIsSmall DEF CeilingTypeOK
<1>3. e + Beyond(s) <= Ceiling + missed
      /\ (publishers[s].pc \in Past => e + Beyond(s) <= publishers[s].used + missed)
  BY DEF Fits
<1>4. n + Beyond(s)' <= Ceiling + missed'
      /\ (publishers[s].pc \in Past => n + Beyond(s)' <= publishers[s].used + missed')
  BY <1>1, <1>2, <1>3, CeilingAssumption
<1> QED  BY <1>4 DEF Fits

LEMMA Wider == \A a, b, c, d \in Nat : a <= b + c /\ d >= c => a <= b + d
  OBVIOUS

(* A step that writes no entry, and after which each request is where it was or
   holds a count and a place that its entries allow. *)
LEMMA Keeping ==
  ASSUME CeilingInv, CeilingTypeOK', HandOK', UNCHANGED loggedBy, unlogged' <= ceilingFaults',
         missed' >= missed,
         NEW r \in Publishers,
         \A s \in Publishers \ {r} : publishers'[s] = publishers[s],
         \A e \in Nat : e <= Cardinality(Entries) /\ Fits(r, e) => Fits(r, e)',
         publishers'[r].pc \in Busy /\ publishers'[r].adds = 1 => publishers'[r].used < Ceiling,
         publishers'[r].pc # "idle" => publishers[r].pc # "idle" \/ crowded'
                                       \/ \A s \in Publishers : publishers[s].pc = "idle",
         crowded => crowded'
  PROVE  CeilingInv'
<1>1. CeilingTypeOK /\ TallyOK /\ (crowded \/ Lonely) /\ missed \in Nat /\ missed' \in Nat
  BY DEF CeilingInv, CeilingTypeOK
<1>2. Entries' = Entries /\ \A s \in Publishers : EntriesBy(s)' = EntriesBy(s)
  BY DEF Entries, EntriesBy
<1>3. Cardinality(EntriesBy(r)) <= Cardinality(Entries)
  <2>1. EntriesBy(r) \in SUBSET Entries  BY CeilingAssumption DEF EntriesBy, Entries
  <2>2. Entries \in SUBSET DuePosts  BY DEF Entries
  <2> QED  BY <2>1, <2>2, Smaller
<1>4. ASSUME NEW s \in Publishers, NEW e \in Nat, e <= Cardinality(Entries), Fits(s, e)
      PROVE  Fits(s, e)'
  BY <1>1, <1>4, FitsStill
<1>5. TallyOK'
  <2> SUFFICES ASSUME NEW s \in Publishers  PROVE CountOK(s)'
    BY DEF TallyOK
  <2> DEFINE e == Cardinality(EntriesBy(s))
  <2>1. e \in Nat /\ e' = e /\ Fits(s, e)  BY <1>1, <1>2, EntriesFinite DEF TallyOK, CountOK
  <2>2. EntriesBy(s) \in SUBSET Entries /\ Entries \in SUBSET DuePosts
    BY CeilingAssumption DEF EntriesBy, Entries
  <2>3. e <= Cardinality(Entries)  BY <2>2, Smaller
  <2> HIDE DEF e
  <2>4. Fits(s, e)'  BY <1>4, <2>1, <2>3 DEF Fits
  <2>5. publishers'[s].pc \in Busy /\ publishers'[s].adds = 1 => publishers'[s].used < Ceiling
    BY <1>1 DEF TallyOK, CountOK
  <2> USE DEF e
  <2> QED  BY <2>4, <2>5 DEF CountOK
<1>6. ASSUME ~crowded'  PROVE Lonely'
  <2>1. Lonely  BY <1>1, <1>6
  <2>2. Single'  BY <1>6, <2>1 DEF Lonely, Single
  <2> DEFINE k == Cardinality(Entries)
  <2>3. k \in Nat /\ k' = k /\ k <= Ceiling + missed /\ \A s \in Publishers : Fits(s, k)
    BY <1>2, <2>1, EntriesFinite DEF Lonely, Aware
  <2> HIDE DEF k
  <2>4. ASSUME NEW s \in Publishers  PROVE Fits(s, k)'
    <3>1. k <= k  BY <2>3
    <3>2. k <= Cardinality(Entries)  BY <3>1 DEF k
    <3>3. k \in Nat /\ k' = k /\ Fits(s, k)  BY <2>3
    <3> QED  BY <1>4, <3>2, <3>3 DEF Fits
  <2>5. k' <= Ceiling + missed'
    <3>1. k \in Nat /\ k' = k /\ k <= Ceiling + missed  BY <2>3
    <3>2. Ceiling \in Nat  BY CeilingAssumption
    <3>3. \A b, c, d \in Nat : k <= b + c /\ d >= c => k <= b + d  BY <3>1, Wider
    <3>4. k <= Ceiling + missed'  BY <1>1, <3>1, <3>2, <3>3, Zenon
    <3> QED  BY <3>1, <3>4
  <2> USE DEF k
  <2> QED  BY <2>2, <2>4, <2>5 DEF Lonely, Aware
<1> QED  BY <1>5, <1>6 DEF CeilingInv

(* A request moves, with a record that is one.                              *)
LEMMA Handed ==
  ASSUME CeilingTypeOK, HandOK, NEW r \in Publishers, NEW k \in PublisherRecord,
         publishers' = [publishers EXCEPT ![r] = k],
         IF k.pc \in Busy THEN k.post \in DuePosts ELSE k.adds = 1
  PROVE  /\ publishers' \in [Publishers -> PublisherRecord] /\ HandOK'
         /\ publishers'[r] = k /\ \A s \in Publishers \ {r} : publishers'[s] = publishers[s]
<1>1. publishers \in [Publishers -> PublisherRecord]  BY DEF CeilingTypeOK, PublisherRecord
<1>2. /\ publishers' \in [Publishers -> PublisherRecord] /\ publishers'[r] = k
      /\ \A s \in Publishers \ {r} : publishers'[s] = publishers[s]
  BY <1>1
<1>3. HandOK'  BY <1>2 DEF HandOK
<1> QED  BY <1>2, <1>3

LEMMA HandedNext ==
  ASSUME CeilingTypeOK, HandOK, NEW r \in Publishers, NEW n \in Nat, PublisherNext(r, n)
  PROVE  publishers' \in [Publishers -> PublisherRecord] /\ HandOK'
<1> DEFINE k == [publishers[r] EXCEPT !.pc = "next", !.post = NoOne, !.adds = 1, !.used = n]
<1>1. publishers[r] \in PublisherRecord  BY DEF CeilingTypeOK, PublisherRecord
<1>2. k \in PublisherRecord /\ k.pc = "next" /\ k.adds = 1  BY <1>1 DEF PublisherRecord
<1>3. publishers' = [publishers EXCEPT ![r] = k]  BY DEF CeilingTypeOK, PublisherNext
<1> HIDE DEF k
<1> QED  BY <1>2, <1>3, Handed DEF Busy

LEMMA StepCeiling == CeilingInv /\ [CeilingNext]_ceilingVars => CeilingInv'
<1> SUFFICES ASSUME CeilingInv, [CeilingNext]_ceilingVars  PROVE CeilingInv'
  OBVIOUS
<1>0. /\ CeilingTypeOK /\ HandOK /\ TallyOK /\ unlogged <= ceilingFaults /\ (crowded \/ Lonely)
      /\ Cardinality(Entries) \in Nat /\ missed \in Nat
  BY EntriesFinite DEF CeilingInv, CeilingTypeOK
<1>a. Ceiling \in Nat  BY CeilingAssumption
<1>b. ASSUME NEW r \in Publishers  PROVE Beyond(r) \in {0, 1} /\ publishers[r].used \in Nat /\ publishers[r].adds \in {0, 1}
  BY <1>0, BeyondIsSmall
<1>c. missed >= missed  BY <1>0
<1>1. ASSUME NEW r \in Publishers, NEW todo \in SUBSET DuePosts, Reports(r, todo),
             dueRows' \in [DuePosts -> {"due", "publishing", "published"}]
      PROVE  CeilingInv'
  <2>1. CeilingTypeOK'
    BY <1>0, <1>1, CeilingAssumption DEF CeilingTypeOK, Reports, PublisherAt, OffDuty
  <2>2. HandOK'  BY <1>0, <1>1 DEF CeilingTypeOK, HandOK, Busy, Reports, PublisherAt, OffDuty
  <2>3. publishers'[r].pc = "count" /\ \A s \in Publishers \ {r} : publishers'[s] = publishers[s]
    BY <1>0, <1>1 DEF CeilingTypeOK, Reports, OffDuty
  <2>4. (crowded => crowded') /\ (crowded' \/ \A s \in Publishers : publishers[s].pc = "idle")
    BY <1>1 DEF Reports, OnDuty
  <2>5. UNCHANGED <<loggedBy, missed>> /\ unlogged' <= ceilingFaults'  BY <1>0, <1>1 DEF Reports
  <2>6. ASSUME NEW e \in Nat, Fits(r, e)  PROVE Fits(r, e)'
    BY <1>0, <1>a, <1>b, <2>3, <2>5, <2>6 DEF Fits, Beyond, Past, Busy
  <2> QED  BY <1>c, <2>1, <2>2, <2>3, <2>4, <2>5, <2>6, Keeping DEF Busy
<1>2. ASSUME NEW r \in Publishers, NEW stale \in SUBSET DuePosts, BeginTick(r, stale)  PROVE CeilingInv'
  <2>1. dueRows' \in [DuePosts -> {"due", "publishing", "published"}]
    BY <1>0, <1>2 DEF BeginTick, CeilingTypeOK
  <2> QED  BY <1>1, <1>2, <2>1 DEF BeginTick
<1>3. ASSUME NEW r \in Publishers, NEW p \in DuePosts, BeginClick(r, p)  PROVE CeilingInv'
  BY <1>0, <1>1, <1>3 DEF BeginClick, CeilingTypeOK
<1>4. ASSUME NEW r \in Publishers, ReadUsage(r)  PROVE CeilingInv'
  <2>1. CeilingTypeOK' /\ HandOK'
    <3>1. publishers' \in [Publishers -> PublisherRecord] /\ HandOK'
      BY <1>0, <1>4, HandedNext DEF ReadUsage
    <3> QED  BY <1>0, <1>4, <3>1 DEF CeilingTypeOK, PublisherRecord, ReadUsage
  <2>2. /\ publishers'[r].pc = "next" /\ publishers'[r].used = Cardinality(Entries)
        /\ publishers[r].pc = "count" /\ UNCHANGED missed
        /\ \A s \in Publishers \ {r} : publishers'[s] = publishers[s]
    BY <1>0, <1>4 DEF CeilingTypeOK, ReadUsage, PublisherAt, PublisherNext
  <2>3. ASSUME NEW e \in Nat, e <= Cardinality(Entries), Fits(r, e)  PROVE Fits(r, e)'
    BY <1>0, <1>a, <2>2, <2>3 DEF Fits, Beyond, Busy
  <2> QED  BY <1>0, <1>c, <1>4, <2>1, <2>2, <2>3, Keeping DEF ReadUsage, Busy
<1>4a. ASSUME NEW r \in Publishers, UsageUnread(r)  PROVE CeilingInv'
  <2>1. CeilingTypeOK' /\ HandOK'
    <3>1. publishers' \in [Publishers -> PublisherRecord] /\ HandOK'
      BY <1>0, <1>4a, HandedNext DEF UsageUnread
    <3> QED  BY <1>0, <1>4a, <3>1 DEF CeilingTypeOK, PublisherRecord, UsageUnread
  <2>2. /\ publishers'[r].pc = "next" /\ publishers'[r].used = 0
        /\ publishers[r].pc = "count" /\ missed' = missed + Cardinality(Entries)
        /\ \A s \in Publishers \ {r} : publishers'[s] = publishers[s]
    BY <1>0, <1>4a DEF CeilingTypeOK, UsageUnread, PublisherAt, PublisherNext
  <2>3. ASSUME NEW e \in Nat, e <= Cardinality(Entries), Fits(r, e)  PROVE Fits(r, e)'
    BY <1>0, <1>a, <2>2, <2>3 DEF Fits, Beyond, Busy
  <2>4. missed' >= missed  BY <1>0, <2>2
  <2> QED  BY <1>0, <1>4a, <2>1, <2>2, <2>3, <2>4, Keeping DEF UsageUnread, Busy
<1>5. ASSUME NEW r \in Publishers, NEW p \in DuePosts, ClaimDue(r, p)  PROVE CeilingInv'
  <2>1. CeilingTypeOK' /\ HandOK'
    <3>1. CASE dueRows[p] = "due"
      <4>1. /\ publishers' = [publishers EXCEPT ![r].todo = @ \ {p}, ![r].pc = "send", ![r].post = p]
            /\ dueRows' = [dueRows EXCEPT ![p] = "publishing"]
            /\ UNCHANGED <<loggedBy, unlogged, ceilingFaults, missed, crowded>>
        BY <1>5, <3>1 DEF ClaimDue
      <4>2. CeilingTypeOK'
        <5>1. publishers[r] \in PublisherRecord  BY <1>0 DEF CeilingTypeOK, PublisherRecord
        <5> DEFINE job == [publishers[r] EXCEPT !.todo = @ \ {p}, !.pc = "send", !.post = p]
        <5>2. job \in PublisherRecord
          BY <5>1 DEF PublisherRecord
        <5>3. publishers' = [publishers EXCEPT ![r] = job]  BY <1>0, <4>1 DEF CeilingTypeOK
        <5>4. dueRows' \in [DuePosts -> {"due", "publishing", "published"}]
          BY <1>0, <4>1 DEF CeilingTypeOK
        <5> HIDE DEF job
        <5>5. publishers' \in [Publishers -> PublisherRecord]
          BY <1>0, <5>2, <5>3 DEF CeilingTypeOK, PublisherRecord
        <5>6. /\ loggedBy' \in [DuePosts -> Publishers \cup {NoOne}]
              /\ {unlogged', ceilingFaults', missed'} \subseteq Nat
          BY <1>0, <4>1 DEF CeilingTypeOK
        <5>7. crowded' \in BOOLEAN  BY <1>0, <4>1, Zenon DEF CeilingTypeOK
        <5> QED  BY <5>4, <5>5, <5>6, <5>7, Zenon DEF CeilingTypeOK, PublisherRecord
      <4>3. HandOK'  BY <1>0, <4>1 DEF CeilingTypeOK, HandOK, Busy
      <4> QED  BY <4>2, <4>3
    <3>2. CASE dueRows[p] # "due"
      <4>1. /\ publishers' = [publishers EXCEPT ![r].todo = @ \ {p}, ![r].pc = "next", ![r].post = NoOne]
            /\ UNCHANGED <<dueRows, loggedBy, unlogged, ceilingFaults, missed, crowded>>
        BY <1>5, <3>2 DEF ClaimDue
      <4>2. publishers' \in [Publishers -> PublisherRecord]
        <5>1. publishers[r] \in PublisherRecord  BY <1>0 DEF CeilingTypeOK, PublisherRecord
        <5> DEFINE job == [publishers[r] EXCEPT !.todo = @ \ {p}, !.pc = "next", !.post = NoOne]
        <5>2. job \in PublisherRecord
          BY <5>1 DEF PublisherRecord
        <5>3. publishers' = [publishers EXCEPT ![r] = job]  BY <1>0, <4>1 DEF CeilingTypeOK
        <5> HIDE DEF job
        <5> QED  BY <1>0, <5>2, <5>3 DEF CeilingTypeOK, PublisherRecord
      <4>3. CeilingTypeOK'  BY <1>0, <4>1, <4>2 DEF CeilingTypeOK, PublisherRecord
      <4>4. HandOK'  BY <1>0, <4>1 DEF CeilingTypeOK, HandOK, Busy
      <4> QED  BY <4>3, <4>4
    <3> QED  BY <3>1, <3>2
  <2>2. /\ publishers'[r].used = publishers[r].used /\ publishers[r].used < Ceiling
        /\ publishers[r].pc = "next" /\ publishers'[r].adds = publishers[r].adds /\ UNCHANGED missed
        /\ \A s \in Publishers \ {r} : publishers'[s] = publishers[s]
    BY <1>0, <1>5 DEF CeilingTypeOK, ClaimDue, PublisherAt
  <2>3. publishers[r].adds = 1  BY <1>0, <2>2 DEF HandOK, Busy
  <2>4. ASSUME NEW e \in Nat, e <= Cardinality(Entries), Fits(r, e)  PROVE Fits(r, e)'
    BY <1>0, <1>a, <1>b, <2>2, <2>3, <2>4 DEF Fits, Beyond, Busy, Past
  <2> QED  BY <1>0, <1>c, <1>5, <2>1, <2>2, <2>4, Keeping DEF ClaimDue
<1>5a. ASSUME NEW r \in Publishers, NEW p \in DuePosts, ClaimUnseen(r, p)  PROVE CeilingInv'
  <2>1. CeilingTypeOK' /\ HandOK'
    <3>1. publishers[r] \in PublisherRecord
      BY <1>0 DEF CeilingTypeOK, PublisherRecord
    <3> DEFINE job == [publishers[r] EXCEPT !.todo = @ \ {p}, !.pc = "send", !.post = p, !.adds = 0]
    <3>2. job \in PublisherRecord
      BY <3>1 DEF PublisherRecord
    <3>3. publishers' = [publishers EXCEPT ![r] = job]  BY <1>0, <1>5a DEF CeilingTypeOK, ClaimUnseen
    <3>4. job.post \in DuePosts /\ job.pc = "send"  BY <3>1
    <3> HIDE DEF job
    <3>5. publishers' \in [Publishers -> PublisherRecord]
      BY <1>0, <3>2, <3>3 DEF CeilingTypeOK, PublisherRecord
    <3>6. CeilingTypeOK'  BY <1>0, <1>5a, <3>5 DEF CeilingTypeOK, PublisherRecord, ClaimUnseen
    <3>7. HandOK'  BY <1>0, <3>3, <3>4 DEF CeilingTypeOK, HandOK, Busy
    <3> QED  BY <3>6, <3>7
  <2>2. /\ publishers'[r].pc = "send" /\ publishers'[r].used = publishers[r].used
        /\ publishers[r].pc = "next" /\ publishers'[r].adds = 0 /\ missed' = missed + 1
        /\ \A s \in Publishers \ {r} : publishers'[s] = publishers[s]
    BY <1>0, <1>5a DEF CeilingTypeOK, ClaimUnseen, PublisherAt
  <2>3. ASSUME NEW e \in Nat, e <= Cardinality(Entries), Fits(r, e)  PROVE Fits(r, e)'
    BY <1>0, <1>a, <1>b, <2>2, <2>3 DEF Fits, Beyond, Busy, Past
  <2>4. missed' >= missed  BY <1>0, <2>2
  <2>5. UNCHANGED <<loggedBy, crowded>> /\ unlogged' <= ceilingFaults'  BY <1>0, <1>5a DEF ClaimUnseen
  <2> QED  BY <2>1, <2>2, <2>3, <2>4, <2>5, Keeping
<1>6. ASSUME NEW r \in Publishers, EndDuty(r)  PROVE CeilingInv'
  <2>1. CeilingTypeOK' /\ HandOK'
    BY <1>0, <1>6 DEF CeilingTypeOK, HandOK, Busy, EndDuty, PublisherAt, OffDuty
  <2>2. /\ publishers'[r].pc = "idle" /\ UNCHANGED missed
        /\ \A s \in Publishers \ {r} : publishers'[s] = publishers[s]
    BY <1>0, <1>6 DEF CeilingTypeOK, EndDuty, OffDuty
  <2>3. ASSUME NEW e \in Nat, Fits(r, e)  PROVE Fits(r, e)'
    BY <1>0, <1>a, <1>b, <2>2, <2>3 DEF Fits, Beyond, Past, Busy
  <2> QED  BY <1>0, <1>c, <1>6, <2>1, <2>2, <2>3, Keeping DEF EndDuty, Busy
<1>7. ASSUME NEW r \in Publishers, PlatformTakes(r) \/ SettleRow(r)  PROVE CeilingInv'
  <2>1. CeilingTypeOK' /\ HandOK'
    BY <1>0, <1>7 DEF CeilingTypeOK, HandOK, Busy, PlatformTakes, SettleRow, PublisherAt, PublisherTo
  <2>2. /\ publishers'[r].used = publishers[r].used /\ publishers[r].pc \in Busy
        /\ publishers'[r].adds = publishers[r].adds /\ publishers'[r].pc \in Busy /\ UNCHANGED missed
        /\ \A s \in Publishers \ {r} : publishers'[s] = publishers[s]
    BY <1>0, <1>7 DEF CeilingTypeOK, PlatformTakes, SettleRow, PublisherAt, PublisherTo, Busy
  <2>3. publishers[r].adds = 1 => publishers[r].used < Ceiling  BY <1>0, <2>2 DEF TallyOK, CountOK
  <2>4. ASSUME NEW e \in Nat, Fits(r, e)  PROVE Fits(r, e)'
    BY <2>2, <2>4 DEF Fits, Beyond, Past, Busy
  <2> QED  BY <1>0, <1>c, <1>7, <2>1, <2>2, <2>3, <2>4, Keeping DEF PlatformTakes, SettleRow, Busy
<1>8. ASSUME NEW r \in Publishers, AttemptFails(r)  PROVE CeilingInv'
  <2>1. CeilingTypeOK' /\ HandOK'
    <3>1. publishers' \in [Publishers -> PublisherRecord] /\ HandOK'
      BY <1>0, <1>b, <1>8, HandedNext DEF AttemptFails
    <3> QED  BY <1>0, <1>8, <3>1 DEF CeilingTypeOK, PublisherRecord, AttemptFails
  <2>2. /\ publishers'[r].used = publishers[r].used /\ publishers[r].pc = "send" /\ publishers'[r].pc = "next"
        /\ UNCHANGED missed /\ \A s \in Publishers \ {r} : publishers'[s] = publishers[s]
    BY <1>0, <1>8 DEF CeilingTypeOK, AttemptFails, PublisherAt, PublisherNext
  <2>3. ASSUME NEW e \in Nat, Fits(r, e)  PROVE Fits(r, e)'
    BY <1>0, <1>a, <1>b, <2>2, <2>3 DEF Fits, Beyond, Past, Busy
  <2> QED  BY <1>0, <1>c, <1>8, <2>1, <2>2, <2>3, Keeping DEF AttemptFails, Busy
<1>9. ASSUME NEW r \in Publishers, LoseAcceptance(r) \/ LogEntryThrows(r) \/ KillPublisher(r)  PROVE CeilingInv'
  <2>1. /\ unlogged' <= ceilingFaults' /\ unlogged' \in Nat /\ ceilingFaults' \in Nat
        /\ UNCHANGED <<loggedBy, missed, crowded>>
    BY <1>0, <1>9 DEF CeilingTypeOK, LoseAcceptance, LogEntryThrows, KillPublisher, Mishap
  <2>2. CeilingTypeOK' /\ HandOK'
    <3>1. CASE LoseAcceptance(r)
      <4>1. publishers' \in [Publishers -> PublisherRecord] /\ HandOK'
        BY <1>0, <1>b, <3>1, HandedNext DEF LoseAcceptance
      <4> QED  BY <1>0, <2>1, <3>1, <4>1 DEF CeilingTypeOK, PublisherRecord, LoseAcceptance
    <3>2. CASE LogEntryThrows(r)
      <4>1. publishers[r].used + publishers[r].adds \in Nat  BY <1>b
      <4>2. publishers' \in [Publishers -> PublisherRecord] /\ HandOK'
        BY <1>0, <3>2, <4>1, HandedNext DEF LogEntryThrows
      <4> QED  BY <1>0, <2>1, <3>2, <4>2 DEF CeilingTypeOK, PublisherRecord, LogEntryThrows
    <3>3. CASE KillPublisher(r)
      BY <1>0, <2>1, <3>3 DEF CeilingTypeOK, HandOK, Busy, KillPublisher, PublisherAt, OffDuty
    <3> QED  BY <1>9, <3>1, <3>2, <3>3
  <2>3. /\ \/ publishers'[r].pc = "idle"
           \/ /\ publishers'[r].pc = "next" /\ publishers[r].pc \in Busy
              /\ publishers'[r].used \in {publishers[r].used, publishers[r].used + publishers[r].adds}
        /\ \A s \in Publishers \ {r} : publishers'[s] = publishers[s]
    BY <1>0, <1>9 DEF CeilingTypeOK, LoseAcceptance, LogEntryThrows, KillPublisher, PublisherAt,
                      PublisherNext, OffDuty, Busy
  <2>4. ASSUME NEW e \in Nat, Fits(r, e)  PROVE Fits(r, e)'
    BY <1>0, <1>a, <1>b, <2>1, <2>3, <2>4 DEF Fits, Beyond, Past, Busy
  <2> QED  BY <1>c, <2>1, <2>2, <2>3, <2>4, Keeping DEF Busy
<1>10. ASSUME NEW r \in Publishers, LogEntry(r)  PROVE CeilingInv'
  <2> DEFINE p == publishers[r].post
  <2>1. /\ publishers[r].pc = "log" /\ p \in DuePosts
        /\ loggedBy' = [loggedBy EXCEPT ![p] = r]
        /\ UNCHANGED <<dueRows, unlogged, ceilingFaults, missed, crowded>>
    BY <1>0, <1>10 DEF LogEntry, PublisherAt, HandOK, Busy
  <2>2. CeilingTypeOK' /\ HandOK'
    BY <1>0, <1>10, <2>1 DEF CeilingTypeOK, HandOK, Busy, LogEntry, PublisherAt, PublisherNext
  <2>3. /\ publishers'[r].pc = "next" /\ publishers'[r].used = publishers[r].used + publishers[r].adds
        /\ publishers[r].used \in Nat /\ publishers[r].adds \in {0, 1}
        /\ \A s \in Publishers \ {r} : publishers'[s] = publishers[s]
    BY <1>0, <1>10 DEF CeilingTypeOK, LogEntry, PublisherNext
  <2>4. CountOK(r)  BY <1>0 DEF TallyOK
  <2>5. ASSUME NEW e \in Nat, NEW n \in Nat, n <= e + 1, Fits(r, e)  PROVE Fits(r, n)' /\ n <= Ceiling + missed
    <3>1. Beyond(r) = 1 - publishers[r].adds /\ Beyond(r)' = 0  BY <2>1, <2>3 DEF Beyond, Busy
    <3>2. publishers[r].adds = 1 => publishers[r].used < Ceiling  BY <2>1, <2>4 DEF CountOK, Busy
    <3>3. e + Beyond(r) <= Ceiling + missed /\ e + Beyond(r) <= publishers[r].used + missed
      BY <2>1, <2>5 DEF Fits, Past
    <3>4. n <= Ceiling + missed /\ n <= publishers[r].used + publishers[r].adds + missed
      <4>1. CASE publishers[r].adds = 0
        BY <1>0, <1>a, <2>3, <2>5, <3>1, <3>3, <4>1
      <4>2. CASE publishers[r].adds = 1
        BY <1>0, <1>a, <2>3, <2>5, <3>1, <3>2, <3>3, <4>2
      <4> QED  BY <2>3, <4>1, <4>2
    <3>5. missed' = missed  BY <2>1
    <3>6. n + 0 = n  OBVIOUS
    <3> QED  BY <2>3, <3>1, <3>4, <3>5, <3>6 DEF Fits
  <2>6. CountOK(r)'
    <3>1. EntriesBy(r)' \in SUBSET (EntriesBy(r) \cup {p}) /\ EntriesBy(r) \in SUBSET DuePosts
      BY <1>0, <2>1 DEF EntriesBy, CeilingTypeOK
    <3>2. Cardinality(EntriesBy(r))' <= Cardinality(EntriesBy(r)) + 1 /\ Cardinality(EntriesBy(r))' \in Nat /\ Cardinality(EntriesBy(r)) \in Nat
      BY <2>1, <3>1, OneMore
    <3>n. PICK n \in Nat : n = Cardinality(EntriesBy(r))'  BY <3>2
    <3>3. Fits(r, Cardinality(EntriesBy(r)))  BY <2>4 DEF CountOK
    <3>4. Fits(r, n)'  BY <2>5, <3>n, <3>2, <3>3 DEF Fits
    <3> QED  BY <3>n, <2>3, <3>4 DEF CountOK, Busy, Fits
  <2>7. ASSUME NEW s \in Publishers \ {r}  PROVE CountOK(s)'
    <3>1. EntriesBy(s)' \in SUBSET EntriesBy(s) /\ EntriesBy(s) \in SUBSET DuePosts
      BY <1>0, <2>1, <2>7 DEF EntriesBy, CeilingTypeOK
    <3>2. Cardinality(EntriesBy(s))' <= Cardinality(EntriesBy(s)) /\ Cardinality(EntriesBy(s))' \in Nat /\ Cardinality(EntriesBy(s)) \in Nat
      BY <3>1, Smaller
    <3>n. PICK n \in Nat : n = Cardinality(EntriesBy(s))'  BY <3>2
    <3>3. CountOK(s) /\ publishers'[s] = publishers[s] /\ missed' >= missed
      BY <1>0, <2>1, <2>3, <2>7 DEF TallyOK
    <3>4. Fits(s, n)'  BY <1>0, <2>2, <3>n, <3>2, <3>3, FitsStill DEF CountOK, Fits
    <3> QED  BY <3>n, <3>3, <3>4 DEF CountOK, Fits
  <2>8. ASSUME ~crowded'  PROVE Lonely'
    <3>1. Lonely  BY <1>0, <2>1, <2>8
    <3>2. Entries' \in SUBSET (Entries \cup {p}) /\ Entries \in SUBSET DuePosts
      BY <1>0, <2>1 DEF Entries, CeilingTypeOK
    <3>3. Cardinality(Entries)' <= Cardinality(Entries) + 1 /\ Cardinality(Entries)' \in Nat  BY <2>1, <3>2, OneMore
    <3>n. PICK n \in Nat : n = Cardinality(Entries)'  BY <3>3
    <3>4. Fits(r, Cardinality(Entries))  BY <3>1 DEF Lonely, Aware
    <3>5. Single' /\ \A s \in Publishers \ {r} : publishers'[s].pc = "idle"
      BY <2>1, <2>3, <3>1 DEF Lonely, Single
    <3>6. Fits(r, n)' /\ n <= Ceiling + missed  BY <1>0, <2>5, <3>n, <3>3, <3>4 DEF Fits
    <3>7. ASSUME NEW s \in Publishers \ {r}  PROVE Fits(s, n)'
      <4>1. Beyond(s)' = 0 /\ publishers'[s].pc \notin Past  BY <3>5 DEF Beyond, Busy, Past
      <4>2. missed' = missed /\ n + 0 = n  BY <2>1, <3>n, <3>3
      <4> QED  BY <3>6, <4>1, <4>2 DEF Fits
    <3>8. missed' = missed  BY <2>1
    <3> QED  BY <3>n, <3>5, <3>6, <3>7, <3>8 DEF Lonely, Aware, Fits
  <2> QED  BY <1>0, <2>1, <2>2, <2>6, <2>7, <2>8 DEF CeilingInv, TallyOK
<1>11. ASSUME UNCHANGED publishers, UNCHANGED crowded, UNCHANGED missed, unlogged' <= ceilingFaults', CeilingTypeOK',
              \A p \in DuePosts : loggedBy'[p] \in {loggedBy[p], NoOne}
       PROVE  CeilingInv'
  <2>1. HandOK'  BY <1>0, <1>11 DEF HandOK
  <2>2. missed' >= missed  BY <1>0, <1>11
  <2>3. ASSUME NEW s \in Publishers  PROVE CountOK(s)'
    <3>1. Cardinality(EntriesBy(s))' <= Cardinality(EntriesBy(s)) /\ Cardinality(EntriesBy(s))' \in Nat /\ Cardinality(EntriesBy(s)) \in Nat
      BY <1>11, NoNewEntries
    <3>n. PICK n \in Nat : n = Cardinality(EntriesBy(s))'  BY <3>1
    <3>2. CountOK(s) /\ publishers'[s] = publishers[s]  BY <1>0, <1>11 DEF TallyOK
    <3>3. Fits(s, n)'  BY <1>0, <1>11, <2>2, <3>n, <3>1, <3>2, FitsStill DEF CountOK, Fits
    <3> QED  BY <3>n, <3>2, <3>3 DEF CountOK, Fits
  <2>4. ASSUME ~crowded'  PROVE Lonely'
    <3>1. Lonely  BY <1>0, <1>11, <2>4
    <3>2. Cardinality(Entries)' <= Cardinality(Entries) /\ Cardinality(Entries)' \in Nat  BY <1>11, NoNewEntries
    <3>n. PICK n \in Nat : n = Cardinality(Entries)'  BY <3>2
    <3>3. Single'  BY <1>11, <3>1 DEF Lonely, Single
    <3>4. ASSUME NEW s \in Publishers  PROVE Fits(s, n)'
      <4>1. Fits(s, Cardinality(Entries)) /\ publishers'[s] = publishers[s]  BY <1>11, <3>1 DEF Lonely, Aware
      <4> QED  BY <1>0, <1>11, <2>2, <3>n, <3>2, <4>1, FitsStill DEF Fits
    <3>5. n <= Ceiling + missed /\ missed' = missed
      <4>1. Cardinality(Entries) <= Ceiling + missed  BY <3>1 DEF Lonely
      <4> QED  BY <1>0, <1>a, <1>11, <3>n, <3>2, <4>1
    <3> QED  BY <3>n, <3>3, <3>4, <3>5 DEF Lonely, Aware, Fits
  <2> QED  BY <1>11, <2>1, <2>3, <2>4 DEF CeilingInv, TallyOK
<1>12. ASSUME NEW p \in DuePosts, LeavesWindow(p)  PROVE CeilingInv'
  <2>1. CeilingTypeOK' /\ \A q \in DuePosts : loggedBy'[q] \in {loggedBy[q], NoOne}
    BY <1>0, <1>12 DEF CeilingTypeOK, LeavesWindow
  <2> QED  BY <1>0, <1>11, <1>12, <2>1 DEF LeavesWindow
<1>13. CASE UnloggedLeaves
  <2>1. CeilingTypeOK' /\ unlogged' <= ceilingFaults'
    BY <1>0, <1>13 DEF CeilingTypeOK, UnloggedLeaves
  <2> QED  BY <1>11, <1>13, <2>1 DEF UnloggedLeaves
<1>14. CASE UNCHANGED ceilingVars
  <2>1. CeilingTypeOK'  BY <1>0, <1>14 DEF CeilingTypeOK, ceilingVars
  <2> QED  BY <1>0, <1>11, <1>14, <2>1 DEF ceilingVars
<1> QED
  BY <1>2, <1>3, <1>4, <1>4a, <1>5, <1>5a, <1>6, <1>7, <1>8, <1>9, <1>10, <1>12, <1>13, <1>14 DEF CeilingNext

LEMMA InvCeiling == CeilingInv => CeilingKept
<1> SUFFICES ASSUME CeilingInv  PROVE CeilingKept
  OBVIOUS
<1>0. /\ CeilingTypeOK /\ TallyOK /\ unlogged <= ceilingFaults /\ (crowded \/ Lonely)
      /\ unlogged \in Nat /\ ceilingFaults \in Nat /\ missed \in Nat /\ Ceiling \in Nat
  BY CeilingAssumption DEF CeilingInv, CeilingTypeOK
<1>1. ASSUME NEW r \in Publishers, NEW e \in Nat, Fits(r, e)
      PROVE  e + (IF r \in Unconfirmed THEN 1 ELSE 0) <= Ceiling + missed
  <2>1. CountOK(r) /\ Beyond(r) \in {0, 1} /\ publishers[r].used \in Nat /\ publishers[r].adds \in {0, 1}
    BY <1>0, BeyondIsSmall DEF TallyOK
  <2>2. e + Beyond(r) <= Ceiling + missed  BY <1>1 DEF Fits
  <2>3. CASE r \notin Unconfirmed
    BY <1>0, <2>1, <2>2, <2>3
  <2>4. CASE r \in Unconfirmed
    <3>1. Beyond(r) = 1 - publishers[r].adds /\ e + Beyond(r) <= publishers[r].used + missed
      BY <1>1, <2>4 DEF Fits, Beyond, Past, Busy, Unconfirmed
    <3>2. publishers[r].adds = 1 => publishers[r].used < Ceiling
      BY <2>1, <2>4 DEF CountOK, Busy, Unconfirmed
    <3>3. e + 1 <= Ceiling + missed
      <4>1. CASE publishers[r].adds = 0
        BY <1>0, <2>2, <3>1, <4>1
      <4>2. CASE publishers[r].adds = 1
        BY <1>0, <2>1, <3>1, <3>2, <4>2
      <4> QED  BY <2>1, <4>1, <4>2
    <3> QED  BY <2>4, <3>3
  <2> QED  BY <2>3, <2>4
<1>2. ASSUME NEW r \in Publishers  PROVE UpBy(r) <= Ceiling + missed
  BY <1>0, <1>1, EntriesFinite DEF TallyOK, CountOK, UpBy
<1>3. ASSUME ~crowded
      PROVE  Cardinality(Entries) + Cardinality(Unconfirmed) + unlogged <= Ceiling + ceilingFaults + missed
  <2> DEFINE e == Cardinality(Entries)
  <2>1. Lonely /\ e \in Nat /\ e <= Ceiling + missed  BY <1>0, <1>3, EntriesFinite DEF Lonely
  <2>2. e + Cardinality(Unconfirmed) <= Ceiling + missed /\ Cardinality(Unconfirmed) \in Nat
    <3>1. CASE Unconfirmed = {}
      <4>1. Cardinality(Unconfirmed) = 0  BY <3>1, FS_EmptySet
      <4> HIDE DEF e
      <4> QED  BY <2>1, <4>1
    <3>2. CASE Unconfirmed # {}
      <4>1. PICK r \in Publishers : r \in Unconfirmed  BY <3>2 DEF Unconfirmed
      <4>2. Unconfirmed = {r}  BY <2>1, <4>1 DEF Lonely, Single, Unconfirmed
      <4>3. Cardinality(Unconfirmed) = 1  BY <4>2, FS_Singleton
      <4>4. Fits(r, e)  BY <2>1 DEF Lonely, Aware
      <4> HIDE DEF e
      <4>5. e + 1 <= Ceiling + missed  BY <1>1, <2>1, <4>1, <4>4
      <4> QED  BY <4>3, <4>5
    <3> QED  BY <3>1, <3>2
  <2> DEFINE u == Cardinality(Unconfirmed)
  <2> HIDE DEF e, u
  <2>3. e + u <= Ceiling + missed /\ u \in Nat  BY <2>2 DEF u
  <2>4. e + u + unlogged <= Ceiling + ceilingFaults + missed  BY <1>0, <2>1, <2>3
  <2> QED  BY <2>4 DEF e, u
<1> QED  BY <1>2, <1>3 DEF CeilingKept

(* The ceiling holds: ticks and clicks that do not overlap keep to it, but for
   posts whose answer, entry or request was lost, or which a lookup missed, and
   each of those that do adds at most a ceiling's worth and the missed in any 24
   hours (processPublishQueue counts its own posts; publishPostNow counts before
   it claims). *)
THEOREM CeilingIsKept == CeilingSpec => []CeilingKept
<1>1. CeilingSpec => []CeilingInv  BY InitCeiling, StepCeiling, PTL DEF CeilingSpec
<1> QED  BY <1>1, InvCeiling, PTL
=============================================================================
