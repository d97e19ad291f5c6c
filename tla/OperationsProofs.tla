------------------------- MODULE OperationsProofs ---------------------------
(* Theorems about the small components that work for the agency's staff:
   SocialReplies, ConnectInvites, PublishingControls and EmailCampaigns, each
   for any number of requests and faults; and, last, the types of all the
   components of MCOperations (the proofs about ManagedDelivery, Drafting,
   CalendarAssist and PublishCeiling are in modules of their own). *)
EXTENDS MCOperations, DeliveryProofs, PublishCeilingProofs

(* SocialReplies.

   As long as no two requests were in flight at a time, a request still finds
   the reply as it found it, and what is up beyond the lost answers is either
   marked so or about to be. *)
OneClerk == \A c, d \in Serving : c = d
StillAsOpened ==
  \A c \in Clerks :
    /\ clerks[c] = "approve" => reply \in Awaiting
    /\ clerks[c] = "close" => reply \notin Final
    /\ clerks[c] \in {"post", "posted"} => reply = "approved"
MarkedOrAboutTo ==
  /\ posted <= 1 + replyFaults
  /\ posted > replyFaults => reply = "published" \/ \E c \in Clerks : clerks[c] = "posted"

ReplyInv == ReplyTypeOK /\ (replyRaced \/ (OneClerk /\ StillAsOpened /\ MarkedOrAboutTo))

LEMMA InitReply == ReplyInit => ReplyInv
<1> SUFFICES ASSUME ReplyInit  PROVE ReplyInv
  OBVIOUS
<1>1. ReplyTypeOK
  <2>1. clerks \in [Clerks -> {"idle", "approve", "close", "post", "posted"}]  BY DEF ReplyInit
  <2>2. posted = 0 /\ replyFaults = 0 /\ replyRaced = FALSE /\ reply \in Awaiting  BY DEF ReplyInit
  <2>3. {posted, replyFaults} \subseteq Nat  BY <2>2
  <2>4. reply \in Awaiting \cup Final \cup {"approved"}  BY <2>2
  <2> QED  BY <2>1, <2>2, <2>3, <2>4 DEF ReplyTypeOK
<1>2. \A c \in Clerks : clerks[c] = "idle"  BY DEF ReplyInit
<1>3. OneClerk /\ StillAsOpened  BY <1>2 DEF OneClerk, StillAsOpened, Serving
<1>4. MarkedOrAboutTo  BY DEF ReplyInit, MarkedOrAboutTo
<1> QED  BY <1>1, <1>3, <1>4 DEF ReplyInv

(* Opening the draft: the request is alone, or the others are on record.   *)
LEMMA OpeningKeeps ==
  ASSUME ReplyInv, NEW c \in Clerks, NEW pc \in {"approve", "close", "post"}, Opens(c, pc),
         pc = "approve" => reply \in Awaiting,
         pc = "close" => reply \notin Final,
         pc = "post" => reply = "approved"
  PROVE  ReplyInv'
<1>1. ReplyTypeOK'  BY DEF ReplyInv, ReplyTypeOK, Opens, ClerkTo
<1>2. ASSUME ~replyRaced'
      PROVE  OneClerk' /\ StillAsOpened' /\ MarkedOrAboutTo'
  <2>1. ~replyRaced /\ Serving = {} /\ clerks' = [clerks EXCEPT ![c] = pc]
        /\ UNCHANGED <<reply, posted, replyFaults>>
    BY <1>2 DEF Opens, ClerkTo
  <2>2. \A d \in Clerks : clerks[d] = "idle"  BY <2>1 DEF Serving
  <2>3. \A d \in Clerks : clerks'[d] = IF d = c THEN pc ELSE "idle"
    BY <2>1, <2>2 DEF ReplyInv, ReplyTypeOK
  <2>4. OneClerk'  BY <2>3 DEF OneClerk, Serving
  <2>5. StillAsOpened'  BY <2>1, <2>3 DEF StillAsOpened
  <2>6. MarkedOrAboutTo'  BY <2>1, <2>2, <2>3 DEF MarkedOrAboutTo, ReplyInv
  <2> QED  BY <2>4, <2>5, <2>6
<1> QED  BY <1>1, <1>2 DEF ReplyInv, ReplyTypeOK

LEMMA StepReply == ReplyInv /\ [ReplyNext]_replyVars => ReplyInv'
<1> SUFFICES ASSUME ReplyInv, [ReplyNext]_replyVars  PROVE ReplyInv'
  OBVIOUS
<1>0. ReplyTypeOK /\ (replyRaced \/ (OneClerk /\ StillAsOpened /\ MarkedOrAboutTo))  BY DEF ReplyInv
<1>1. ASSUME NEW c \in Clerks, BeginApprove(c)  PROVE ReplyInv'
  BY <1>1, OpeningKeeps DEF BeginApprove
<1>2. ASSUME NEW c \in Clerks, BeginAutoApprove(c)  PROVE ReplyInv'
  BY <1>2, OpeningKeeps DEF BeginAutoApprove, Awaiting
<1>3. ASSUME NEW c \in Clerks, BeginClose(c)  PROVE ReplyInv'
  BY <1>3, OpeningKeeps DEF BeginClose
<1>4. ASSUME NEW c \in Clerks, BeginPublish(c)  PROVE ReplyInv'
  BY <1>4, OpeningKeeps DEF BeginPublish
<1>5. ASSUME NEW c \in Clerks, Approve(c) \/ Close(c) \/ GiveUp(c)  PROVE ReplyInv'
  <2>1. ReplyTypeOK' /\ clerks' = [clerks EXCEPT ![c] = "idle"] /\ c \in Serving
        /\ UNCHANGED <<posted, replyFaults, replyRaced>>
    BY <1>0, <1>5 DEF ReplyTypeOK, Approve, Close, GiveUp, ClerkTo, Serving, Awaiting, Final
  <2>2. ASSUME ~replyRaced  PROVE OneClerk' /\ StillAsOpened' /\ MarkedOrAboutTo'
    <3>1. \A d \in Clerks : clerks'[d] = "idle"
      BY <1>0, <2>1, <2>2 DEF OneClerk, Serving, ReplyTypeOK
    <3>2. clerks[c] # "posted" /\ (\A d \in Clerks : clerks[d] # "posted")
      BY <1>0, <1>5, <2>1, <2>2 DEF OneClerk, Serving, Approve, Close, GiveUp
    <3>3. posted <= replyFaults \/ reply = "published"
      BY <1>0, <2>2, <3>2 DEF MarkedOrAboutTo, ReplyTypeOK
    <3>4. posted <= replyFaults \/ reply' = "published"
      BY <1>0, <1>5, <2>2, <3>3 DEF StillAsOpened, Approve, Close, GiveUp, Awaiting, Final
    <3> QED  BY <1>0, <2>1, <2>2, <3>1, <3>4 DEF OneClerk, Serving, StillAsOpened, MarkedOrAboutTo, ReplyTypeOK
  <2> QED  BY <2>1, <2>2 DEF ReplyInv
<1>6. ASSUME NEW c \in Clerks, Post(c)  PROVE ReplyInv'
  <2>1. ReplyTypeOK'  BY <1>0, <1>6 DEF ReplyTypeOK, Post, ClerkTo
  <2>2. ASSUME ~replyRaced  PROVE OneClerk' /\ StillAsOpened' /\ MarkedOrAboutTo'
    <3>1. reply = "approved" /\ \A d \in Clerks : clerks[d] # "posted"
      BY <1>0, <1>6, <2>2 DEF StillAsOpened, OneClerk, Serving, Post
    <3>2. posted <= replyFaults  BY <1>0, <2>2, <3>1 DEF MarkedOrAboutTo, ReplyTypeOK
    <3>3. \A d \in Clerks : clerks'[d] = IF d = c THEN "posted" ELSE clerks[d]
      BY <1>0, <1>6 DEF Post, ClerkTo, ReplyTypeOK
    <3>4. reply' = reply /\ posted' = posted + 1 /\ replyFaults' = replyFaults  BY <1>6 DEF Post
    <3>5. OneClerk'  BY <1>0, <1>6, <2>2, <3>3 DEF OneClerk, Serving, Post
    <3>6. StillAsOpened'  BY <1>0, <2>2, <3>1, <3>3, <3>4 DEF StillAsOpened
    <3>7. MarkedOrAboutTo'  BY <1>0, <3>2, <3>3, <3>4 DEF MarkedOrAboutTo, ReplyTypeOK
    <3> QED  BY <3>5, <3>6, <3>7
  <2> QED  BY <1>6, <2>1, <2>2 DEF ReplyInv, Post
<1>7. ASSUME NEW c \in Clerks, MarkPublished(c) \/ LoseAnswer(c)  PROVE ReplyInv'
  <2>1. ReplyTypeOK' /\ clerks' = [clerks EXCEPT ![c] = "idle"] /\ c \in Serving
        /\ posted' = posted /\ replyRaced' = replyRaced
    BY <1>0, <1>7 DEF ReplyTypeOK, MarkPublished, LoseAnswer, ClerkTo, Serving, Final
  <2>2. ASSUME ~replyRaced  PROVE OneClerk' /\ StillAsOpened' /\ MarkedOrAboutTo'
    <3>1. \A d \in Clerks : clerks'[d] = "idle"
      BY <1>0, <2>1, <2>2 DEF OneClerk, Serving, ReplyTypeOK
    <3>2. posted <= 1 + replyFaults  BY <1>0, <2>2 DEF MarkedOrAboutTo
    <3>3. \/ reply' = "published" /\ replyFaults' = replyFaults
          \/ replyFaults' = replyFaults + 1
      BY <1>7 DEF MarkPublished, LoseAnswer
    <3> QED  BY <1>0, <2>1, <3>1, <3>2, <3>3 DEF OneClerk, Serving, StillAsOpened, MarkedOrAboutTo, ReplyTypeOK
  <2> QED  BY <2>1, <2>2 DEF ReplyInv
<1>8. CASE UNCHANGED replyVars
  BY <1>0, <1>8 DEF replyVars, ReplyInv, ReplyTypeOK, OneClerk, StillAsOpened, MarkedOrAboutTo, Serving
<1> QED  BY <1>1, <1>2, <1>3, <1>4, <1>5, <1>6, <1>7, <1>8 DEF ReplyNext

(* However a reply is approved, closed, posted and retried (social/actions.ts,
   automation.ts, publishSocialReply), it is posted once and once more for each
   lost answer, as long as requests do not overlap. *)
THEOREM ReplyOnce == ReplySpec => []RepliedOnce
<1>1. ReplyInv => RepliedOnce  BY DEF ReplyInv, RepliedOnce, MarkedOrAboutTo
<1> QED  BY <1>1, InitReply, StepReply, PTL DEF ReplySpec

-----------------------------------------------------------------------------
(* ConnectInvites.

   As long as no two requests were in flight at a time, a request finds the
   invitation pending until it is over; and an integration beyond those of
   killed requests has its invitation completed, about to be, or expired under
   the hands of the guest. *)
OneGuest == \A g, h \in Guests : guests[g] # "idle" /\ guests[h] # "idle" => g = h
StillPending == \A g \in Guests : guests[g] # "idle" => invite = "pending"
Known ==
  \/ invite = "completed"
  \/ invite = "expired" /\ expiredLate
  \/ \E g \in Guests : guests[g] \in {"complete", "stamp"}
Accounted == integrations <= inviteFaults \/ (integrations <= 1 + inviteFaults /\ Known)

GuestType == guests \in [Guests -> {"idle", "create", "complete", "stamp", "expire", "revoke"}]
InviteInv == InviteTypeOK /\ (inviteRaced \/ (OneGuest /\ StillPending /\ Accounted))

LEMMA InitInvite == InviteInit => InviteInv
<1> SUFFICES ASSUME InviteInit  PROVE InviteInv
  OBVIOUS
<1>1. \A g \in Guests : guests[g] = "idle"  BY DEF InviteInit
<1>2. OneGuest /\ StillPending  BY <1>1 DEF OneGuest, StillPending
<1>3. Accounted  BY DEF InviteInit, Accounted
<1>4. GuestType  BY DEF InviteInit, GuestType
<1>5. {overdue, inviteRaced, expiredLate} \subseteq BOOLEAN  BY DEF InviteInit
<1>6. {integrations, inviteFaults} \subseteq Nat  BY DEF InviteInit
<1> QED  BY <1>2, <1>3, <1>4, <1>5, <1>6 DEF InviteInv, InviteInit, InviteTypeOK, GuestType

(* A visit finds the invitation pending, alone or on record.               *)
LEMMA VisitKeeps ==
  ASSUME InviteInv, NEW g \in Guests, NEW pc \in {"create", "expire", "revoke"}, Visit(g, pc)
  PROVE  InviteInv'
<1>1. InviteTypeOK'  BY DEF InviteInv, InviteTypeOK, Visit, GuestTo
<1>2. ASSUME ~inviteRaced'  PROVE OneGuest' /\ StillPending' /\ Accounted'
  <2>1. /\ ~inviteRaced /\ guests' = [guests EXCEPT ![g] = pc] /\ invite = "pending"
        /\ \A h \in Guests : guests[h] = "idle"
        /\ UNCHANGED <<invite, integrations, inviteFaults>>
    BY <1>2 DEF Visit, GuestTo
  <2>2. \A h \in Guests : guests'[h] = IF h = g THEN pc ELSE "idle"
    BY <2>1 DEF InviteInv, InviteTypeOK
  <2>3. OneGuest' /\ StillPending'  BY <2>1, <2>2 DEF OneGuest, StillPending
  <2>4. Accounted'  BY <2>1 DEF InviteInv, Accounted, Known
  <2> QED  BY <2>3, <2>4
<1> QED  BY <1>1, <1>2 DEF InviteInv, InviteTypeOK

LEMMA StepInvite == InviteInv /\ [InviteNext]_inviteVars => InviteInv'
<1> SUFFICES ASSUME InviteInv, [InviteNext]_inviteVars  PROVE InviteInv'
  OBVIOUS
<1>0. InviteTypeOK /\ (inviteRaced \/ (OneGuest /\ StillPending /\ Accounted))  BY DEF InviteInv
<1>1. ASSUME NEW g \in Guests, BeginConnect(g) \/ BeginExpire(g) \/ BeginRevoke(g)  PROVE InviteInv'
  BY <1>1, VisitKeeps DEF BeginConnect, BeginExpire, BeginRevoke
<1>2. ASSUME NEW g \in Guests, CreateIntegration(g)  PROVE InviteInv'
  <2>1. InviteTypeOK'  BY <1>0, <1>2 DEF InviteTypeOK, CreateIntegration, GuestTo
  <2>2. ASSUME ~inviteRaced  PROVE OneGuest' /\ StillPending' /\ Accounted'
    <3>1. \A h \in Guests : guests'[h] = IF h = g THEN "complete" ELSE guests[h]
      BY <1>0, <1>2 DEF InviteTypeOK, CreateIntegration, GuestTo
    <3>2. guests[g] = "create" /\ integrations' = integrations + 1
          /\ UNCHANGED <<invite, inviteFaults, expiredLate>>
      BY <1>2 DEF CreateIntegration
    <3>3. invite = "pending" /\ \A h \in Guests : h # g => guests[h] = "idle"
      BY <1>0, <2>2, <3>2 DEF OneGuest, StillPending
    <3>4. ~Known  BY <3>2, <3>3 DEF Known
    <3>5. integrations <= inviteFaults  BY <1>0, <2>2, <3>4 DEF Accounted
    <3>6. Known'  BY <3>1 DEF Known
    <3> QED  BY <1>0, <2>2, <3>1, <3>2, <3>3, <3>5, <3>6 DEF OneGuest, StillPending, Accounted, InviteTypeOK
  <2> QED  BY <1>2, <2>1, <2>2 DEF InviteInv, CreateIntegration
<1>3. ASSUME NEW g \in Guests, CompleteInvite(g)  PROVE InviteInv'
  <2>1. InviteTypeOK'  BY <1>0, <1>3 DEF InviteTypeOK, CompleteInvite, GuestTo
  <2>2. ASSUME ~inviteRaced  PROVE OneGuest' /\ StillPending' /\ Accounted'
    <3>1. guests[g] = "complete" /\ UNCHANGED <<integrations, inviteFaults>>  BY <1>3 DEF CompleteInvite
    <3>2. invite = "pending" /\ \A h \in Guests : h # g => guests[h] = "idle"
      BY <1>0, <2>2, <3>1 DEF OneGuest, StillPending
    <3>3. integrations <= 1 + inviteFaults  BY <1>0, <2>2 DEF Accounted, InviteTypeOK
    <3>4. \A h \in Guests : guests'[h] = IF h = g THEN IF overdue THEN "idle" ELSE "stamp" ELSE "idle"
      BY <1>0, <1>3, <3>2 DEF InviteTypeOK, CompleteInvite, GuestTo
    <3>5. overdue => invite' = "expired" /\ expiredLate'  BY <1>3, <3>2 DEF CompleteInvite
    <3>6. ~overdue => invite' = "pending"  BY <1>3, <3>2 DEF CompleteInvite
    <3>7. Known'  BY <3>4, <3>5, <3>6 DEF Known
    <3> QED  BY <3>1, <3>3, <3>4, <3>5, <3>6, <3>7 DEF OneGuest, StillPending, Accounted
  <2> QED  BY <1>3, <2>1, <2>2 DEF InviteInv, CompleteInvite
<1>4. ASSUME NEW g \in Guests, StampInvite(g) \/ WriteStatus(g) \/ KillGuest(g)  PROVE InviteInv'
  <2>1. InviteTypeOK' /\ UNCHANGED <<integrations, inviteRaced, expiredLate>>
        /\ guests' = [guests EXCEPT ![g] = "idle"] /\ guests[g] # "idle"
    BY <1>0, <1>4 DEF InviteTypeOK, StampInvite, WriteStatus, KillGuest, GuestTo
  <2>2. ASSUME ~inviteRaced  PROVE OneGuest' /\ StillPending' /\ Accounted'
    <3>1. \A h \in Guests : guests'[h] = "idle"
      BY <1>0, <2>1, <2>2 DEF InviteTypeOK, OneGuest
    <3>2. invite = "pending" /\ \A h \in Guests : h # g => guests[h] = "idle"
      BY <1>0, <2>1, <2>2 DEF OneGuest, StillPending
    <3>3. integrations <= 1 + inviteFaults  BY <1>0, <2>2 DEF Accounted, InviteTypeOK
    <3>4. CASE StampInvite(g)
      BY <2>1, <3>1, <3>3, <3>4 DEF StampInvite, OneGuest, StillPending, Accounted, Known
    <3>5. CASE WriteStatus(g)
      <4>1. ~Known  BY <3>2, <3>5 DEF WriteStatus, Known
      <4>2. integrations <= inviteFaults  BY <1>0, <2>2, <4>1 DEF Accounted
      <4> QED  BY <2>1, <3>1, <3>5, <4>2 DEF WriteStatus, OneGuest, StillPending, Accounted
    <3>6. CASE KillGuest(g)
      BY <1>0, <2>1, <3>1, <3>3, <3>6 DEF KillGuest, OneGuest, StillPending, Accounted, InviteTypeOK
    <3> QED  BY <1>4, <3>4, <3>5, <3>6
  <2> QED  BY <2>1, <2>2 DEF InviteInv
<1>5. CASE Expires
  BY <1>0, <1>5 DEF Expires, InviteInv, InviteTypeOK, OneGuest, StillPending, Accounted, Known
<1>6. CASE UNCHANGED inviteVars
  BY <1>0, <1>6 DEF inviteVars, InviteInv, InviteTypeOK, OneGuest, StillPending, Accounted, Known
<1> QED  BY <1>1, <1>2, <1>3, <1>4, <1>5, <1>6 DEF InviteNext

(* An invitation connects one account and one more for each killed request, and
   none beyond those once it was revoked or found expired, as long as requests
   do not overlap (completeConnectInvite, connect/[token]/actions.ts). *)
THEOREM InviteOnce == InviteSpec => []InviteUsedOnce
<1>1. InviteInv => InviteUsedOnce
  BY DEF InviteInv, InviteTypeOK, InviteUsedOnce, Accounted, Known, StillPending
<1> QED  BY <1>1, InitInvite, StepInvite, PTL DEF InviteSpec

-----------------------------------------------------------------------------
(* PublishingControls.

   Until requests overlap or a call fails unseen, one request at most is in
   flight, and what it read is still what the row holds. *)
OneAdmin == \A a, b \in Admins : admins[a].pc # "idle" /\ admins[b].pc # "idle" => a = b
ReadIsCurrent ==
  \A a \in Admins :
    /\ admins[a].pc # "idle" => admins[a].list = Patch(controls, admins[a].switch, admins[a].on)
    /\ admins[a].pc = "upsert" => admins[a].row = controls

AdminType ==
  admins \in [Admins -> [pc : {"idle", "fetch", "upsert"}, switch : Switches, on : BOOLEAN,
                         list : SUBSET Switches, row : SUBSET Switches]]
ControlInv ==
  /\ ControlTypeOK /\ AdminType
  /\ controlHarm \/ (OneAdmin /\ ReadIsCurrent /\ controls = asked)

(* What is read of the row, and what is computed from it, are switches.    *)
LEMMA PatchType ==
  ASSUME NEW row \in SUBSET Switches, NEW s \in Switches, NEW on \in BOOLEAN
  PROVE  Patch(row, s, on) \in SUBSET Switches
BY DEF Patch, Set, Column, Switches

(* The row with its column replaced by the patch is the row with the one
   switch set: nothing else of it changes. *)
LEMMA PatchSets ==
  ASSUME NEW row \in SUBSET Switches, NEW s \in Switches, NEW on \in BOOLEAN
  PROVE  (row \ Column(s)) \cup Patch(row, s, on) = Set(row, s, on)
<1>1. s \in Column(s)  BY DEF Column, Switches
<1> QED  BY <1>1 DEF Patch, Set

LEMMA InitControls == ControlInit => ControlInv
<1> SUFFICES ASSUME ControlInit  PROVE ControlInv
  OBVIOUS
<1>1. AdminType  BY DEF ControlInit, AdminType, NoChange, Switches
<1>2. \A a \in Admins : admins[a] = NoChange /\ NoChange.pc = "idle"  BY DEF ControlInit, NoChange
<1>3. OneAdmin /\ ReadIsCurrent  BY <1>2 DEF OneAdmin, ReadIsCurrent
<1>4. ControlTypeOK  BY <1>1 DEF ControlInit, ControlTypeOK, AdminType
<1> QED  BY <1>1, <1>3, <1>4 DEF ControlInit, ControlInv

LEMMA StepControls == ControlInv /\ [ControlNext]_controlVars => ControlInv'
<1> SUFFICES ASSUME ControlInv, [ControlNext]_controlVars  PROVE ControlInv'
  OBVIOUS
<1>0. ControlTypeOK /\ AdminType /\ (controlHarm \/ (OneAdmin /\ ReadIsCurrent /\ controls = asked))
  BY DEF ControlInv
<1>r. \A failed \in BOOLEAN : Reading(failed) \in SUBSET Switches
  BY <1>0 DEF Reading, ControlTypeOK
<1>f. \A failed \in BOOLEAN : Fault(failed) => controlFaults' \in Nat
  BY <1>0 DEF Fault, ControlTypeOK
<1>t. ASSUME AdminType', controls' \in SUBSET Switches, asked' \in SUBSET Switches,
             controlFaults' \in Nat, controlHarm' \in BOOLEAN
      PROVE  ControlTypeOK' /\ AdminType'
  BY <1>t DEF ControlTypeOK, AdminType
<1>n. NoChange \in [pc : {"idle", "fetch", "upsert"}, switch : Switches, on : BOOLEAN,
                    list : SUBSET Switches, row : SUBSET Switches]
  BY DEF NoChange, Switches
<1>1. ASSUME NEW a \in Admins, NEW s \in Switches, NEW on \in BOOLEAN, NEW failed \in BOOLEAN,
             BeginChange(a, s, on, failed)
      PROVE  ControlInv'
  <2> DEFINE k == [pc |-> "fetch", switch |-> s, on |-> on,
                   list |-> Patch(Reading(failed), s, on), row |-> {}]
  <2>1. admins' = [admins EXCEPT ![a] = k] /\ admins[a].pc = "idle" /\ UNCHANGED <<controls, asked>>
        /\ controlHarm' = (controlHarm \/ failed \/ \E b \in Admins : admins[b].pc # "idle")
    BY <1>1 DEF BeginChange
  <2>2. k \in [pc : {"idle", "fetch", "upsert"}, switch : Switches, on : BOOLEAN,
               list : SUBSET Switches, row : SUBSET Switches]
    BY <1>r, PatchType
  <2>3. ControlTypeOK' /\ AdminType'
    <3>1. AdminType'
      <4> HIDE DEF k
      <4> QED  BY <1>0, <2>1, <2>2 DEF AdminType
    <3>2. controlFaults' \in Nat  BY <1>1, <1>f DEF BeginChange
    <3>3. controlHarm' \in BOOLEAN  BY <1>0, <2>1 DEF ControlTypeOK
    <3> QED  BY <1>0, <1>t, <2>1, <3>1, <3>2, <3>3 DEF ControlTypeOK
  <2>4. ASSUME ~controlHarm'  PROVE OneAdmin' /\ ReadIsCurrent' /\ controls' = asked'
    <3>1. ~controlHarm /\ ~failed /\ \A b \in Admins : admins[b].pc = "idle"  BY <2>1, <2>4
    <3>2. k.list = Patch(controls, s, on)  BY <3>1 DEF Reading
    <3>3. \A b \in Admins : admins'[b] = IF b = a THEN k ELSE admins[b]
      <4> HIDE DEF k
      <4> QED  BY <1>0, <2>1 DEF AdminType
    <3>4. k.pc = "fetch" /\ k.switch = s /\ k.on = on  OBVIOUS
    <3> HIDE DEF k
    <3>5. OneAdmin'  BY <3>1, <3>3 DEF OneAdmin
    <3>6. \A b \in Admins : admins'[b].pc # "idle" => b = a  BY <3>1, <3>3
    <3>7. ReadIsCurrent'
      <4> SUFFICES ASSUME NEW b \in Admins, admins'[b].pc # "idle"
                   PROVE  /\ admins'[b].list = Patch(controls', admins'[b].switch, admins'[b].on)
                          /\ admins'[b].pc = "upsert" => admins'[b].row = controls'
        BY <2>1 DEF ReadIsCurrent, Patch, Set, Column
      <4>1. admins'[b] = k  BY <3>3, <3>6
      <4> QED  BY <2>1, <3>2, <3>4, <4>1
    <3> QED  BY <1>0, <2>1, <3>1, <3>5, <3>7
  <2> QED  BY <2>3, <2>4 DEF ControlInv
<1>2. ASSUME NEW a \in Admins, NEW failed \in BOOLEAN, FetchRow(a, failed)  PROVE ControlInv'
  <2> DEFINE k == [admins[a] EXCEPT !.pc = "upsert", !.row = Reading(failed)]
  <2>1. admins' = [admins EXCEPT ![a] = k] /\ admins[a].pc = "fetch" /\ UNCHANGED <<controls, asked>>
        /\ controlHarm' = (controlHarm \/ failed)
    BY <1>2 DEF FetchRow
  <2>2. k \in [pc : {"idle", "fetch", "upsert"}, switch : Switches, on : BOOLEAN,
               list : SUBSET Switches, row : SUBSET Switches]
        /\ k.pc = "upsert" /\ k.row = Reading(failed) /\ k.list = admins[a].list
        /\ k.switch = admins[a].switch /\ k.on = admins[a].on
    BY <1>0, <1>r DEF AdminType
  <2> HIDE DEF k
  <2>3. \A b \in Admins : admins'[b] = IF b = a THEN k ELSE admins[b]  BY <1>0, <2>1 DEF AdminType
  <2>4. ControlTypeOK' /\ AdminType'
    <3>1. AdminType'  BY <1>0, <2>1, <2>2 DEF AdminType
    <3>2. controlFaults' \in Nat  BY <1>2, <1>f DEF FetchRow
    <3>3. controlHarm' \in BOOLEAN  BY <1>0, <2>1 DEF ControlTypeOK
    <3> QED  BY <1>0, <1>t, <2>1, <3>1, <3>2, <3>3 DEF ControlTypeOK
  <2>5. ASSUME ~controlHarm'  PROVE OneAdmin' /\ ReadIsCurrent' /\ controls' = asked'
    <3>1. ~controlHarm /\ ~failed /\ OneAdmin /\ ReadIsCurrent /\ controls = asked  BY <1>0, <2>1, <2>5
    <3>2. k.row = controls  BY <2>2, <3>1 DEF Reading
    <3>3. OneAdmin'  BY <2>1, <2>3, <3>1 DEF OneAdmin
    <3>4. ReadIsCurrent'
      <4> SUFFICES ASSUME NEW b \in Admins
                   PROVE  /\ admins'[b].pc # "idle" =>
                               admins'[b].list = Patch(controls, admins'[b].switch, admins'[b].on)
                          /\ admins'[b].pc = "upsert" => admins'[b].row = controls
        BY <2>1 DEF ReadIsCurrent, Patch, Set, Column
      <4>1. CASE b = a  BY <2>1, <2>2, <2>3, <3>1, <3>2, <4>1 DEF ReadIsCurrent
      <4>2. CASE b # a  BY <2>3, <3>1, <4>2 DEF ReadIsCurrent
      <4> QED  BY <4>1, <4>2
    <3> QED  BY <2>1, <3>1, <3>3, <3>4
  <2> QED  BY <2>4, <2>5 DEF ControlInv
<1>3. ASSUME NEW a \in Admins, NEW failed \in BOOLEAN, UpsertRow(a, failed)  PROVE ControlInv'
  <2> DEFINE s == admins[a].switch
             on == admins[a].on
  <2>1. /\ admins' = [admins EXCEPT ![a] = NoChange] /\ admins[a].pc = "upsert"
        /\ controlHarm' = (controlHarm \/ failed)
        /\ controls' = IF failed THEN controls
                       ELSE (admins[a].row \ Column(s)) \cup admins[a].list
        /\ asked' = Set(asked, s, on)
    BY <1>3 DEF UpsertRow
  <2>2. s \in Switches /\ on \in BOOLEAN /\ admins[a].row \in SUBSET Switches
        /\ admins[a].list \in SUBSET Switches
    BY <1>0 DEF AdminType
  <2>3. \A b \in Admins : admins'[b] = IF b = a THEN NoChange ELSE admins[b]
    BY <1>0, <2>1 DEF AdminType
  <2>4. ControlTypeOK' /\ AdminType'
    <3>1. AdminType'  BY <1>0, <1>n, <2>1 DEF AdminType
    <3>2. controlFaults' \in Nat  BY <1>3, <1>f DEF UpsertRow
    <3>3. controlHarm' \in BOOLEAN  BY <1>0, <2>1 DEF ControlTypeOK
    <3>4. controls' \in SUBSET Switches  BY <1>0, <2>1, <2>2 DEF ControlTypeOK
    <3>5. asked' \in SUBSET Switches  BY <1>0, <2>1, <2>2 DEF ControlTypeOK, Set
    <3> QED  BY <1>t, <3>1, <3>2, <3>3, <3>4, <3>5
  <2>5. ASSUME ~controlHarm'  PROVE OneAdmin' /\ ReadIsCurrent' /\ controls' = asked'
    <3>1. ~controlHarm /\ ~failed /\ OneAdmin /\ ReadIsCurrent /\ controls = asked  BY <1>0, <2>1, <2>5
    <3>2. admins[a].row = controls /\ admins[a].list = Patch(controls, s, on)
      BY <2>1, <3>1 DEF ReadIsCurrent
    <3>3. controls \in SUBSET Switches  BY <1>0 DEF ControlTypeOK
    <3> HIDE DEF s, on
    <3>4. controls' = Set(controls, s, on)  BY <2>1, <2>2, <3>1, <3>2, <3>3, PatchSets
    <3>5. \A b \in Admins : admins'[b].pc = "idle"
      BY <2>1, <2>3, <3>1 DEF OneAdmin, NoChange
    <3> QED  BY <2>1, <3>1, <3>4, <3>5 DEF OneAdmin, ReadIsCurrent
  <2> QED  BY <2>4, <2>5 DEF ControlInv
<1>4. ASSUME NEW a \in Admins, KillAdmin(a)  PROVE ControlInv'
  <2>1. admins' = [admins EXCEPT ![a] = NoChange] /\ UNCHANGED <<controls, asked, controlHarm>>
    BY <1>4 DEF KillAdmin
  <2>2. \A b \in Admins : admins'[b] = IF b = a THEN NoChange ELSE admins[b]
    BY <1>0, <2>1 DEF AdminType
  <2>3. ControlTypeOK' /\ AdminType'
    <3>1. AdminType'  BY <1>0, <1>n, <2>1 DEF AdminType
    <3>2. controlFaults' \in Nat  BY <1>4, <1>f DEF KillAdmin
    <3> QED  BY <1>0, <1>t, <2>1, <3>1, <3>2 DEF ControlTypeOK
  <2>4. OneAdmin => OneAdmin'  BY <2>2 DEF OneAdmin, NoChange
  <2>5. ASSUME ReadIsCurrent  PROVE ReadIsCurrent'
    <3> SUFFICES ASSUME NEW b \in Admins, admins'[b].pc # "idle"
                 PROVE  /\ admins'[b].list = Patch(controls, admins'[b].switch, admins'[b].on)
                        /\ admins'[b].pc = "upsert" => admins'[b].row = controls
      BY <2>1 DEF ReadIsCurrent, Patch, Set, Column
    <3>1. admins'[b] = admins[b]  BY <2>2 DEF NoChange
    <3> QED  BY <2>5, <3>1 DEF ReadIsCurrent
  <2> QED  BY <1>0, <2>1, <2>3, <2>4, <2>5 DEF ControlInv
<1>5. CASE UNCHANGED controlVars
  BY <1>0, <1>5 DEF controlVars, ControlInv, ControlTypeOK, AdminType, OneAdmin, ReadIsCurrent,
     Patch, Set, Column
<1> QED  BY <1>1, <1>2, <1>3, <1>4, <1>5 DEF ControlNext

(* Through any sequence of freezes, thaws and switches, killed ones included,
   the row holds what was asked for, until requests overlap or a database call
   fails unseen (publishing/actions.ts, updatePublishingControls). *)
THEOREM ControlsAsAsked == ControlSpec => []FreezeStands
<1>1. ControlInv => FreezeStands  BY DEF ControlInv, FreezeStands
<1> QED  BY <1>1, InitControls, StepControls, PTL DEF ControlSpec

-----------------------------------------------------------------------------
(* EmailCampaigns.

   As long as no two clicks were at it at a time: a subscriber whose mail is
   still to come, in this click or in one after it, has been sent no more than
   the losses account for. *)
OneSender == \A p, q \in Senders : senders[p].pc # "idle" /\ senders[q].pc # "idle" => p = q
ToCome(r) ==
  \/ ~campaignSent /\ \A s \in Senders : senders[s].pc = "idle"
  \/ \E s \in Senders : \/ senders[s].pc \in {"list", "batch"}
                        \/ senders[s].pc = "each" /\ r \in senders[s].to
Delivered == \A r \in Subscribers : mailed[r] <= 1 + mailFaults /\ (ToCome(r) => mailed[r] <= mailFaults)

SenderType ==
  senders \in [Senders -> [pc : {"idle", "list", "batch", "each", "mark"}, to : SUBSET Subscribers]]
MailInv == MailTypeOK /\ SenderType /\ (mailRaced \/ (OneSender /\ Delivered))

LEMMA InitMail == MailInit => MailInv
<1> SUFFICES ASSUME MailInit  PROVE MailInv
  OBVIOUS
<1>1. \A s \in Senders : senders[s] = [pc |-> "idle", to |-> {}]  BY DEF MailInit, Unclicked
<1>2. SenderType  BY DEF MailInit, Unclicked, SenderType
<1>3. MailTypeOK
  <2>1. campaignSent \in BOOLEAN /\ mailRaced \in BOOLEAN /\ mailFaults \in Nat /\ unsubscribed = {}
    BY DEF MailInit
  <2>2. mailed \in [Subscribers -> Nat]  BY DEF MailInit
  <2> QED  BY <1>1, <2>1, <2>2 DEF MailTypeOK
<1>4. OneSender  BY <1>1 DEF OneSender
<1>5. Delivered  BY DEF MailInit, Delivered
<1> QED  BY <1>2, <1>3, <1>4, <1>5 DEF MailInv

(* What a click that moves on to pc, with the recipients to, owes the invariant. *)
Settled(s, pc, to) ==
  /\ ~mailRaced /\ \A q \in Senders : q # s => senders[q].pc = "idle"
  /\ \A r \in Subscribers :
       /\ mailed'[r] <= 1 + mailFaults'
       /\ \/ pc = "idle" /\ ~campaignSent'
          \/ pc \in {"list", "batch"}
          \/ pc = "each" /\ r \in to
          => mailed'[r] <= mailFaults'

(* A click moves on, having sent to some at most.                          *)
LEMMA SenderKeeps ==
  ASSUME MailInv, NEW s \in Senders, NEW pc \in {"idle", "list", "batch", "each", "mark"},
         NEW to \in SUBSET Subscribers, SenderTo(s, pc, to), mailed' \in [Subscribers -> Nat],
         campaignSent' \in BOOLEAN, mailFaults' \in Nat, mailRaced' \in BOOLEAN,
         UNCHANGED unsubscribed, ~mailRaced' => Settled(s, pc, to)
  PROVE  MailInv'
<1>1. SenderType' /\ \A q \in Senders : senders'[q] = IF q = s THEN [pc |-> pc, to |-> to] ELSE senders[q]
  BY DEF MailInv, SenderType, SenderTo
<1>2. MailTypeOK'
  <2>1. \A q \in Senders : senders'[q].pc \in {"idle", "list", "batch", "each", "mark"}
                           /\ senders'[q].to \subseteq Subscribers
    BY <1>1 DEF SenderType
  <2> QED  BY <2>1 DEF MailInv, MailTypeOK
<1>3. ASSUME ~mailRaced'  PROVE OneSender' /\ Delivered'
  <2>1. \A q \in Senders : q # s => senders'[q].pc = "idle"  BY <1>1, <1>3 DEF Settled
  <2>2. senders'[s].pc = pc /\ senders'[s].to = to  BY <1>1
  <2>3. OneSender'  BY <2>1 DEF OneSender
  <2>4. \A r \in Subscribers : ToCome(r)' => \/ pc = "idle" /\ ~campaignSent'
                                             \/ pc \in {"list", "batch"}
                                             \/ pc = "each" /\ r \in to
    BY <2>1, <2>2 DEF ToCome
  <2>5. Delivered'  BY <1>3, <2>4 DEF Delivered, Settled
  <2> QED  BY <2>3, <2>5
<1> QED  BY <1>1, <1>2, <1>3 DEF MailInv

LEMMA StepMail == MailInv /\ [MailNext]_mailVars => MailInv'
<1> SUFFICES ASSUME MailInv, [MailNext]_mailVars  PROVE MailInv'
  OBVIOUS
<1>0. /\ SenderType /\ {campaignSent, mailRaced} \subseteq BOOLEAN /\ mailFaults \in Nat
      /\ unsubscribed \subseteq Subscribers /\ mailed \in [Subscribers -> Nat]
      /\ \A s \in Senders : senders[s].to \in SUBSET Subscribers
      /\ ~mailRaced => OneSender /\ Delivered
  BY DEF MailInv, MailTypeOK
<1>1. \A r \in Subscribers : mailed[r] \in Nat  BY <1>0
<1>2. ASSUME NEW set \in SUBSET Subscribers, MailTo(set)
      PROVE  /\ mailed' \in [Subscribers -> Nat]
             /\ \A r \in Subscribers : mailed'[r] = mailed[r] + (IF r \in set THEN 1 ELSE 0)
  BY <1>0, <1>2 DEF MailTo
<1>3. UNCHANGED mailed =>
        /\ mailed' \in [Subscribers -> Nat]
        /\ {} \in SUBSET Subscribers
        /\ \A r \in Subscribers : mailed'[r] = mailed[r] + (IF r \in {} THEN 1 ELSE 0)
  BY <1>0
<1>4. ASSUME NEW s \in Senders, senders[s].pc # "idle", ~mailRaced
      PROVE  \A q \in Senders : q # s => senders[q].pc = "idle"
  BY <1>0, <1>4 DEF OneSender
<1>5. ASSUME NEW s \in Senders, BeginSend(s)  PROVE MailInv'
  <2>1. ~mailRaced' => /\ ~mailRaced /\ \A q \in Senders : senders[q].pc = "idle"
                       /\ \A r \in Subscribers : mailed[r] <= mailFaults
    BY <1>0, <1>5 DEF BeginSend, Delivered, ToCome
  <2>2. SenderTo(s, "list", {}) /\ UNCHANGED <<campaignSent, unsubscribed, mailed, mailFaults>> /\ mailRaced' \in BOOLEAN
    BY <1>0, <1>5 DEF BeginSend
  <2>3. \A r \in Subscribers : mailed[r] <= mailFaults => mailed[r] <= 1 + mailFaults  BY <1>0, <1>1
  <2>4. ~mailRaced' => Settled(s, "list", {})  BY <2>1, <2>2, <2>3 DEF Settled
  <2> QED  BY <1>0, <2>2, <2>4, SenderKeeps
<1>6. ASSUME NEW s \in Senders, ListRecipients(s)  PROVE MailInv'
  <2>1. ~mailRaced => \A r \in Subscribers : mailed[r] <= mailFaults /\ mailed[r] <= 1 + mailFaults
    <3>1. senders[s].pc = "list"  BY <1>6 DEF ListRecipients
    <3> QED  BY <1>0, <3>1 DEF Delivered, ToCome
  <2>2. PICK pc \in {"idle", "batch"}, to \in SUBSET Subscribers : SenderTo(s, pc, to)
    <3>1. CASE SenderTo(s, "idle", {})  BY <3>1
    <3>2. CASE SenderTo(s, "batch", Subscribers \ unsubscribed)  BY <3>2
    <3> QED  BY <1>6, <3>1, <3>2 DEF ListRecipients
  <2>3. senders[s].pc # "idle" /\ UNCHANGED <<campaignSent, unsubscribed, mailed, mailFaults, mailRaced>>
    BY <1>6 DEF ListRecipients
  <2>4. ~mailRaced' => Settled(s, pc, to)  BY <1>4, <2>1, <2>3 DEF Settled
  <2> QED  BY <1>0, <2>2, <2>3, <2>4, SenderKeeps
<1>7. ASSUME NEW s \in Senders, NEW taken \in BOOLEAN, SendBatch(s, taken)  PROVE MailInv'
  <2>1. /\ senders[s].pc # "idle" /\ UNCHANGED <<campaignSent, unsubscribed, mailFaults, mailRaced>>
        /\ SenderTo(s, "mark", {}) /\ senders[s].to \in SUBSET Subscribers
    BY <1>0, <1>7 DEF SendBatch
  <2>2. ~mailRaced => \A r \in Subscribers : mailed[r] <= mailFaults
    <3>1. senders[s].pc = "batch"  BY <1>7 DEF SendBatch
    <3> QED  BY <1>0, <3>1 DEF Delivered, ToCome
  <2>3. PICK sent \in SUBSET Subscribers :
          /\ mailed' \in [Subscribers -> Nat]
          /\ \A r \in Subscribers : mailed'[r] = mailed[r] + (IF r \in sent THEN 1 ELSE 0)
    <3>1. CASE MailTo(senders[s].to)  BY <1>2, <2>1, <3>1
    <3>2. CASE UNCHANGED mailed  BY <1>3, <3>2
    <3> QED  BY <1>7, <3>1, <3>2 DEF SendBatch
  <2>4. ~mailRaced => \A r \in Subscribers : mailed'[r] <= 1 + mailFaults  BY <1>0, <1>1, <2>2, <2>3
  <2>5. ~mailRaced' => Settled(s, "mark", {})  BY <1>4, <2>1, <2>4 DEF Settled
  <2> QED  BY <1>0, <2>1, <2>3, <2>5, SenderKeeps
<1>8. ASSUME NEW s \in Senders, NEW taken \in BOOLEAN, BatchThrows(s, taken)  PROVE MailInv'
  <2>1. /\ senders[s].pc # "idle" /\ UNCHANGED <<campaignSent, unsubscribed, mailRaced>>
        /\ SenderTo(s, "each", senders[s].to) /\ senders[s].to \in SUBSET Subscribers
    BY <1>0, <1>8 DEF BatchThrows
  <2>2. ~mailRaced => \A r \in Subscribers : mailed[r] <= mailFaults
    <3>1. senders[s].pc = "batch"  BY <1>8 DEF BatchThrows
    <3> QED  BY <1>0, <3>1 DEF Delivered, ToCome
  <2>3. PICK sent \in SUBSET Subscribers :
          /\ mailed' \in [Subscribers -> Nat]
          /\ \A r \in Subscribers : mailed'[r] = mailed[r] + (IF r \in sent THEN 1 ELSE 0)
          /\ mailFaults' = mailFaults + 1 \/ (mailFaults' = mailFaults /\ sent = {})
    <3>1. CASE MailTo(senders[s].to) /\ MailFault  BY <1>2, <2>1, <3>1 DEF MailFault
    <3>2. CASE UNCHANGED <<mailed, mailFaults>>  BY <1>3, <3>2
    <3> QED  BY <1>8, <3>1, <3>2 DEF BatchThrows
  <2>4. mailFaults' \in Nat  BY <1>0, <2>3
  <2>5. ~mailRaced => \A r \in Subscribers : mailed'[r] <= mailFaults' /\ mailed'[r] <= 1 + mailFaults'
    BY <1>0, <1>1, <2>2, <2>3
  <2>6. ~mailRaced' => Settled(s, "each", senders[s].to)  BY <1>4, <2>1, <2>5 DEF Settled
  <2> QED  BY <1>0, <2>1, <2>3, <2>4, <2>6, SenderKeeps
<1>9. ASSUME NEW s \in Senders, NEW r \in Subscribers, NEW taken \in BOOLEAN, SendOne(s, r, taken)
      PROVE  MailInv'
  <2>1. /\ senders[s].pc = "each" /\ r \in senders[s].to
        /\ UNCHANGED <<campaignSent, unsubscribed, mailFaults, mailRaced>>
    BY <1>9 DEF SendOne
  <2>2. PICK pc \in {"mark", "each"} : SenderTo(s, pc, senders[s].to \ {r})  BY <1>9 DEF SendOne
  <2>3. ~mailRaced => \A x \in Subscribers : /\ mailed[x] <= 1 + mailFaults
                                             /\ x \in senders[s].to => mailed[x] <= mailFaults
    BY <1>0, <2>1 DEF Delivered, ToCome
  <2>4. PICK sent \in SUBSET {r} :
          /\ mailed' \in [Subscribers -> Nat]
          /\ \A x \in Subscribers : mailed'[x] = mailed[x] + (IF x \in sent THEN 1 ELSE 0)
    <3>1. {r} \in SUBSET Subscribers  OBVIOUS
    <3>2. CASE MailTo({r})  BY <1>2, <3>1, <3>2
    <3>3. CASE UNCHANGED mailed
      <4>1. {} \in SUBSET {r}  OBVIOUS
      <4> QED  BY <1>3, <3>3, <4>1
    <3> QED  BY <1>9, <3>2, <3>3 DEF SendOne
  <2>5. ~mailRaced => \A x \in Subscribers : /\ mailed'[x] <= 1 + mailFaults
                                             /\ x \in senders[s].to \ {r} => mailed'[x] <= mailFaults
    <3> SUFFICES ASSUME ~mailRaced, NEW x \in Subscribers
                 PROVE  mailed'[x] <= 1 + mailFaults /\ (x \in senders[s].to \ {r} => mailed'[x] <= mailFaults)
      OBVIOUS
    <3>1. mailed[x] \in Nat /\ mailFaults \in Nat  BY <1>0, <1>1
    <3>2. CASE x = r
      <4>1. mailed[x] <= mailFaults  BY <2>1, <2>3, <3>2
      <4>2. mailed'[x] = mailed[x] + (IF x \in sent THEN 1 ELSE 0)  BY <2>4
      <4> QED  BY <3>1, <3>2, <4>1, <4>2
    <3>3. CASE x # r
      <4>1. mailed'[x] = mailed[x]  BY <2>4, <3>1, <3>3
      <4> QED  BY <2>3, <4>1
    <3> QED  BY <3>2, <3>3
  <2>6. senders[s].to \ {r} \in SUBSET Subscribers  BY <1>0
  <2>7. ~mailRaced' => Settled(s, pc, senders[s].to \ {r})  BY <1>4, <2>1, <2>5 DEF Settled
  <2> QED  BY <1>0, <2>1, <2>2, <2>4, <2>6, <2>7, SenderKeeps
<1>10. ASSUME NEW s \in Senders, MarkSent(s)  PROVE MailInv'
  <2>1. /\ senders[s].pc # "idle" /\ SenderTo(s, "idle", {}) /\ campaignSent' = TRUE
        /\ UNCHANGED <<unsubscribed, mailed, mailFaults, mailRaced>>
    BY <1>10 DEF MarkSent
  <2>2. ~mailRaced => \A r \in Subscribers : mailed[r] <= 1 + mailFaults  BY <1>0 DEF Delivered
  <2>3. ~mailRaced' => Settled(s, "idle", {})  BY <1>4, <2>1, <2>2 DEF Settled
  <2> QED  BY <1>0, <2>1, <2>3, SenderKeeps
<1>11. ASSUME NEW s \in Senders, LoseSender(s)  PROVE MailInv'
  <2>1. /\ senders[s].pc # "idle" /\ SenderTo(s, "idle", {}) /\ mailFaults' = mailFaults + 1
        /\ UNCHANGED <<campaignSent, unsubscribed, mailed, mailRaced>>
    BY <1>11 DEF LoseSender, MailFault
  <2>2. ~mailRaced => \A r \in Subscribers : mailed[r] <= mailFaults' /\ mailed[r] <= 1 + mailFaults'
    BY <1>0, <1>1, <2>1 DEF Delivered
  <2>3. ~mailRaced' => Settled(s, "idle", {})  BY <1>4, <2>1, <2>2 DEF Settled
  <2>4. mailFaults' \in Nat  BY <1>0, <2>1
  <2> QED  BY <1>0, <2>1, <2>3, <2>4, SenderKeeps
<1>12. ASSUME NEW r \in Subscribers, Unsubscribe(r)  PROVE MailInv'
  <2>1. UNCHANGED <<campaignSent, mailed, senders, mailFaults, mailRaced>>
        /\ unsubscribed' \subseteq Subscribers
    BY <1>0, <1>12 DEF Unsubscribe
  <2> QED  BY <1>0, <2>1 DEF MailInv, MailTypeOK, SenderType, OneSender, Delivered, ToCome
<1>13. CASE UNCHANGED mailVars
  BY <1>0, <1>13 DEF mailVars, MailInv, MailTypeOK, SenderType, OneSender, Delivered, ToCome
<1> QED
  BY <1>5, <1>6, <1>7, <1>8, <1>9, <1>10, <1>11, <1>12, <1>13 DEF MailNext

(* Clicks that do not overlap send a subscriber the campaign once, and once more
   for each answer, write or request that is lost, although a batch that throws
   is sent again one by one (sendEmailCampaignAction, sendBulkEmail). *)
THEOREM MailOnce == MailSpec => []MailedOnce
<1>1. MailInv => MailedOnce  BY DEF MailInv, MailedOnce, Delivered
<1> QED  BY <1>1, InitMail, StepMail, PTL DEF MailSpec

-----------------------------------------------------------------------------
(* MCOperations: whoever moves, each component takes a step of its own or none. *)
LEMMA SidesStep ==
  [Next]_allVars =>
    /\ [DeliveryNext]_deliveryVars /\ [DraftingNext]_draftingVars /\ [AssistNext]_assistVars
    /\ [ReplyNext]_replyVars /\ [ControlNext]_controlVars /\ [InviteNext]_inviteVars
    /\ [MailNext]_mailVars /\ [CeilingNext]_ceilingVars
<1> SUFFICES ASSUME [Next]_allVars
             PROVE  /\ [DeliveryNext]_deliveryVars /\ [DraftingNext]_draftingVars /\ [AssistNext]_assistVars
                    /\ [ReplyNext]_replyVars /\ [ControlNext]_controlVars /\ [InviteNext]_inviteVars
                    /\ [MailNext]_mailVars /\ [CeilingNext]_ceilingVars
  OBVIOUS
<1>1. CASE Next  BY <1>1 DEF Next
<1>2. CASE UNCHANGED allVars
  <2>1. /\ deliveryVars' = deliveryVars /\ draftingVars' = draftingVars /\ assistVars' = assistVars
        /\ replyVars' = replyVars /\ controlVars' = controlVars /\ inviteVars' = inviteVars
        /\ mailVars' = mailVars /\ ceilingVars' = ceilingVars
    BY <1>2 DEF allVars
  <2> QED  BY <2>1
<1> QED  BY <1>1, <1>2

(* The composition gives each component its own steps, so that its types can be
   taken from its own specification. *)
LEMMA PartsAreTheirOwn ==
  Spec => /\ DeliverySpec /\ DraftingSpec /\ AssistSpec /\ ReplySpec /\ ControlSpec /\ InviteSpec
          /\ MailSpec /\ CeilingSpec
<1>1. Init => /\ DeliveryInit /\ DraftingInit /\ AssistInit /\ ReplyInit /\ ControlInit /\ InviteInit
              /\ MailInit /\ CeilingInit
  BY DEF Init
<1> QED
  BY <1>1, SidesStep, PTL
  DEF Spec, DeliverySpec, DraftingSpec, AssistSpec, ReplySpec, ControlSpec, InviteSpec, MailSpec, CeilingSpec

(* Type correctness of the eight components.                               *)
THEOREM OperationTypes == Spec => []TypesOK
<1>1. DeliverySpec => []DeliveryTypeOK
  <2>1. DeliveryTypes => DeliveryTypeOK
    BY DEF DeliveryTypes, RunType, CountType, ProfileType, MishapType, JobType, Profile, JobRecord, Places,
           OnRunPC, InPhase, DeliveryTypeOK
  <2> QED  BY <2>1, DeliveryHolds, PTL
<1>2. DraftingSpec => []DraftingTypeOK
  <2>1. DraftTypes => DraftingTypeOK
    BY DEF DraftTypes, DraftRecord, DraftingTypeOK
  <2> QED  BY <2>1, DraftHolds, PTL
<1>3. AssistSpec => []AssistTypeOK
  <2>1. AssistTypes => AssistTypeOK  BY DEF AssistTypes, ListTypes, AssistRecord, AssistTypeOK
  <2> QED  BY <2>1, AssistHolds, PTL
<1>4. ReplySpec => []ReplyTypeOK
  <2>1. ReplyInv => ReplyTypeOK  BY DEF ReplyInv
  <2> QED  BY <2>1, InitReply, StepReply, PTL DEF ReplySpec
<1>5. ControlSpec => []ControlTypeOK
  <2>1. ControlInv => ControlTypeOK  BY DEF ControlInv
  <2> QED  BY <2>1, InitControls, StepControls, PTL DEF ControlSpec
<1>6. InviteSpec => []InviteTypeOK
  <2>1. InviteInv => InviteTypeOK  BY DEF InviteInv
  <2> QED  BY <2>1, InitInvite, StepInvite, PTL DEF InviteSpec
<1>7. MailSpec => []MailTypeOK
  <2>1. MailInv => MailTypeOK  BY DEF MailInv
  <2> QED  BY <2>1, InitMail, StepMail, PTL DEF MailSpec
<1>8. CeilingSpec => []CeilingTypeOK
  <2>1. CeilingInv => CeilingTypeOK  BY DEF CeilingInv
  <2> QED  BY <2>1, InitCeiling, StepCeiling, PTL DEF CeilingSpec
<1> QED
  BY <1>1, <1>2, <1>3, <1>4, <1>5, <1>6, <1>7, <1>8, PartsAreTheirOwn, PTL DEF TypesOK
=============================================================================
