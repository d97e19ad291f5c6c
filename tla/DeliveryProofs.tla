--------------------------- MODULE DeliveryProofs ---------------------------
(* Theorems about ManagedDelivery, Drafting and CalendarAssist, for any requests,
   topics, suggestions and budgets, and any number of faults. *)
EXTENDS ManagedDelivery, Drafting, CalendarAssist, FiniteSetTheorems, TLAPS

(* What a request on a run works at.                                       *)
Early == {"queued", "validating", "analysing", "strategy"}
OnRunPC == {"enter", "validated", "surface", "surfacing", "build", "advance", "patch"}
HoldPC == {"surface", "surfacing", "build", "advance", "patch", "save", "mail", "mailed"}
ReportPC == {"due", "mail", "mailed"}
Late == {"calendar", "content", "awaiting_approval"}
PastBuild(x) == x.phase \in {"calendar", "content"} \/ (x.pc = "advance" /\ x.phase = "strategy")

Profile == [edits : Nat, sent : BOOLEAN]
Places == OnRunPC \cup {"idle", "save", "due", "mail", "mailed"}
JobRecord == [pc : Places, phase : InProgress, company : Profile, fresh : Profile]
JobPhaseOK(x) ==
  /\ x.pc = "validated" => x.phase \in {"queued", "validating"}
  /\ x.pc = "build" => x.phase = "strategy"
  /\ x.pc \in {"surface", "surfacing"} => x.phase = "calendar"
  /\ x.pc = "advance" => x.phase \in DOMAIN NextPhase

RunType == run \in [phase : InProgress \cup Rest, campaign : BOOLEAN]
CountType == campaigns \in Nat /\ saves \in Nat /\ reports \in Nat /\ deliveryFaults \in Nat
ProfileType == profile \in Profile
MishapType == mishaps \subseteq {"run", "profile", "report", "lost"}
JobType == jobs \in [Jobs -> JobRecord] /\ \A j \in Jobs : JobPhaseOK(jobs[j])

(* The next request finds at most as many campaigns as there were faults, until
   one is past its strategy. *)
OneBuilds ==
  /\ \A i, j \in OnRun : i = j
  /\ campaigns <= 1 + deliveryFaults
  /\ OnRun = {} /\ run.phase \in Early => campaigns <= deliveryFaults
  /\ \A j \in OnRun : ~PastBuild(jobs[j]) => campaigns <= deliveryFaults

(* Whoever is past the strategy left a campaign with the run.              *)
HasCampaign ==
  /\ run.phase \in Late => run.campaign
  /\ \A j \in OnRun : jobs[j].phase \in {"calendar", "content"} => run.campaign

(* One request at a time holds the profile, as it is.                      *)
OneHolds ==
  /\ \A i, j \in HoldingProfile : i = j
  /\ \A j \in HoldingProfile : jobs[j].company = profile /\ (jobs[j].pc = "surfacing" => jobs[j].fresh = profile)
  /\ profile.edits = saves

(* One request at a time is at the report, and none was mailed until it has. *)
OneReports ==
  /\ \A i, j \in OnReport : i = j
  /\ reports <= 1
  /\ OnReport = {} /\ ~profile.sent => reports = 0
  /\ \A j \in OnReport : jobs[j].pc # "mailed" => reports = 0

DeliveryTypes == RunType /\ CountType /\ ProfileType /\ MishapType /\ JobType
RunInv == "run" \in mishaps \/ OneBuilds
CampaignInv == "lost" \in mishaps \/ HasCampaign
ProfileInv == "profile" \in mishaps \/ OneHolds
ReportInv == mishaps \cap {"report", "profile"} # {} \/ OneReports
DeliveryInv == RunInv /\ CampaignInv /\ ProfileInv /\ ReportInv

-----------------------------------------------------------------------------
(* One request moves on.                                                   *)
Steps(j, y) ==
  /\ \A i \in Jobs : jobs'[i] = IF i = j THEN y ELSE jobs[i]
  /\ OnRun' = IF y.pc \in OnRunPC THEN OnRun \cup {j} ELSE OnRun \ {j}
  /\ HoldingProfile' = IF y.pc \in HoldPC THEN HoldingProfile \cup {j} ELSE HoldingProfile \ {j}
  /\ OnReport' = IF y.pc \in ReportPC THEN OnReport \cup {j} ELSE OnReport \ {j}

LEMMA Groups ==
  ASSUME NEW j \in Jobs
  PROVE  /\ j \in OnRun <=> jobs[j].pc \in OnRunPC
         /\ j \in HoldingProfile <=> jobs[j].pc \in HoldPC
         /\ j \in OnReport <=> jobs[j].pc \in ReportPC
BY DEF OnRun, HoldingProfile, OnReport, InPhase, OnRunPC, HoldPC, ReportPC

LEMMA Moved ==
  ASSUME JobType, NEW j \in Jobs, NEW y, JobPhaseOK(y),
         jobs' \in [Jobs -> JobRecord], \A i \in Jobs : jobs'[i] = IF i = j THEN y ELSE jobs[i]
  PROVE  JobType' /\ Steps(j, y)
<1>1. \A i \in Jobs : JobPhaseOK(jobs'[i])  BY DEF JobType
<1>2. JobType'  BY <1>1 DEF JobType, JobPhaseOK, JobRecord, Profile, NextPhase
<1>3. OnRun' = IF y.pc \in OnRunPC THEN OnRun \cup {j} ELSE OnRun \ {j}
  <2>1. \A i \in Jobs : i \in OnRun' <=> IF i = j THEN y.pc \in OnRunPC ELSE i \in OnRun
    BY DEF OnRun, OnRunPC, InPhase
  <2> QED  BY <2>1 DEF OnRun
<1>4. HoldingProfile' = IF y.pc \in HoldPC THEN HoldingProfile \cup {j} ELSE HoldingProfile \ {j}
  <2>1. \A i \in Jobs : i \in HoldingProfile' <=> IF i = j THEN y.pc \in HoldPC ELSE i \in HoldingProfile
    BY DEF HoldingProfile, HoldPC, InPhase
  <2> QED  BY <2>1 DEF HoldingProfile
<1>5. OnReport' = IF y.pc \in ReportPC THEN OnReport \cup {j} ELSE OnReport \ {j}
  <2>1. \A i \in Jobs : i \in OnReport' <=> IF i = j THEN y.pc \in ReportPC ELSE i \in OnReport
    BY DEF OnReport, ReportPC
  <2> QED  BY <2>1 DEF OnReport
<1> QED  BY <1>2, <1>3, <1>4, <1>5 DEF Steps

(* What a step has to keep of each invariant.                              *)
LEMMA BuildsOn ==
  ASSUME CountType, OneBuilds, NEW j \in Jobs, NEW y, Steps(j, y),
         deliveryFaults' \in Nat, deliveryFaults <= deliveryFaults', campaigns' \in Nat,
         y.pc \in OnRunPC => j \in OnRun \/ OnRun = {},
         campaigns' <= 1 + deliveryFaults',
         j \in OnRun \/ y.pc \in OnRunPC =>
           /\ run'.phase \in Early /\ y.pc \notin OnRunPC => campaigns' <= deliveryFaults'
           /\ y.pc \in OnRunPC /\ ~PastBuild(y) => campaigns' <= deliveryFaults',
         j \notin OnRun /\ y.pc \notin OnRunPC => run' = run /\ campaigns' = campaigns
  PROVE  OneBuilds'
<1>0. OnRun \subseteq Jobs /\ campaigns \in Nat /\ deliveryFaults \in Nat  BY DEF OnRun, CountType
<1>1. CASE j \in OnRun \/ y.pc \in OnRunPC
  <2>1. OnRun \subseteq {j}  BY <1>1 DEF OneBuilds
  <2>2. OnRun' = IF y.pc \in OnRunPC THEN {j} ELSE {}  BY <2>1 DEF Steps
  <2>3. jobs'[j] = y  BY DEF Steps
  <2> QED  BY <1>1, <2>2, <2>3 DEF OneBuilds, PastBuild
<1>2. CASE j \notin OnRun /\ y.pc \notin OnRunPC
  <2>1. OnRun' = OnRun /\ \A i \in OnRun : jobs'[i] = jobs[i]  BY <1>0, <1>2 DEF Steps
  <2>2. \A i \in OnRun : ~PastBuild(jobs'[i]) => campaigns' <= deliveryFaults'
    BY <1>0, <1>2, <2>1 DEF OneBuilds
  <2> QED  BY <1>0, <1>2, <2>1, <2>2 DEF OneBuilds, PastBuild
<1> QED  BY <1>1, <1>2

LEMMA HasOn ==
  ASSUME HasCampaign, NEW j \in Jobs, NEW y, Steps(j, y),
         run.campaign => run'.campaign, run'.phase \in Late => run'.campaign,
         y.pc \in OnRunPC /\ y.phase \in {"calendar", "content"} => run'.campaign
  PROVE  HasCampaign'
<1>1. ASSUME NEW i \in OnRun', jobs'[i].phase \in {"calendar", "content"}  PROVE run'.campaign
  <2>0. i \in Jobs  BY DEF OnRun
  <2>1. CASE i = j  BY <1>1, <2>1 DEF Steps
  <2>2. CASE i # j  BY <1>1, <2>0, <2>2 DEF Steps, HasCampaign
  <2> QED  BY <2>1, <2>2
<1> QED  BY <1>1 DEF HasCampaign, Late

LEMMA HoldsOn ==
  ASSUME OneHolds, NEW j \in Jobs, NEW y, Steps(j, y),
         y.pc \in HoldPC => (j \in HoldingProfile \/ HoldingProfile = {}) /\ y.company = profile'
                           /\ (y.pc = "surfacing" => y.fresh = profile'),
         profile' = profile \/ j \in HoldingProfile,
         profile'.edits = saves'
  PROVE  OneHolds'
<1>0. HoldingProfile \subseteq Jobs /\ jobs'[j] = y  BY DEF HoldingProfile, Steps
<1>1. CASE j \in HoldingProfile \/ y.pc \in HoldPC
  <2>1. HoldingProfile \subseteq {j}  BY <1>1 DEF OneHolds
  <2>2. HoldingProfile' = IF y.pc \in HoldPC THEN {j} ELSE {}  BY <2>1 DEF Steps
  <2> QED  BY <1>0, <2>2 DEF OneHolds
<1>2. CASE j \notin HoldingProfile /\ y.pc \notin HoldPC
  <2>1. HoldingProfile' = HoldingProfile /\ \A i \in HoldingProfile : jobs'[i] = jobs[i]
    BY <1>0, <1>2 DEF Steps
  <2> QED  BY <1>2, <2>1 DEF OneHolds
<1> QED  BY <1>1, <1>2

LEMMA ReportsOn ==
  ASSUME OneReports, NEW j \in Jobs, NEW y, Steps(j, y),
         y.pc \in ReportPC => j \in OnReport \/ OnReport = {},
         j \in OnReport \/ y.pc \in ReportPC =>
           /\ reports' <= 1
           /\ y.pc \notin ReportPC /\ ~profile'.sent => reports' = 0
           /\ y.pc \in {"due", "mail"} => reports' = 0,
         j \notin OnReport /\ y.pc \notin ReportPC => reports' = reports /\ (profile.sent => profile'.sent)
  PROVE  OneReports'
<1>0. OnReport \subseteq Jobs /\ jobs'[j] = y  BY DEF OnReport, Steps
<1>1. CASE j \in OnReport \/ y.pc \in ReportPC
  <2>1. OnReport \subseteq {j}  BY <1>1 DEF OneReports
  <2>2. OnReport' = IF y.pc \in ReportPC THEN {j} ELSE {}  BY <2>1 DEF Steps
  <2> QED  BY <1>0, <1>1, <2>2 DEF OneReports, ReportPC
<1>2. CASE j \notin OnReport /\ y.pc \notin ReportPC
  <2>1. OnReport' = OnReport /\ \A i \in OnReport : jobs'[i] = jobs[i]
    BY <1>0, <1>2 DEF Steps
  <2> QED  BY <1>2, <2>1 DEF OneReports
<1> QED  BY <1>1, <1>2

(* A request that is not at it leaves each part as it is.                  *)
LEMMA RestingType == Resting \in JobRecord
BY DEF Resting, Unedited, JobRecord, Places, Profile, InProgress

LEMMA CountOn == \A n, max \in Nat : Counted(n, max) \in Nat /\ Counted(n, max) <= n + 1
BY DEF Counted

LEMMA Slack == \A a, d, e \in Nat : a <= 1 + d /\ d <= e => a <= 1 + e  OBVIOUS

LEMMA OffRun ==
  ASSUME DeliveryTypes, RunInv, CampaignInv, NEW j \in Jobs, NEW y, Steps(j, y),
         j \notin OnRun, y.pc \notin OnRunPC, run' = run, campaigns' = campaigns,
         deliveryFaults' \in Nat, deliveryFaults <= deliveryFaults', mishaps \subseteq mishaps'
  PROVE  RunInv' /\ CampaignInv'
<1>0. CountType /\ campaigns \in Nat /\ deliveryFaults \in Nat  BY DEF DeliveryTypes, CountType
<1>1. RunInv'
  <2>1. CASE "run" \in mishaps  BY <2>1 DEF RunInv
  <2>2. CASE OneBuilds
    <3>0. campaigns <= 1 + deliveryFaults  BY <2>2 DEF OneBuilds
    <3>1. campaigns' <= 1 + deliveryFaults'  BY <1>0, <3>0, Slack
    <3>2. campaigns' \in Nat  BY <1>0
    <3>3. ~(j \in OnRun \/ y.pc \in OnRunPC)  OBVIOUS
    <3>4. OneBuilds'  BY <1>0, <2>2, <3>1, <3>2, <3>3, BuildsOn
    <3> QED  BY <3>4 DEF RunInv
  <2> QED  BY <2>1, <2>2 DEF RunInv
<1>2. CampaignInv'
  <2>1. CASE "lost" \in mishaps  BY <2>1 DEF CampaignInv
  <2>2. CASE HasCampaign
    <3>1. run'.phase \in Late => run'.campaign  BY <2>2 DEF HasCampaign
    <3> QED  BY <2>2, <3>1, HasOn DEF CampaignInv
  <2> QED  BY <2>1, <2>2 DEF CampaignInv
<1> QED  BY <1>1, <1>2

LEMMA OffProfile ==
  ASSUME ProfileInv, NEW j \in Jobs, NEW y, Steps(j, y),
         y.pc \notin HoldPC, profile' = profile, saves' = saves, mishaps \subseteq mishaps'
  PROVE  ProfileInv'
<1>1. CASE "profile" \in mishaps  BY <1>1 DEF ProfileInv
<1>2. CASE OneHolds
  <2>1. profile'.edits = saves'  BY <1>2 DEF OneHolds
  <2> QED  BY <1>2, <2>1, HoldsOn DEF ProfileInv
<1> QED  BY <1>1, <1>2 DEF ProfileInv

LEMMA OffReport ==
  ASSUME ReportInv, NEW j \in Jobs, NEW y, Steps(j, y),
         j \notin OnReport, y.pc \notin ReportPC, reports' = reports, mishaps \subseteq mishaps',
         "profile" \in mishaps \/ (profile.sent => profile'.sent)
  PROVE  ReportInv'
<1>1. CASE mishaps \cap {"report", "profile"} # {}  BY <1>1 DEF ReportInv
<1>2. CASE OneReports /\ (profile.sent => profile'.sent)  BY <1>2, ReportsOn DEF ReportInv
<1>3. CASE "profile" \in mishaps  BY <1>3 DEF ReportInv
<1> QED  BY <1>1, <1>2, <1>3 DEF ReportInv

(* A step that holds the profile and writes nothing into it.               *)
LEMMA HoldsStill ==
  ASSUME ProfileInv, NEW j \in Jobs, NEW y, Steps(j, y), j \in HoldingProfile, y.pc # "surfacing",
         y.company = jobs[j].company, profile' = profile, saves' = saves, mishaps \subseteq mishaps'
  PROVE  ProfileInv'
<1>1. CASE "profile" \in mishaps  BY <1>1 DEF ProfileInv
<1>2. CASE OneHolds
  <2>1. profile'.edits = saves' /\ y.company = profile'  BY <1>2 DEF OneHolds
  <2> QED  BY <1>2, <2>1, HoldsOn DEF ProfileInv
<1> QED  BY <1>1, <1>2 DEF ProfileInv

(* The company is read: another may hold it too, which is noted.           *)
LEMMA Fetched ==
  ASSUME ProfileInv, NEW j \in Jobs, NEW y, Steps(j, y), y.company = profile, y.pc # "surfacing",
         profile' = profile, saves' = saves, Noting("profile", HoldingProfile \ {j})
  PROVE  ProfileInv'
<1>1. CASE "profile" \in mishaps'  BY <1>1 DEF ProfileInv
<1>2. CASE "profile" \notin mishaps' /\ HoldingProfile \ {j} = {}
  <2>1. OneHolds /\ (j \in HoldingProfile \/ HoldingProfile = {})  BY <1>2 DEF ProfileInv, Noting
  <2>2. profile'.edits = saves'  BY <2>1 DEF OneHolds
  <2> QED  BY <2>1, <2>2, HoldsOn DEF ProfileInv
<1> QED  BY <1>1, <1>2 DEF Noting

-----------------------------------------------------------------------------
LEMMA StepBeginDelivery ==
  ASSUME DeliveryTypes, DeliveryInv, NEW j \in Jobs, BeginDelivery(j)
  PROVE  (DeliveryTypes /\ DeliveryInv)'
<1> DEFINE x == jobs[j]
<1>0. /\ jobs \in [Jobs -> JobRecord] /\ JobType /\ x \in JobRecord
      /\ x.pc = "idle" /\ run.phase \in InProgress
  BY DEF DeliveryTypes, JobType, BeginDelivery, JobAt
<1>1. /\ jobs' \in [Jobs -> JobRecord] /\ \A i \in Jobs : i # j => jobs'[i] = jobs[i]
      /\ jobs'[j].pc = "enter" /\ jobs'[j].phase = run.phase
  BY <1>0 DEF BeginDelivery, JobRecord, Places, OnRunPC
<1>2. PICK y \in JobRecord : y = jobs'[j]  BY <1>1
<1>7. y.pc = "enter" /\ y.phase = run.phase  BY <1>1, <1>2
<1>3. JobType' /\ Steps(j, y)  BY <1>0, <1>1, <1>2, <1>7, Moved DEF JobPhaseOK
<1>4. DeliveryTypes'
  BY <1>3 DEF DeliveryTypes, BeginDelivery, Noting, RunType, CountType, ProfileType, MishapType
<1>5. mishaps \subseteq mishaps'  BY DEF BeginDelivery, Noting
<1>6. j \notin OnRun /\ j \notin HoldingProfile /\ j \notin OnReport
  BY <1>0, Groups DEF OnRunPC, HoldPC, ReportPC
<1>8. RunInv'
  <2>1. CASE "run" \in mishaps'  BY <2>1 DEF RunInv
  <2>2. CASE "run" \notin mishaps' /\ OnRun = {}
    <3>1. OneBuilds  BY <2>2, <1>5 DEF DeliveryInv, RunInv
    <3>2. CountType /\ UNCHANGED <<run, campaigns, deliveryFaults>>  BY DEF BeginDelivery, DeliveryTypes
    <3>3. campaigns <= 1 + deliveryFaults /\ campaigns \in Nat /\ deliveryFaults \in Nat
      BY <3>1, <3>2 DEF OneBuilds, CountType
    <3>4. ~PastBuild(y) => campaigns <= deliveryFaults
      <4>1. ~PastBuild(y) => run.phase \in Early  BY <1>0, <1>7 DEF PastBuild, Early, InProgress
      <4> QED  BY <4>1, <2>2, <3>1 DEF OneBuilds
    <3>5. y.pc \in OnRunPC  BY <1>7 DEF OnRunPC
    <3> QED  BY <1>3, <2>2, <3>1, <3>2, <3>3, <3>4, <3>5, BuildsOn DEF RunInv
  <2> QED  BY <2>1, <2>2 DEF BeginDelivery, Noting
<1>9. CampaignInv'
  <2>1. CASE "lost" \in mishaps  BY <2>1, <1>5 DEF CampaignInv
  <2>2. CASE HasCampaign
    <3>1. run' = run  BY DEF BeginDelivery
    <3>2. run'.phase \in Late => run'.campaign  BY <2>2, <3>1 DEF HasCampaign
    <3>3. y.phase \in {"calendar", "content"} => run'.campaign  BY <3>1, <3>2, <1>7 DEF Late
    <3> QED  BY <1>3, <2>2, <3>1, <3>2, <3>3, HasOn DEF CampaignInv
  <2> QED  BY <2>1, <2>2 DEF CampaignInv, DeliveryInv
<1>10. ProfileInv' /\ ReportInv'
  <2>1. y.pc \notin HoldPC /\ y.pc \notin ReportPC  BY <1>7 DEF HoldPC, ReportPC
  <2>2. UNCHANGED <<profile, saves, reports>>  BY DEF BeginDelivery
  <2>3. ProfileInv'  BY <1>3, <1>5, <1>6, <2>1, <2>2, OffProfile DEF DeliveryInv
  <2>4. ReportInv'  BY <1>3, <1>5, <1>6, <2>1, <2>2, OffReport DEF DeliveryInv
  <2> QED  BY <2>3, <2>4
<1> QED  BY <1>4, <1>8, <1>9, <1>10 DEF DeliveryInv

(* A request on the run that neither builds nor ends keeps what the run has. *)
LEMMA BuildsStill ==
  ASSUME DeliveryTypes, RunInv, NEW j \in Jobs, NEW y, Steps(j, y), j \in OnRun, y.pc \in OnRunPC,
         PastBuild(jobs[j]) => PastBuild(y),
         campaigns' = campaigns, deliveryFaults' \in Nat, deliveryFaults <= deliveryFaults',
         mishaps \subseteq mishaps'
  PROVE  RunInv'
<1>0. CountType /\ campaigns \in Nat /\ deliveryFaults \in Nat  BY DEF DeliveryTypes, CountType
<1>1. CASE "run" \in mishaps  BY <1>1 DEF RunInv
<1>2. CASE OneBuilds
  <2>1. campaigns <= 1 + deliveryFaults  BY <1>2 DEF OneBuilds
  <2>2. campaigns' \in Nat /\ campaigns' <= 1 + deliveryFaults'  BY <1>0, <2>1, Slack
  <2>3. ~PastBuild(y) => campaigns <= deliveryFaults  BY <1>2 DEF OneBuilds
  <2>4. ~PastBuild(y) => campaigns' <= deliveryFaults'  BY <1>0, <2>3
  <2>5. OneBuilds'  BY <1>0, <1>2, <2>2, <2>4, BuildsOn
  <2> QED  BY <2>5 DEF RunInv
<1> QED  BY <1>1, <1>2 DEF RunInv

(* Once it has left the run, no other is on it: the run is at rest, or it
   died and is a fault of its own. *)
LEMMA BuildsNoMore ==
  ASSUME DeliveryTypes, RunInv, NEW j \in Jobs, NEW y, Steps(j, y), j \in OnRun, y.pc \notin OnRunPC,
         campaigns' = campaigns, deliveryFaults' \in Nat, mishaps \subseteq mishaps',
         \/ run'.phase \notin Early /\ deliveryFaults' = deliveryFaults
         \/ deliveryFaults' = deliveryFaults + 1
  PROVE  RunInv'
<1>0. CountType /\ campaigns \in Nat /\ deliveryFaults \in Nat  BY DEF DeliveryTypes, CountType
<1>1. CASE "run" \in mishaps  BY <1>1 DEF RunInv
<1>2. CASE OneBuilds
  <2>1. campaigns <= 1 + deliveryFaults  BY <1>2 DEF OneBuilds
  <2>2. campaigns' \in Nat /\ deliveryFaults <= deliveryFaults'  BY <1>0
  <2>3. campaigns' <= 1 + deliveryFaults'  BY <1>0, <2>1, <2>2, Slack
  <2>4. run'.phase \in Early => campaigns' <= deliveryFaults'
    <3>1. CASE run'.phase \notin Early  BY <3>1
    <3>2. CASE deliveryFaults' = deliveryFaults + 1
      <4>1. deliveryFaults' = 1 + deliveryFaults  BY <1>0, <3>2
      <4> QED  BY <2>1, <4>1
    <3> QED  BY <3>1, <3>2
  <2>5. OneBuilds'  BY <1>0, <1>2, <2>2, <2>3, <2>4, BuildsOn
  <2> QED  BY <2>5 DEF RunInv
<1> QED  BY <1>1, <1>2 DEF RunInv

(* Nothing is written to the run.                                          *)
LEMMA HasStill ==
  ASSUME CampaignInv, NEW j \in Jobs, NEW y, Steps(j, y), mishaps \subseteq mishaps',
         run.campaign => run'.campaign,
         run'.phase \in Late => run.phase \in Late \/ (j \in OnRun /\ jobs[j].phase \in {"calendar", "content"}),
         y.pc \in OnRunPC /\ y.phase \in {"calendar", "content"} => j \in OnRun /\ jobs[j].phase \in {"calendar", "content"}
  PROVE  CampaignInv'
<1>1. CASE "lost" \in mishaps  BY <1>1 DEF CampaignInv
<1>2. CASE HasCampaign
  <2>1. run'.phase \in Late => run'.campaign  BY <1>2 DEF HasCampaign
  <2>2. y.pc \in OnRunPC /\ y.phase \in {"calendar", "content"} => run'.campaign  BY <1>2 DEF HasCampaign
  <2> QED  BY <1>2, <2>1, <2>2, HasOn DEF CampaignInv
<1> QED  BY <1>1, <1>2 DEF CampaignInv

-----------------------------------------------------------------------------
LEMMA StepValidate ==
  ASSUME DeliveryTypes, DeliveryInv, NEW j \in Jobs, Validate(j)
  PROVE  (DeliveryTypes /\ DeliveryInv)'
<1> DEFINE x == jobs[j]
<1>0. /\ jobs \in [Jobs -> JobRecord] /\ JobType /\ x \in JobRecord
      /\ x.pc = "enter" /\ x.phase \in {"queued", "validating"}
  BY DEF DeliveryTypes, JobType, Validate, JobAt
<1>1. /\ jobs' \in [Jobs -> JobRecord] /\ \A i \in Jobs : i # j => jobs'[i] = jobs[i]
      /\ jobs'[j].pc = "validated" /\ jobs'[j].phase = x.phase
  BY <1>0 DEF Validate, JobTo, JobRecord, Places, OnRunPC
<1>2. PICK y \in JobRecord : y = jobs'[j]  BY <1>1
<1>3. y.pc = "validated" /\ y.phase \in {"queued", "validating"}  BY <1>0, <1>1, <1>2
<1>4. JobType' /\ Steps(j, y)  BY <1>0, <1>1, <1>2, <1>3, Moved DEF JobPhaseOK
<1>5. UNCHANGED <<campaigns, profile, saves, reports, deliveryFaults, mishaps>>  BY DEF Validate
<1>6. run' \in [phase : InProgress \cup Rest, campaign : BOOLEAN] /\ run'.phase = "validating" /\ run'.campaign = run.campaign
  BY DEF Validate, DeliveryTypes, RunType, InProgress
<1>7. DeliveryTypes'  BY <1>4, <1>5, <1>6 DEF DeliveryTypes, RunType, CountType, ProfileType, MishapType
<1>8. j \in OnRun /\ j \notin HoldingProfile /\ j \notin OnReport  BY <1>0, Groups DEF OnRunPC, HoldPC, ReportPC
<1>9. y.pc \in OnRunPC /\ y.pc \notin HoldPC /\ y.pc \notin ReportPC  BY <1>3 DEF OnRunPC, HoldPC, ReportPC
<1>10. deliveryFaults' \in Nat /\ deliveryFaults <= deliveryFaults'  BY <1>5 DEF DeliveryTypes, CountType
<1>11. RunInv'
  <2>1. ~PastBuild(x)  BY <1>0 DEF PastBuild
  <2> QED  BY <1>4, <1>5, <1>8, <1>9, <1>10, <2>1, BuildsStill DEF DeliveryInv
<1>12. CampaignInv'
  <2>1. run'.phase \notin Late /\ y.phase \notin {"calendar", "content"}  BY <1>3, <1>6 DEF Late
  <2> QED  BY <1>4, <1>5, <1>6, <2>1, HasStill DEF DeliveryInv
<1>13. ProfileInv'  BY <1>4, <1>5, <1>8, <1>9, OffProfile DEF DeliveryInv
<1>14. ReportInv'  BY <1>4, <1>5, <1>8, <1>9, OffReport DEF DeliveryInv
<1> QED  BY <1>7, <1>11, <1>12, <1>13, <1>14 DEF DeliveryInv

LEMMA StepValidated ==
  ASSUME DeliveryTypes, DeliveryInv, NEW j \in Jobs, NEW verdict \in {"analysing", "blocked", "failed"},
         Validated(j, verdict)
  PROVE  (DeliveryTypes /\ DeliveryInv)'
<1> DEFINE x == jobs[j]
<1>0. /\ jobs \in [Jobs -> JobRecord] /\ JobType /\ x \in JobRecord
      /\ x.pc = "validated" /\ x.phase \in {"queued", "validating"}
  BY DEF DeliveryTypes, JobType, JobPhaseOK, Validated, JobAt
<1>1. /\ jobs' \in [Jobs -> JobRecord] /\ \A i \in Jobs : i # j => jobs'[i] = jobs[i]
      /\ \/ verdict = "analysing" /\ jobs'[j].pc = "enter" /\ jobs'[j].phase = "analysing"
         \/ verdict # "analysing" /\ jobs'[j] = Resting
  <2>1. CASE verdict = "analysing"
    BY <1>0, <2>1 DEF Validated, JobRecord, Places, OnRunPC, InProgress
  <2>2. CASE verdict # "analysing"
    BY <1>0, <2>2, RestingType DEF Validated, JobOver
  <2> QED  BY <2>1, <2>2
<1>2. PICK y \in JobRecord : y = jobs'[j]  BY <1>1
<1>3. \/ verdict = "analysing" /\ y.pc = "enter" /\ y.phase = "analysing"
      \/ verdict # "analysing" /\ y = Resting
  BY <1>1, <1>2
<1>4. JobType' /\ Steps(j, y)  BY <1>0, <1>1, <1>2, <1>3, Moved DEF JobPhaseOK, Resting
<1>5. UNCHANGED <<campaigns, profile, saves, reports, deliveryFaults, mishaps>>  BY DEF Validated
<1>6. run' \in [phase : InProgress \cup Rest, campaign : BOOLEAN] /\ run'.phase = verdict /\ run'.campaign = run.campaign
  BY DEF Validated, DeliveryTypes, RunType, InProgress, Rest
<1>7. DeliveryTypes'  BY <1>4, <1>5, <1>6 DEF DeliveryTypes, RunType, CountType, ProfileType, MishapType
<1>8. j \in OnRun /\ j \notin HoldingProfile /\ j \notin OnReport  BY <1>0, Groups DEF OnRunPC, HoldPC, ReportPC
<1>9. y.pc \notin HoldPC /\ y.pc \notin ReportPC  BY <1>3 DEF HoldPC, ReportPC, Resting
<1>10. deliveryFaults' \in Nat /\ deliveryFaults <= deliveryFaults'  BY <1>5 DEF DeliveryTypes, CountType
<1>11. RunInv'
  <2>1. CASE verdict = "analysing"
    <3>1. ~PastBuild(x) /\ y.pc \in OnRunPC  BY <1>0, <1>3, <2>1 DEF PastBuild, OnRunPC
    <3> QED  BY <1>4, <1>5, <1>8, <1>10, <3>1, BuildsStill DEF DeliveryInv
  <2>2. CASE verdict # "analysing"
    <3>1. run'.phase \notin Early /\ y.pc \notin OnRunPC  BY <1>3, <1>6, <2>2 DEF Early, OnRunPC, Resting
    <3> QED  BY <1>4, <1>5, <1>8, <1>10, <3>1, BuildsNoMore DEF DeliveryInv
  <2> QED  BY <2>1, <2>2
<1>12. CampaignInv'
  <2>1. run'.phase \notin Late /\ y.phase \notin {"calendar", "content"}  BY <1>3, <1>6 DEF Late, Resting
  <2> QED  BY <1>4, <1>5, <1>6, <2>1, HasStill DEF DeliveryInv
<1>13. ProfileInv'  BY <1>4, <1>5, <1>8, <1>9, OffProfile DEF DeliveryInv
<1>14. ReportInv'  BY <1>4, <1>5, <1>8, <1>9, OffReport DEF DeliveryInv
<1> QED  BY <1>7, <1>11, <1>12, <1>13, <1>14 DEF DeliveryInv

LEMMA StepEnter ==
  ASSUME DeliveryTypes, DeliveryInv, NEW j \in Jobs, Enter(j)
  PROVE  (DeliveryTypes /\ DeliveryInv)'
<1> DEFINE x == jobs[j]
<1>0. /\ jobs \in [Jobs -> JobRecord] /\ JobType /\ x \in JobRecord
      /\ x.pc = "enter" /\ x.phase \in {"analysing", "strategy", "calendar"} /\ profile \in Profile
  BY DEF DeliveryTypes, JobType, ProfileType, Enter, JobAt
<1>1. /\ jobs' \in [Jobs -> JobRecord] /\ \A i \in Jobs : i # j => jobs'[i] = jobs[i]
      /\ jobs'[j].phase = x.phase /\ jobs'[j].company = profile
      /\ jobs'[j].pc = FirstOf[x.phase]
  BY <1>0 DEF Enter, Fetch, FirstOf, JobRecord, Places, OnRunPC
<1>2. PICK y \in JobRecord : y = jobs'[j]  BY <1>1
<1>3. /\ y.phase \in {"analysing", "strategy", "calendar"} /\ y.company = profile /\ y.phase = x.phase
      /\ \/ y.phase = "strategy" /\ y.pc = "build"
         \/ y.phase = "calendar" /\ y.pc = "surface"
         \/ y.phase = "analysing" /\ y.pc = "advance"
  BY <1>0, <1>1, <1>2 DEF FirstOf
<1>4. JobType' /\ Steps(j, y)  BY <1>0, <1>1, <1>2, <1>3, Moved DEF JobPhaseOK, NextPhase
<1>5. UNCHANGED <<run, campaigns, profile, saves, reports, deliveryFaults>> /\ Noting("profile", HoldingProfile \ {j})
  BY DEF Enter, Fetch
<1>6. mishaps \subseteq mishaps' /\ mishaps' \subseteq mishaps \cup {"profile"}  BY <1>5 DEF Noting
<1>7. DeliveryTypes'  BY <1>4, <1>5, <1>6 DEF DeliveryTypes, RunType, CountType, ProfileType, MishapType
<1>8. j \in OnRun /\ j \notin HoldingProfile /\ j \notin OnReport  BY <1>0, Groups DEF OnRunPC, HoldPC, ReportPC
<1>9. y.pc \in OnRunPC /\ y.pc \notin ReportPC  BY <1>3 DEF OnRunPC, ReportPC
<1>10. deliveryFaults' \in Nat /\ deliveryFaults <= deliveryFaults'  BY <1>5 DEF DeliveryTypes, CountType
<1>11. RunInv'
  <2>1. PastBuild(x) => PastBuild(y)  BY <1>0, <1>3 DEF PastBuild
  <2> QED  BY <1>4, <1>5, <1>6, <1>8, <1>9, <1>10, <2>1, BuildsStill DEF DeliveryInv
<1>12. CampaignInv'  BY <1>3, <1>4, <1>5, <1>6, <1>8, HasStill DEF DeliveryInv
<1>13. ProfileInv'  BY <1>3, <1>4, <1>5, Fetched DEF DeliveryInv
<1>14. ReportInv'  BY <1>4, <1>5, <1>6, <1>8, <1>9, OffReport DEF DeliveryInv
<1> QED  BY <1>7, <1>11, <1>12, <1>13, <1>14 DEF DeliveryInv

LEMMA StepBuild ==
  ASSUME DeliveryTypes, DeliveryInv, NEW j \in Jobs, Build(j)
  PROVE  (DeliveryTypes /\ DeliveryInv)'
<1> DEFINE x == jobs[j]
<1>0. /\ jobs \in [Jobs -> JobRecord] /\ JobType /\ x \in JobRecord
      /\ x.pc = "build" /\ x.phase = "strategy"
  BY DEF DeliveryTypes, JobType, JobPhaseOK, Build, JobAt
<1>1. /\ jobs' \in [Jobs -> JobRecord] /\ \A i \in Jobs : i # j => jobs'[i] = jobs[i]
      /\ jobs'[j].pc = "advance" /\ jobs'[j].phase = x.phase /\ jobs'[j].company = x.company
  BY <1>0 DEF Build, JobTo, JobRecord, Places, OnRunPC
<1>2. PICK y \in JobRecord : y = jobs'[j]  BY <1>1
<1>3. y.pc = "advance" /\ y.phase = "strategy" /\ y.company = x.company  BY <1>0, <1>1, <1>2
<1>4. JobType' /\ Steps(j, y)  BY <1>0, <1>1, <1>2, <1>3, Moved DEF JobPhaseOK, NextPhase
<1>5. UNCHANGED <<run, profile, saves, reports, deliveryFaults, mishaps>>  BY DEF Build
<1>6. campaigns \in Nat /\ deliveryFaults \in Nat /\ campaigns' \in Nat /\ campaigns' <= campaigns + 1
  BY CountOn, DeliveryAssumption DEF Build, DeliveryTypes, CountType
<1>7. DeliveryTypes'  BY <1>4, <1>5, <1>6 DEF DeliveryTypes, RunType, CountType, ProfileType, MishapType
<1>8. j \in OnRun /\ j \in HoldingProfile /\ j \notin OnReport  BY <1>0, Groups DEF OnRunPC, HoldPC, ReportPC
<1>9. y.pc \in OnRunPC /\ y.pc \notin ReportPC  BY <1>3 DEF OnRunPC, ReportPC
<1>11. RunInv'
  <2>1. ~PastBuild(x) /\ PastBuild(y)  BY <1>0, <1>3 DEF PastBuild
  <2>2. CASE "run" \in mishaps  BY <1>5, <2>2 DEF RunInv
  <2>3. CASE OneBuilds
    <3>1. campaigns <= deliveryFaults  BY <1>8, <2>1, <2>3 DEF OneBuilds
    <3>2. campaigns' <= 1 + deliveryFaults'  BY <1>5, <1>6, <3>1
    <3>3. deliveryFaults' \in Nat /\ deliveryFaults <= deliveryFaults'  BY <1>5, <1>6
    <3>4. CountType  BY DEF DeliveryTypes
    <3>5. OneBuilds'  BY <1>4, <1>6, <1>8, <1>9, <2>1, <2>3, <3>2, <3>3, <3>4, BuildsOn
    <3> QED  BY <3>5 DEF RunInv
  <2> QED  BY <2>2, <2>3 DEF RunInv, DeliveryInv
<1>12. CampaignInv'
  <2>1. y.phase \notin {"calendar", "content"}  BY <1>3
  <2> QED  BY <1>4, <1>5, <2>1, HasStill DEF DeliveryInv
<1>13. ProfileInv'  BY <1>3, <1>4, <1>5, <1>8, HoldsStill DEF DeliveryInv
<1>14. ReportInv'  BY <1>4, <1>5, <1>8, <1>9, OffReport DEF DeliveryInv
<1> QED  BY <1>7, <1>11, <1>12, <1>13, <1>14 DEF DeliveryInv

LEMMA StepSurfaceRead ==
  ASSUME DeliveryTypes, DeliveryInv, NEW j \in Jobs, SurfaceRead(j)
  PROVE  (DeliveryTypes /\ DeliveryInv)'
<1> DEFINE x == jobs[j]
<1>0. /\ jobs \in [Jobs -> JobRecord] /\ JobType /\ x \in JobRecord
      /\ x.pc = "surface" /\ x.phase = "calendar" /\ profile \in Profile
  BY DEF DeliveryTypes, JobType, JobPhaseOK, ProfileType, SurfaceRead, JobAt
<1>1. /\ jobs' \in [Jobs -> JobRecord] /\ \A i \in Jobs : i # j => jobs'[i] = jobs[i]
      /\ jobs'[j].phase = x.phase /\ jobs'[j].company = x.company
      /\ jobs'[j].fresh = profile /\ jobs'[j].pc = "surfacing"
  BY <1>0 DEF SurfaceRead, JobRecord, Places, OnRunPC
<1>2. PICK y \in JobRecord : y = jobs'[j]  BY <1>1
<1>3. y.phase = "calendar" /\ y.company = x.company /\ y.fresh = profile /\ y.pc = "surfacing"
  BY <1>0, <1>1, <1>2
<1>4. JobType' /\ Steps(j, y)  BY <1>0, <1>1, <1>2, <1>3, Moved DEF JobPhaseOK
<1>5. /\ UNCHANGED <<run, campaigns, profile, saves, reports, deliveryFaults>>
      /\ Noting("profile", HoldingProfile \ {j})
  BY DEF SurfaceRead
<1>6. mishaps \subseteq mishaps' /\ mishaps' \subseteq mishaps \cup {"profile"}  BY <1>5 DEF Noting
<1>7. DeliveryTypes'  BY <1>4, <1>5, <1>6 DEF DeliveryTypes, RunType, CountType, ProfileType, MishapType
<1>8. j \in OnRun /\ j \in HoldingProfile /\ j \notin OnReport  BY <1>0, Groups DEF OnRunPC, HoldPC, ReportPC
<1>9. y.pc \in OnRunPC /\ y.pc \notin ReportPC  BY <1>3 DEF OnRunPC, ReportPC
<1>10. deliveryFaults' \in Nat /\ deliveryFaults <= deliveryFaults'  BY <1>5 DEF DeliveryTypes, CountType
<1>11. RunInv'
  <2>1. PastBuild(x) => PastBuild(y)  BY <1>3 DEF PastBuild
  <2> QED  BY <1>4, <1>5, <1>6, <1>8, <1>9, <1>10, <2>1, BuildsStill DEF DeliveryInv
<1>12. CampaignInv'  BY <1>0, <1>4, <1>5, <1>6, <1>8, HasStill DEF DeliveryInv
<1>13. ProfileInv'
  <2>1. CASE "profile" \in mishaps'  BY <2>1 DEF ProfileInv
  <2>2. CASE OneHolds
    <3>1. profile'.edits = saves' /\ y.company = profile'  BY <1>3, <1>5, <1>8, <2>2 DEF OneHolds
    <3>2. OneHolds'  BY <1>3, <1>4, <1>5, <1>8, <2>2, <3>1, HoldsOn
    <3> QED  BY <3>2 DEF ProfileInv
  <2> QED  BY <1>6, <2>1, <2>2 DEF DeliveryInv, ProfileInv
<1>14. ReportInv'  BY <1>4, <1>5, <1>6, <1>8, <1>9, OffReport DEF DeliveryInv
<1> QED  BY <1>7, <1>11, <1>12, <1>13, <1>14 DEF DeliveryInv

(* What was surfaced is written, or not: the phase goes on either way.     *)
LEMMA StepSurfaced ==
  ASSUME DeliveryTypes, DeliveryInv, NEW j \in Jobs, SurfaceWrite(j) \/ SkipSurfacing(j)
  PROVE  (DeliveryTypes /\ DeliveryInv)'
<1> DEFINE x == jobs[j]
<1>0. /\ jobs \in [Jobs -> JobRecord] /\ JobType /\ x \in JobRecord
      /\ x.pc \in {"surface", "surfacing"} /\ x.phase = "calendar" /\ x.fresh \in Profile
  BY DEF DeliveryTypes, JobType, JobRecord, JobPhaseOK, SurfaceWrite, SkipSurfacing, JobAt
<1>a. Unedited \in Profile  BY RestingType DEF JobRecord, Resting
<1>1. /\ jobs' \in [Jobs -> JobRecord] /\ \A i \in Jobs : i # j => jobs'[i] = jobs[i]
      /\ jobs'[j].phase = x.phase /\ jobs'[j].company = x.company /\ jobs'[j].pc = "advance"
  BY <1>0, <1>a DEF SurfaceWrite, SkipSurfacing, JobRecord, Places, OnRunPC
<1>2. PICK y \in JobRecord : y = jobs'[j]  BY <1>1
<1>3. y.phase = "calendar" /\ y.company = x.company /\ y.pc = "advance"  BY <1>0, <1>1, <1>2
<1>4. JobType' /\ Steps(j, y)  BY <1>0, <1>1, <1>2, <1>3, Moved DEF JobPhaseOK, NextPhase
<1>5. /\ UNCHANGED <<run, campaigns, saves, reports, deliveryFaults, mishaps>>
      /\ profile' = profile \/ (x.pc = "surfacing" /\ profile' = x.fresh)
  BY DEF SurfaceWrite, SkipSurfacing, JobAt
<1>7. DeliveryTypes'  BY <1>0, <1>4, <1>5 DEF DeliveryTypes, RunType, CountType, ProfileType, MishapType
<1>8. j \in OnRun /\ j \in HoldingProfile /\ j \notin OnReport  BY <1>0, Groups DEF OnRunPC, HoldPC, ReportPC
<1>9. y.pc \in OnRunPC /\ y.pc \notin ReportPC  BY <1>3 DEF OnRunPC, ReportPC
<1>10. deliveryFaults' \in Nat /\ deliveryFaults <= deliveryFaults'  BY <1>5 DEF DeliveryTypes, CountType
<1>b. "profile" \in mishaps \/ (OneHolds /\ profile' = profile)
  BY <1>5, <1>8 DEF DeliveryInv, ProfileInv, OneHolds
<1>11. RunInv'
  <2>1. PastBuild(x) => PastBuild(y)  BY <1>3 DEF PastBuild
  <2> QED  BY <1>4, <1>5, <1>8, <1>9, <1>10, <2>1, BuildsStill DEF DeliveryInv
<1>12. CampaignInv'  BY <1>0, <1>4, <1>5, <1>8, HasStill DEF DeliveryInv
<1>13. ProfileInv'
  <2>1. CASE "profile" \in mishaps  BY <1>5, <2>1 DEF ProfileInv
  <2>2. CASE OneHolds /\ profile' = profile  BY <1>3, <1>4, <1>5, <1>8, <2>2, HoldsStill DEF DeliveryInv
  <2> QED  BY <1>b, <2>1, <2>2
<1>14. ReportInv'  BY <1>4, <1>5, <1>8, <1>9, <1>b, OffReport DEF DeliveryInv
<1> QED  BY <1>7, <1>11, <1>12, <1>13, <1>14 DEF DeliveryInv

LEMMA StepAdvance ==
  ASSUME DeliveryTypes, DeliveryInv, NEW j \in Jobs, Advance(j)
  PROVE  (DeliveryTypes /\ DeliveryInv)'
<1> DEFINE x == jobs[j]
<1>0. /\ jobs \in [Jobs -> JobRecord] /\ JobType /\ x \in JobRecord
      /\ x.pc = "advance" /\ x.phase \in {"analysing", "strategy", "calendar"}
  BY DEF DeliveryTypes, JobType, JobPhaseOK, NextPhase, Advance, JobAt
<1>a. NextPhase[x.phase] \in {"strategy", "calendar", "content"} /\ NextPhase[x.phase] \in InProgress
  BY <1>0 DEF NextPhase, InProgress
<1>1. /\ jobs' \in [Jobs -> JobRecord] /\ \A i \in Jobs : i # j => jobs'[i] = jobs[i]
      /\ jobs'[j].pc = "patch" /\ jobs'[j].phase = NextPhase[x.phase] /\ jobs'[j].company = x.company
  BY <1>0, <1>a DEF Advance, JobRecord, Places, OnRunPC
<1>2. PICK y \in JobRecord : y = jobs'[j]  BY <1>1
<1>3. y.pc = "patch" /\ y.phase = NextPhase[x.phase] /\ y.company = x.company  BY <1>1, <1>2
<1>4. JobType' /\ Steps(j, y)  BY <1>0, <1>1, <1>2, <1>3, Moved DEF JobPhaseOK
<1>5. UNCHANGED <<campaigns, profile, saves, reports, deliveryFaults, mishaps>>  BY DEF Advance
<1>6. /\ run' \in [phase : InProgress \cup Rest, campaign : BOOLEAN]
      /\ run'.phase = y.phase /\ run'.campaign = (run.campaign \/ x.phase = "strategy")
  BY <1>3, <1>a DEF Advance, DeliveryTypes, RunType
<1>7. DeliveryTypes'  BY <1>4, <1>5, <1>6 DEF DeliveryTypes, RunType, CountType, ProfileType, MishapType
<1>8. j \in OnRun /\ j \in HoldingProfile /\ j \notin OnReport  BY <1>0, Groups DEF OnRunPC, HoldPC, ReportPC
<1>9. y.pc \in OnRunPC /\ y.pc \notin ReportPC  BY <1>3 DEF OnRunPC, ReportPC
<1>10. deliveryFaults' \in Nat /\ deliveryFaults <= deliveryFaults'  BY <1>5 DEF DeliveryTypes, CountType
<1>11. RunInv'
  <2>1. PastBuild(x) => PastBuild(y)  BY <1>0, <1>3 DEF PastBuild, NextPhase
  <2> QED  BY <1>4, <1>5, <1>8, <1>9, <1>10, <2>1, BuildsStill DEF DeliveryInv
<1>12. CampaignInv'
  <2>1. CASE "lost" \in mishaps  BY <1>5, <2>1 DEF CampaignInv
  <2>2. CASE HasCampaign
    <3>1. x.phase = "calendar" => run.campaign  BY <1>8, <2>2 DEF HasCampaign
    <3>2. y.phase \in {"calendar", "content"} => x.phase \in {"strategy", "calendar"}
      BY <1>0, <1>3 DEF NextPhase
    <3>3. y.phase \in {"calendar", "content"} => run'.campaign  BY <1>6, <3>1, <3>2
    <3>4. run'.phase \in Late => run'.campaign  BY <1>3, <1>6, <1>a, <3>3 DEF Late
    <3>5. run.campaign => run'.campaign  BY <1>6
    <3>6. HasCampaign'  BY <1>4, <2>2, <3>3, <3>4, <3>5, HasOn
    <3> QED  BY <3>6 DEF CampaignInv
  <2> QED  BY <2>1, <2>2 DEF CampaignInv, DeliveryInv
<1>13. ProfileInv'  BY <1>3, <1>4, <1>5, <1>8, HoldsStill DEF DeliveryInv
<1>14. ReportInv'  BY <1>4, <1>5, <1>8, <1>9, OffReport DEF DeliveryInv
<1> QED  BY <1>7, <1>11, <1>12, <1>13, <1>14 DEF DeliveryInv

LEMMA StepAdvanceLost ==
  ASSUME DeliveryTypes, DeliveryInv, NEW j \in Jobs, AdvanceLost(j)
  PROVE  (DeliveryTypes /\ DeliveryInv)'
<1> DEFINE x == jobs[j]
<1>0. /\ jobs \in [Jobs -> JobRecord] /\ JobType /\ x \in JobRecord
      /\ x.pc = "advance" /\ x.phase \in {"analysing", "strategy", "calendar"}
  BY DEF DeliveryTypes, JobType, JobPhaseOK, NextPhase, AdvanceLost, JobAt
<1>a. NextPhase[x.phase] \in InProgress  BY <1>0 DEF NextPhase, InProgress
<1>1. /\ jobs' \in [Jobs -> JobRecord] /\ \A i \in Jobs : i # j => jobs'[i] = jobs[i]
      /\ jobs'[j].pc = "patch" /\ jobs'[j].phase = NextPhase[x.phase] /\ jobs'[j].company = x.company
  BY <1>0, <1>a DEF AdvanceLost, JobRecord, Places, OnRunPC
<1>2. PICK y \in JobRecord : y = jobs'[j]  BY <1>1
<1>3. y.pc = "patch" /\ y.phase = NextPhase[x.phase] /\ y.company = x.company  BY <1>1, <1>2
<1>4. JobType' /\ Steps(j, y)  BY <1>0, <1>1, <1>2, <1>3, Moved DEF JobPhaseOK
<1>5. UNCHANGED <<run, campaigns, profile, saves, reports>> /\ mishaps' = mishaps \cup {"lost"}
  BY DEF AdvanceLost
<1>6. mishaps \subseteq mishaps'  BY <1>5
<1>10. deliveryFaults' \in Nat /\ deliveryFaults <= deliveryFaults'
  BY DEF AdvanceLost, DeliveryTypes, CountType
<1>7. DeliveryTypes'  BY <1>4, <1>5, <1>10 DEF DeliveryTypes, RunType, CountType, ProfileType, MishapType
<1>8. j \in OnRun /\ j \in HoldingProfile /\ j \notin OnReport  BY <1>0, Groups DEF OnRunPC, HoldPC, ReportPC
<1>9. y.pc \in OnRunPC /\ y.pc \notin ReportPC  BY <1>3 DEF OnRunPC, ReportPC
<1>11. RunInv'
  <2>1. PastBuild(x) => PastBuild(y)  BY <1>0, <1>3 DEF PastBuild, NextPhase
  <2> QED  BY <1>4, <1>5, <1>6, <1>8, <1>9, <1>10, <2>1, BuildsStill DEF DeliveryInv
<1>12. CampaignInv'  BY <1>5 DEF CampaignInv
<1>13. ProfileInv'  BY <1>3, <1>4, <1>5, <1>6, <1>8, HoldsStill DEF DeliveryInv
<1>14. ReportInv'  BY <1>4, <1>5, <1>6, <1>8, <1>9, OffReport DEF DeliveryInv
<1> QED  BY <1>7, <1>11, <1>12, <1>13, <1>14 DEF DeliveryInv

LEMMA StepPatchCompany ==
  ASSUME DeliveryTypes, DeliveryInv, NEW j \in Jobs, PatchCompany(j)
  PROVE  (DeliveryTypes /\ DeliveryInv)'
<1> DEFINE x == jobs[j]
<1>0. jobs \in [Jobs -> JobRecord] /\ JobType /\ x \in JobRecord /\ x.pc = "patch" /\ x.company \in Profile
  BY DEF DeliveryTypes, JobType, JobRecord, PatchCompany, JobAt
<1>a. Unedited \in Profile  BY RestingType DEF JobRecord, Resting
<1>1. /\ jobs' \in [Jobs -> JobRecord] /\ \A i \in Jobs : i # j => jobs'[i] = jobs[i]
      /\ jobs'[j].pc = "enter" /\ jobs'[j].phase = x.phase
  BY <1>0, <1>a DEF PatchCompany, JobRecord, Places, OnRunPC
<1>2. PICK y \in JobRecord : y = jobs'[j]  BY <1>1
<1>3. y.pc = "enter" /\ y.phase = x.phase  BY <1>1, <1>2
<1>4. JobType' /\ Steps(j, y)  BY <1>0, <1>1, <1>2, <1>3, Moved DEF JobPhaseOK
<1>5. UNCHANGED <<run, campaigns, saves, reports, deliveryFaults, mishaps>> /\ profile' = x.company
  BY DEF PatchCompany
<1>7. DeliveryTypes'  BY <1>0, <1>4, <1>5 DEF DeliveryTypes, RunType, CountType, ProfileType, MishapType
<1>8. j \in OnRun /\ j \in HoldingProfile /\ j \notin OnReport  BY <1>0, Groups DEF OnRunPC, HoldPC, ReportPC
<1>9. y.pc \in OnRunPC /\ y.pc \notin HoldPC /\ y.pc \notin ReportPC  BY <1>3 DEF OnRunPC, HoldPC, ReportPC
<1>10. deliveryFaults' \in Nat /\ deliveryFaults <= deliveryFaults'  BY <1>5 DEF DeliveryTypes, CountType
<1>b. "profile" \in mishaps \/ (OneHolds /\ profile' = profile)
  BY <1>5, <1>8 DEF DeliveryInv, ProfileInv, OneHolds
<1>11. RunInv'
  <2>1. PastBuild(x) => PastBuild(y)  BY <1>0, <1>3 DEF PastBuild
  <2> QED  BY <1>4, <1>5, <1>8, <1>9, <1>10, <2>1, BuildsStill DEF DeliveryInv
<1>12. CampaignInv'  BY <1>3, <1>4, <1>5, <1>8, HasStill DEF DeliveryInv
<1>13. ProfileInv'
  <2>1. CASE "profile" \in mishaps  BY <1>5, <2>1 DEF ProfileInv
  <2>2. CASE OneHolds /\ profile' = profile  BY <1>4, <1>5, <1>9, <2>2, OffProfile DEF DeliveryInv
  <2> QED  BY <1>b, <2>1, <2>2
<1>14. ReportInv'  BY <1>4, <1>5, <1>8, <1>9, <1>b, OffReport DEF DeliveryInv
<1> QED  BY <1>7, <1>11, <1>12, <1>13, <1>14 DEF DeliveryInv

LEMMA StepFinishDelivery ==
  ASSUME DeliveryTypes, DeliveryInv, NEW j \in Jobs, NEW verdict \in {"awaiting_approval", "failed"},
         FinishDelivery(j, verdict)
  PROVE  (DeliveryTypes /\ DeliveryInv)'
<1> DEFINE x == jobs[j]
<1>0. /\ jobs \in [Jobs -> JobRecord] /\ JobType /\ x \in JobRecord
      /\ x.pc = "enter" /\ x.phase = "content"
  BY DEF DeliveryTypes, JobType, FinishDelivery, JobAt
<1>1. jobs' \in [Jobs -> JobRecord] /\ (\A i \in Jobs : i # j => jobs'[i] = jobs[i]) /\ jobs'[j] = Resting
  BY <1>0, RestingType DEF FinishDelivery, JobOver
<1>2. PICK y \in JobRecord : y = jobs'[j]  BY <1>1
<1>3. y = Resting /\ y.pc = "idle"  BY <1>1, <1>2 DEF Resting
<1>4. JobType' /\ Steps(j, y)  BY <1>0, <1>1, <1>2, <1>3, Moved DEF JobPhaseOK
<1>5. UNCHANGED <<campaigns, profile, saves, reports, deliveryFaults, mishaps>>  BY DEF FinishDelivery
<1>6. run' \in [phase : InProgress \cup Rest, campaign : BOOLEAN] /\ run'.phase = verdict /\ run'.campaign = run.campaign
  BY DEF FinishDelivery, DeliveryTypes, RunType, Rest
<1>7. DeliveryTypes'  BY <1>4, <1>5, <1>6 DEF DeliveryTypes, RunType, CountType, ProfileType, MishapType
<1>8. j \in OnRun /\ j \notin OnReport  BY <1>0, Groups DEF OnRunPC, ReportPC
<1>9. y.pc \notin OnRunPC /\ y.pc \notin HoldPC /\ y.pc \notin ReportPC  BY <1>3 DEF OnRunPC, HoldPC, ReportPC
<1>10. deliveryFaults' \in Nat  BY <1>5 DEF DeliveryTypes, CountType
<1>11. RunInv'
  <2>1. run'.phase \notin Early  BY <1>6 DEF Early
  <2> QED  BY <1>4, <1>5, <1>8, <1>9, <1>10, <2>1, BuildsNoMore DEF DeliveryInv
<1>12. CampaignInv'  BY <1>0, <1>4, <1>5, <1>6, <1>8, <1>9, HasStill DEF DeliveryInv
<1>13. ProfileInv'  BY <1>4, <1>5, <1>9, OffProfile DEF DeliveryInv
<1>14. ReportInv'  BY <1>4, <1>5, <1>8, <1>9, OffReport DEF DeliveryInv
<1> QED  BY <1>7, <1>11, <1>12, <1>13, <1>14 DEF DeliveryInv

LEMMA StepDeliveryThrows ==
  ASSUME DeliveryTypes, DeliveryInv, NEW j \in Jobs, DeliveryThrows(j)
  PROVE  (DeliveryTypes /\ DeliveryInv)'
<1> DEFINE x == jobs[j]
<1>0. jobs \in [Jobs -> JobRecord] /\ JobType /\ x \in JobRecord /\ j \in OnRun
  BY DEF DeliveryTypes, JobType, DeliveryThrows
<1>1. jobs' \in [Jobs -> JobRecord] /\ (\A i \in Jobs : i # j => jobs'[i] = jobs[i]) /\ jobs'[j] = Resting
  BY <1>0, RestingType DEF DeliveryThrows, JobOver
<1>2. PICK y \in JobRecord : y = jobs'[j]  BY <1>1
<1>3. y = Resting /\ y.pc = "idle"  BY <1>1, <1>2 DEF Resting
<1>4. JobType' /\ Steps(j, y)  BY <1>0, <1>1, <1>2, <1>3, Moved DEF JobPhaseOK
<1>5. UNCHANGED <<campaigns, profile, saves, reports, deliveryFaults, mishaps>>  BY DEF DeliveryThrows
<1>6. run' \in [phase : InProgress \cup Rest, campaign : BOOLEAN] /\ run'.phase = "failed" /\ run'.campaign = run.campaign
  BY DEF DeliveryThrows, DeliveryTypes, RunType, Rest
<1>7. DeliveryTypes'  BY <1>4, <1>5, <1>6 DEF DeliveryTypes, RunType, CountType, ProfileType, MishapType
<1>8. j \notin OnReport  BY <1>0, Groups DEF OnRunPC, ReportPC
<1>9. y.pc \notin OnRunPC /\ y.pc \notin HoldPC /\ y.pc \notin ReportPC  BY <1>3 DEF OnRunPC, HoldPC, ReportPC
<1>10. deliveryFaults' \in Nat  BY <1>5 DEF DeliveryTypes, CountType
<1>11. RunInv'
  <2>1. run'.phase \notin Early  BY <1>6 DEF Early
  <2> QED  BY <1>0, <1>4, <1>5, <1>9, <1>10, <2>1, BuildsNoMore DEF DeliveryInv
<1>12. CampaignInv'
  <2>1. run'.phase \notin Late  BY <1>6 DEF Late
  <2> QED  BY <1>4, <1>5, <1>6, <1>9, <2>1, HasStill DEF DeliveryInv
<1>13. ProfileInv'  BY <1>4, <1>5, <1>9, OffProfile DEF DeliveryInv
<1>14. ReportInv'  BY <1>4, <1>5, <1>8, <1>9, OffReport DEF DeliveryInv
<1> QED  BY <1>7, <1>11, <1>12, <1>13, <1>14 DEF DeliveryInv

LEMMA StepBeginReport ==
  ASSUME DeliveryTypes, DeliveryInv, NEW j \in Jobs, BeginReport(j)
  PROVE  (DeliveryTypes /\ DeliveryInv)'
<1> DEFINE x == jobs[j]
<1>0. jobs \in [Jobs -> JobRecord] /\ JobType /\ x \in JobRecord /\ x.pc = "idle"
  BY DEF DeliveryTypes, JobType, BeginReport, JobAt
<1>1. /\ jobs' \in [Jobs -> JobRecord] /\ \A i \in Jobs : i # j => jobs'[i] = jobs[i]
      /\ jobs'[j].pc = "due"
  BY <1>0 DEF BeginReport, JobTo, JobRecord, Places
<1>2. PICK y \in JobRecord : y = jobs'[j]  BY <1>1
<1>3. y.pc = "due"  BY <1>1, <1>2
<1>4. JobType' /\ Steps(j, y)  BY <1>0, <1>1, <1>2, <1>3, Moved DEF JobPhaseOK
<1>5. /\ UNCHANGED <<run, campaigns, profile, saves, reports, deliveryFaults>>
      /\ Noting("report", OnReport) /\ ~profile.sent
  BY DEF BeginReport
<1>6. mishaps \subseteq mishaps' /\ mishaps' \subseteq mishaps \cup {"report"}  BY <1>5 DEF Noting
<1>7. DeliveryTypes'  BY <1>4, <1>5, <1>6 DEF DeliveryTypes, RunType, CountType, ProfileType, MishapType
<1>8. j \notin OnRun /\ j \notin OnReport  BY <1>0, Groups DEF OnRunPC, ReportPC
<1>9. y.pc \notin OnRunPC /\ y.pc \notin HoldPC  BY <1>3 DEF OnRunPC, HoldPC
<1>10. deliveryFaults' \in Nat /\ deliveryFaults <= deliveryFaults'  BY <1>5 DEF DeliveryTypes, CountType
<1>11. RunInv' /\ CampaignInv'  BY <1>4, <1>5, <1>6, <1>8, <1>9, <1>10, OffRun DEF DeliveryInv
<1>13. ProfileInv'  BY <1>4, <1>5, <1>6, <1>9, OffProfile DEF DeliveryInv
<1>14. ReportInv'
  <2>1. CASE mishaps' \cap {"report", "profile"} # {}  BY <2>1 DEF ReportInv
  <2>2. CASE mishaps' \cap {"report", "profile"} = {}
    <3>1. OneReports /\ OnReport = {}  BY <1>5, <1>6, <2>2 DEF Noting, ReportInv, DeliveryInv
    <3>2. reports' = 0 /\ reports' <= 1  BY <1>5, <3>1 DEF OneReports
    <3>3. y.pc \in ReportPC  BY <1>3 DEF ReportPC
    <3>4. OneReports'  BY <1>4, <3>1, <3>2, <3>3, ReportsOn
    <3> QED  BY <3>4 DEF ReportInv
  <2> QED  BY <2>1, <2>2
<1> QED  BY <1>7, <1>11, <1>13, <1>14 DEF DeliveryInv

LEMMA StepPrepareReport ==
  ASSUME DeliveryTypes, DeliveryInv, NEW j \in Jobs, PrepareReport(j)
  PROVE  (DeliveryTypes /\ DeliveryInv)'
<1> DEFINE x == jobs[j]
<1>0. jobs \in [Jobs -> JobRecord] /\ JobType /\ x \in JobRecord /\ x.pc = "due" /\ profile \in Profile
  BY DEF DeliveryTypes, JobType, ProfileType, PrepareReport, JobAt
<1>1. /\ jobs' \in [Jobs -> JobRecord] /\ \A i \in Jobs : i # j => jobs'[i] = jobs[i]
      /\ jobs'[j].pc = "mail" /\ jobs'[j].company = profile
  BY <1>0 DEF PrepareReport, Fetch, JobRecord, Places
<1>2. PICK y \in JobRecord : y = jobs'[j]  BY <1>1
<1>3. y.pc = "mail" /\ y.company = profile  BY <1>1, <1>2
<1>4. JobType' /\ Steps(j, y)  BY <1>0, <1>1, <1>2, <1>3, Moved DEF JobPhaseOK
<1>5. UNCHANGED <<run, campaigns, profile, saves, reports, deliveryFaults>> /\ Noting("profile", HoldingProfile \ {j})
  BY DEF PrepareReport, Fetch
<1>6. mishaps \subseteq mishaps' /\ mishaps' \subseteq mishaps \cup {"profile"}  BY <1>5 DEF Noting
<1>7. DeliveryTypes'  BY <1>4, <1>5, <1>6 DEF DeliveryTypes, RunType, CountType, ProfileType, MishapType
<1>8. j \notin OnRun /\ j \in OnReport  BY <1>0, Groups DEF OnRunPC, ReportPC
<1>9. y.pc \notin OnRunPC /\ y.pc \in ReportPC  BY <1>3 DEF OnRunPC, ReportPC
<1>10. deliveryFaults' \in Nat /\ deliveryFaults <= deliveryFaults'  BY <1>5 DEF DeliveryTypes, CountType
<1>11. RunInv' /\ CampaignInv'  BY <1>4, <1>5, <1>6, <1>8, <1>9, <1>10, OffRun DEF DeliveryInv
<1>13. ProfileInv'  BY <1>3, <1>4, <1>5, Fetched DEF DeliveryInv
<1>14. ReportInv'
  <2>1. CASE mishaps \cap {"report", "profile"} # {}  BY <1>6, <2>1 DEF ReportInv
  <2>2. CASE OneReports
    <3>1. reports' = 0 /\ reports' <= 1  BY <1>0, <1>5, <1>8, <2>2 DEF OneReports
    <3>2. OneReports'  BY <1>4, <1>8, <1>9, <2>2, <3>1, ReportsOn
    <3> QED  BY <3>2 DEF ReportInv
  <2> QED  BY <2>1, <2>2 DEF ReportInv, DeliveryInv
<1> QED  BY <1>7, <1>11, <1>13, <1>14 DEF DeliveryInv

LEMMA StepSendReport ==
  ASSUME DeliveryTypes, DeliveryInv, NEW j \in Jobs, SendReport(j)
  PROVE  (DeliveryTypes /\ DeliveryInv)'
<1> DEFINE x == jobs[j]
<1>0. jobs \in [Jobs -> JobRecord] /\ JobType /\ x \in JobRecord /\ x.pc = "mail"
  BY DEF DeliveryTypes, JobType, SendReport, JobAt
<1>1. /\ jobs' \in [Jobs -> JobRecord] /\ \A i \in Jobs : i # j => jobs'[i] = jobs[i]
      /\ jobs'[j].pc = "mailed" /\ jobs'[j].company = x.company
  BY <1>0 DEF SendReport, JobTo, JobRecord, Places
<1>2. PICK y \in JobRecord : y = jobs'[j]  BY <1>1
<1>3. y.pc = "mailed" /\ y.company = x.company  BY <1>1, <1>2
<1>4. JobType' /\ Steps(j, y)  BY <1>0, <1>1, <1>2, <1>3, Moved DEF JobPhaseOK
<1>5. UNCHANGED <<run, campaigns, profile, saves, deliveryFaults, mishaps>>  BY DEF SendReport
<1>6. reports \in Nat /\ reports' \in Nat /\ reports' <= reports + 1
  BY CountOn, DeliveryAssumption DEF SendReport, DeliveryTypes, CountType
<1>7. DeliveryTypes'  BY <1>4, <1>5, <1>6 DEF DeliveryTypes, RunType, CountType, ProfileType, MishapType
<1>8. j \notin OnRun /\ j \in OnReport /\ j \in HoldingProfile  BY <1>0, Groups DEF OnRunPC, ReportPC, HoldPC
<1>9. y.pc \notin OnRunPC /\ y.pc \in ReportPC  BY <1>3 DEF OnRunPC, ReportPC
<1>10. deliveryFaults' \in Nat /\ deliveryFaults <= deliveryFaults'  BY <1>5 DEF DeliveryTypes, CountType
<1>11. RunInv' /\ CampaignInv'  BY <1>4, <1>5, <1>8, <1>9, <1>10, OffRun DEF DeliveryInv
<1>13. ProfileInv'  BY <1>3, <1>4, <1>5, <1>8, HoldsStill DEF DeliveryInv
<1>14. ReportInv'
  <2>1. CASE mishaps \cap {"report", "profile"} # {}  BY <1>5, <2>1 DEF ReportInv
  <2>2. CASE OneReports
    <3>1. reports = 0  BY <1>0, <1>8, <2>2 DEF OneReports
    <3>2. reports' <= 1  BY <1>6, <3>1
    <3>3. y.pc \notin {"due", "mail"}  BY <1>3
    <3>4. OneReports'  BY <1>4, <1>8, <1>9, <2>2, <3>2, <3>3, ReportsOn
    <3> QED  BY <3>4 DEF ReportInv
  <2> QED  BY <2>1, <2>2 DEF ReportInv, DeliveryInv
<1> QED  BY <1>7, <1>11, <1>13, <1>14 DEF DeliveryInv

LEMMA StepMarkReported ==
  ASSUME DeliveryTypes, DeliveryInv, NEW j \in Jobs, MarkReported(j)
  PROVE  (DeliveryTypes /\ DeliveryInv)'
<1> DEFINE x == jobs[j]
<1>0. jobs \in [Jobs -> JobRecord] /\ JobType /\ x \in JobRecord /\ x.pc = "mailed" /\ x.company \in Profile
  BY DEF DeliveryTypes, JobType, JobRecord, MarkReported, JobAt
<1>1. jobs' \in [Jobs -> JobRecord] /\ (\A i \in Jobs : i # j => jobs'[i] = jobs[i]) /\ jobs'[j] = Resting
  BY <1>0, RestingType DEF MarkReported, JobOver
<1>2. PICK y \in JobRecord : y = jobs'[j]  BY <1>1
<1>3. y = Resting /\ y.pc = "idle"  BY <1>1, <1>2 DEF Resting
<1>4. JobType' /\ Steps(j, y)  BY <1>0, <1>1, <1>2, <1>3, Moved DEF JobPhaseOK
<1>5. UNCHANGED <<run, campaigns, saves, reports, deliveryFaults, mishaps>>  BY DEF MarkReported
<1>6. profile' \in Profile /\ profile'.sent /\ profile'.edits = x.company.edits
  BY <1>0 DEF MarkReported, Profile
<1>7. DeliveryTypes'  BY <1>4, <1>5, <1>6 DEF DeliveryTypes, RunType, CountType, ProfileType, MishapType
<1>8. j \notin OnRun /\ j \in OnReport /\ j \in HoldingProfile  BY <1>0, Groups DEF OnRunPC, ReportPC, HoldPC
<1>9. y.pc \notin OnRunPC /\ y.pc \notin ReportPC /\ y.pc \notin HoldPC  BY <1>3 DEF OnRunPC, ReportPC, HoldPC
<1>10. deliveryFaults' \in Nat /\ deliveryFaults <= deliveryFaults'  BY <1>5 DEF DeliveryTypes, CountType
<1>11. RunInv' /\ CampaignInv'  BY <1>4, <1>5, <1>8, <1>9, <1>10, OffRun DEF DeliveryInv
<1>13. ProfileInv'
  <2>1. CASE "profile" \in mishaps  BY <1>5, <2>1 DEF ProfileInv
  <2>2. CASE OneHolds
    <3>1. profile'.edits = saves'  BY <1>5, <1>6, <1>8, <2>2 DEF OneHolds
    <3>2. OneHolds'  BY <1>4, <1>8, <1>9, <2>2, <3>1, HoldsOn
    <3> QED  BY <3>2 DEF ProfileInv
  <2> QED  BY <2>1, <2>2 DEF ProfileInv, DeliveryInv
<1>14. ReportInv'
  <2>1. CASE mishaps \cap {"report", "profile"} # {}  BY <1>5, <2>1 DEF ReportInv
  <2>2. CASE OneReports
    <3>1. reports' <= 1  BY <1>5, <2>2 DEF OneReports
    <3>2. y.pc \notin {"due", "mail"}  BY <1>3
    <3>3. OneReports'  BY <1>4, <1>6, <1>8, <1>9, <2>2, <3>1, <3>2, ReportsOn
    <3> QED  BY <3>3 DEF ReportInv
  <2> QED  BY <2>1, <2>2 DEF ReportInv, DeliveryInv
<1> QED  BY <1>7, <1>11, <1>13, <1>14 DEF DeliveryInv

LEMMA StepBeginSave ==
  ASSUME DeliveryTypes, DeliveryInv, NEW j \in Jobs, BeginSave(j)
  PROVE  (DeliveryTypes /\ DeliveryInv)'
<1> DEFINE x == jobs[j]
<1>0. jobs \in [Jobs -> JobRecord] /\ JobType /\ x \in JobRecord /\ x.pc = "idle" /\ profile \in Profile
  BY DEF DeliveryTypes, JobType, ProfileType, BeginSave, JobAt
<1>1. /\ jobs' \in [Jobs -> JobRecord] /\ \A i \in Jobs : i # j => jobs'[i] = jobs[i]
      /\ jobs'[j].pc = "save" /\ jobs'[j].company = profile
  BY <1>0 DEF BeginSave, Fetch, JobRecord, Places
<1>2. PICK y \in JobRecord : y = jobs'[j]  BY <1>1
<1>3. y.pc = "save" /\ y.company = profile  BY <1>1, <1>2
<1>4. JobType' /\ Steps(j, y)  BY <1>0, <1>1, <1>2, <1>3, Moved DEF JobPhaseOK
<1>5. UNCHANGED <<run, campaigns, profile, saves, reports, deliveryFaults>> /\ Noting("profile", HoldingProfile \ {j})
  BY DEF BeginSave, Fetch
<1>6. mishaps \subseteq mishaps' /\ mishaps' \subseteq mishaps \cup {"profile"}  BY <1>5 DEF Noting
<1>7. DeliveryTypes'  BY <1>4, <1>5, <1>6 DEF DeliveryTypes, RunType, CountType, ProfileType, MishapType
<1>8. j \notin OnRun /\ j \notin OnReport  BY <1>0, Groups DEF OnRunPC, ReportPC
<1>9. y.pc \notin OnRunPC /\ y.pc \notin ReportPC  BY <1>3 DEF OnRunPC, ReportPC
<1>10. deliveryFaults' \in Nat /\ deliveryFaults <= deliveryFaults'  BY <1>5 DEF DeliveryTypes, CountType
<1>11. RunInv' /\ CampaignInv'  BY <1>4, <1>5, <1>6, <1>8, <1>9, <1>10, OffRun DEF DeliveryInv
<1>13. ProfileInv'  BY <1>3, <1>4, <1>5, Fetched DEF DeliveryInv
<1>14. ReportInv'  BY <1>4, <1>5, <1>6, <1>8, <1>9, OffReport DEF DeliveryInv
<1> QED  BY <1>7, <1>11, <1>13, <1>14 DEF DeliveryInv

LEMMA StepSaveCompany ==
  ASSUME DeliveryTypes, DeliveryInv, NEW j \in Jobs, SaveCompany(j)
  PROVE  (DeliveryTypes /\ DeliveryInv)'
<1> DEFINE x == jobs[j]
<1>0. jobs \in [Jobs -> JobRecord] /\ JobType /\ x \in JobRecord /\ x.pc = "save" /\ x.company \in Profile
  BY DEF DeliveryTypes, JobType, JobRecord, SaveCompany, JobAt
<1>1. jobs' \in [Jobs -> JobRecord] /\ (\A i \in Jobs : i # j => jobs'[i] = jobs[i]) /\ jobs'[j] = Resting
  BY <1>0, RestingType DEF SaveCompany, JobOver
<1>2. PICK y \in JobRecord : y = jobs'[j]  BY <1>1
<1>3. y = Resting /\ y.pc = "idle"  BY <1>1, <1>2 DEF Resting
<1>4. JobType' /\ Steps(j, y)  BY <1>0, <1>1, <1>2, <1>3, Moved DEF JobPhaseOK
<1>5. UNCHANGED <<run, campaigns, reports, deliveryFaults, mishaps>> /\ saves' = saves + 1  BY DEF SaveCompany
<1>6. profile' \in Profile /\ profile'.sent = x.company.sent /\ profile'.edits = x.company.edits + 1
  BY <1>0 DEF SaveCompany, Profile
<1>a. saves \in Nat /\ saves' \in Nat  BY <1>5 DEF DeliveryTypes, CountType
<1>7. DeliveryTypes'  BY <1>4, <1>5, <1>6, <1>a DEF DeliveryTypes, RunType, CountType, ProfileType, MishapType
<1>8. j \notin OnRun /\ j \notin OnReport /\ j \in HoldingProfile  BY <1>0, Groups DEF OnRunPC, ReportPC, HoldPC
<1>9. y.pc \notin OnRunPC /\ y.pc \notin ReportPC /\ y.pc \notin HoldPC  BY <1>3 DEF OnRunPC, ReportPC, HoldPC
<1>10. deliveryFaults' \in Nat /\ deliveryFaults <= deliveryFaults'  BY <1>5 DEF DeliveryTypes, CountType
<1>11. RunInv' /\ CampaignInv'  BY <1>4, <1>5, <1>8, <1>9, <1>10, OffRun DEF DeliveryInv
<1>b. "profile" \in mishaps \/ (OneHolds /\ x.company = profile)
  BY <1>8 DEF DeliveryInv, ProfileInv, OneHolds
<1>13. ProfileInv'
  <2>1. CASE "profile" \in mishaps  BY <1>5, <2>1 DEF ProfileInv
  <2>2. CASE OneHolds /\ x.company = profile
    <3>1. profile'.edits = saves'  BY <1>5, <1>6, <2>2 DEF OneHolds
    <3>2. OneHolds'  BY <1>4, <1>8, <1>9, <2>2, <3>1, HoldsOn
    <3> QED  BY <3>2 DEF ProfileInv
  <2> QED  BY <1>b, <2>1, <2>2
<1>14. ReportInv'
  <2>1. "profile" \in mishaps \/ (profile.sent => profile'.sent)  BY <1>b, <1>6
  <2> QED  BY <1>4, <1>5, <1>8, <1>9, <2>1, OffReport DEF DeliveryInv
<1> QED  BY <1>7, <1>11, <1>13, <1>14 DEF DeliveryInv

LEMMA StepSaveSuggestion ==
  ASSUME DeliveryTypes, DeliveryInv, NEW j \in Jobs, SaveSuggestion(j)
  PROVE  (DeliveryTypes /\ DeliveryInv)'
<1> DEFINE x == jobs[j]
<1>0. jobs \in [Jobs -> JobRecord] /\ JobType /\ x \in JobRecord /\ x.pc = "save" /\ x.company \in Profile
  BY DEF DeliveryTypes, JobType, JobRecord, SaveSuggestion, JobAt
<1>1. jobs' \in [Jobs -> JobRecord] /\ (\A i \in Jobs : i # j => jobs'[i] = jobs[i]) /\ jobs'[j] = Resting
  BY <1>0, RestingType DEF SaveSuggestion, JobOver
<1>2. PICK y \in JobRecord : y = jobs'[j]  BY <1>1
<1>3. y = Resting /\ y.pc = "idle"  BY <1>1, <1>2 DEF Resting
<1>4. JobType' /\ Steps(j, y)  BY <1>0, <1>1, <1>2, <1>3, Moved DEF JobPhaseOK
<1>5. UNCHANGED <<run, campaigns, saves, reports, deliveryFaults, mishaps>> /\ profile' = x.company
  BY DEF SaveSuggestion
<1>7. DeliveryTypes'  BY <1>0, <1>4, <1>5 DEF DeliveryTypes, RunType, CountType, ProfileType, MishapType
<1>8. j \notin OnRun /\ j \notin OnReport /\ j \in HoldingProfile  BY <1>0, Groups DEF OnRunPC, ReportPC, HoldPC
<1>9. y.pc \notin OnRunPC /\ y.pc \notin ReportPC /\ y.pc \notin HoldPC  BY <1>3 DEF OnRunPC, ReportPC, HoldPC
<1>10. deliveryFaults' \in Nat /\ deliveryFaults <= deliveryFaults'  BY <1>5 DEF DeliveryTypes, CountType
<1>11. RunInv' /\ CampaignInv'  BY <1>4, <1>5, <1>8, <1>9, <1>10, OffRun DEF DeliveryInv
<1>b. "profile" \in mishaps \/ (OneHolds /\ profile' = profile)
  BY <1>5, <1>8 DEF DeliveryInv, ProfileInv, OneHolds
<1>13. ProfileInv'
  <2>1. CASE "profile" \in mishaps  BY <1>5, <2>1 DEF ProfileInv
  <2>2. CASE OneHolds /\ profile' = profile  BY <1>4, <1>5, <1>9, <2>2, OffProfile DEF DeliveryInv
  <2> QED  BY <1>b, <2>1, <2>2
<1>14. ReportInv'  BY <1>4, <1>5, <1>8, <1>9, <1>b, OffReport DEF DeliveryInv
<1> QED  BY <1>7, <1>11, <1>13, <1>14 DEF DeliveryInv

LEMMA StepKillJob ==
  ASSUME DeliveryTypes, DeliveryInv, NEW j \in Jobs, KillJob(j)
  PROVE  (DeliveryTypes /\ DeliveryInv)'
<1> DEFINE x == jobs[j]
<1>0. jobs \in [Jobs -> JobRecord] /\ JobType /\ x \in JobRecord
  BY DEF DeliveryTypes, JobType
<1>1. jobs' \in [Jobs -> JobRecord] /\ (\A i \in Jobs : i # j => jobs'[i] = jobs[i]) /\ jobs'[j] = Resting
  BY <1>0, RestingType DEF KillJob, JobOver
<1>2. PICK y \in JobRecord : y = jobs'[j]  BY <1>1
<1>3. y = Resting /\ y.pc = "idle"  BY <1>1, <1>2 DEF Resting
<1>4. JobType' /\ Steps(j, y)  BY <1>0, <1>1, <1>2, <1>3, Moved DEF JobPhaseOK
<1>5. UNCHANGED <<run, campaigns, profile, saves, reports>> /\ deliveryFaults' = deliveryFaults + 1
  BY DEF KillJob
<1>6. /\ mishaps \subseteq mishaps' /\ mishaps' \subseteq mishaps \cup {"report"}
      /\ x.pc = "mailed" => "report" \in mishaps'
  BY DEF KillJob, Noting, JobAt
<1>10. deliveryFaults' \in Nat /\ deliveryFaults <= deliveryFaults'  BY <1>5 DEF DeliveryTypes, CountType
<1>7. DeliveryTypes'  BY <1>4, <1>5, <1>6, <1>10 DEF DeliveryTypes, RunType, CountType, ProfileType, MishapType
<1>9. y.pc \notin OnRunPC /\ y.pc \notin ReportPC /\ y.pc \notin HoldPC  BY <1>3 DEF OnRunPC, ReportPC, HoldPC
<1>11. RunInv'
  <2>1. CASE j \in OnRun  BY <1>4, <1>5, <1>6, <1>9, <1>10, <2>1, BuildsNoMore DEF DeliveryInv
  <2>2. CASE j \notin OnRun  BY <1>4, <1>5, <1>6, <1>9, <1>10, <2>2, OffRun DEF DeliveryInv
  <2> QED  BY <2>1, <2>2
<1>12. CampaignInv'  BY <1>4, <1>5, <1>6, <1>9, HasStill DEF DeliveryInv
<1>13. ProfileInv'  BY <1>4, <1>5, <1>6, <1>9, OffProfile DEF DeliveryInv
<1>14. ReportInv'
  <2>1. CASE j \notin OnReport  BY <1>4, <1>5, <1>6, <1>9, <2>1, OffReport DEF DeliveryInv
  <2>2. CASE x.pc = "mailed"  BY <1>6, <2>2 DEF ReportInv
  <2>3. CASE mishaps \cap {"report", "profile"} # {}  BY <1>6, <2>3 DEF ReportInv
  <2>4. CASE OneReports /\ j \in OnReport /\ x.pc # "mailed"
    <3>1. reports' = 0 /\ reports' <= 1  BY <1>5, <2>4 DEF OneReports
    <3>2. OneReports'  BY <1>4, <1>9, <2>4, <3>1, ReportsOn
    <3> QED  BY <3>2 DEF ReportInv
  <2> QED  BY <2>1, <2>2, <2>3, <2>4 DEF ReportInv, DeliveryInv
<1> QED  BY <1>7, <1>11, <1>12, <1>13, <1>14 DEF DeliveryInv

-----------------------------------------------------------------------------
LEMMA DeliveryStep ==
  ASSUME DeliveryTypes, DeliveryInv, [DeliveryNext]_deliveryVars
  PROVE  (DeliveryTypes /\ DeliveryInv)'
<1>1. CASE DeliveryNext
  <2>1. PICK j \in Jobs : \/ JobStep(j) \/ KillJob(j) \/ AdvanceLost(j)
                          \/ BeginDelivery(j) \/ BeginReport(j) \/ BeginSave(j)
    BY <1>1 DEF DeliveryNext
  <2>2. CASE JobStep(j)
    BY <2>2, StepValidate, StepEnter, StepBuild, StepAdvance, StepPatchCompany, StepDeliveryThrows, StepValidated,
       StepFinishDelivery, StepPrepareReport, StepSendReport, StepMarkReported, StepSaveCompany, StepSaveSuggestion,
       StepSurfaceRead, StepSurfaced DEF JobStep
  <2> QED  BY <2>1, <2>2, StepKillJob, StepAdvanceLost, StepBeginDelivery, StepBeginReport, StepBeginSave
<1>2. CASE UNCHANGED deliveryVars
  <2>1. OnRun' = OnRun /\ HoldingProfile' = HoldingProfile /\ OnReport' = OnReport
    BY <1>2 DEF deliveryVars, OnRun, HoldingProfile, OnReport
  <2>2. DeliveryTypes'
    BY <1>2 DEF deliveryVars, DeliveryTypes, RunType, CountType, ProfileType, MishapType, JobType
  <2>3. RunInv'  BY <1>2, <2>1 DEF deliveryVars, DeliveryInv, RunInv, OneBuilds
  <2>4. CampaignInv'  BY <1>2, <2>1 DEF deliveryVars, DeliveryInv, CampaignInv, HasCampaign
  <2>5. ProfileInv'  BY <1>2, <2>1 DEF deliveryVars, DeliveryInv, ProfileInv, OneHolds
  <2>6. ReportInv'  BY <1>2, <2>1 DEF deliveryVars, DeliveryInv, ReportInv, OneReports
  <2> QED  BY <2>2, <2>3, <2>4, <2>5, <2>6 DEF DeliveryInv
<1> QED  BY <1>1, <1>2

LEMMA DeliveryStart ==
  ASSUME DeliveryInit
  PROVE  DeliveryTypes /\ DeliveryInv
<1>1. jobs \in [Jobs -> JobRecord] /\ (\A j \in Jobs : jobs[j].pc = "idle") /\ Unedited \in Profile
  BY RestingType DEF DeliveryInit, Resting, JobRecord
<1>2. JobType  BY <1>1 DEF JobType, JobPhaseOK
<1>3. DeliveryTypes
  BY <1>2, RestingType DEF DeliveryInit, DeliveryTypes, RunType, CountType, ProfileType, MishapType, JobRecord, Resting, InProgress
<1>4. OnRun = {} /\ HoldingProfile = {} /\ OnReport = {}  BY <1>1 DEF OnRun, HoldingProfile, OnReport, InPhase
<1>5. OneBuilds /\ HasCampaign  BY <1>4 DEF DeliveryInit, OneBuilds, HasCampaign, Late
<1>6. OneHolds /\ OneReports  BY <1>4 DEF DeliveryInit, OneHolds, OneReports, Resting, Unedited
<1> QED  BY <1>3, <1>5, <1>6 DEF DeliveryInv, RunInv, CampaignInv, ProfileInv, ReportInv

LEMMA DeliveryHolds == DeliverySpec => [](DeliveryTypes /\ DeliveryInv)
<1>1. DeliveryInit => DeliveryTypes /\ DeliveryInv  BY DeliveryStart
<1>2. DeliveryTypes /\ DeliveryInv /\ [DeliveryNext]_deliveryVars => (DeliveryTypes /\ DeliveryInv)'
  BY DeliveryStep
<1> QED  BY <1>1, <1>2, PTL DEF DeliverySpec

(* A delivery run builds one campaign, and one more for every request killed or
   write lost while it was at it, unless two ticks overlapped; a run that is
   past its strategy has its campaign, unless that write was lost: however many
   ticks, saves and reports, and whenever they throw or are killed
   (managed-service/delivery-runner.ts). *)
THEOREM CampaignsAreBuiltOnce == DeliverySpec => []OneCampaignPerRun
<1>1. DeliveryTypes /\ DeliveryInv => OneCampaignPerRun
  BY DEF DeliveryInv, RunInv, CampaignInv, OneBuilds, HasCampaign, Late, OneCampaignPerRun
<1> QED  BY <1>1, DeliveryHolds, PTL

(* What the company form saved stays in the profile, and a period has one
   report: a request that read the profile before another wrote it - a delivery,
   a report, a form or the calendar assistant - is the only way to lose an edit;
   a second report also takes two ticks that found it due, or one that died
   between the mail and the profile (client-reports.ts). *)
THEOREM ProfileIsKept == DeliverySpec => []ProfileKept
<1>1. DeliveryTypes /\ DeliveryInv => ProfileKept
  BY DEF DeliveryInv, ProfileInv, ReportInv, OneHolds, OneReports, ProfileKept
<1> QED  BY <1>1, DeliveryHolds, PTL
-----------------------------------------------------------------------------
(* Drafting: what a request is at.                                         *)
DraftRecord == [pc : {"idle", "budget", "list", "open", "generate", "create", "record"},
                job : RunJobs \cup {"accept"}, seen : SUBSET Topics, row : SUBSET Topics]
Runs(x) == x.pc # "idle" /\ x.job \in RunJobs
Unlogged(x) == x.pc \in {"create", "record"}
Granted(x) == x.pc \in {"open", "generate"}

DrafterOK(x) ==
  /\ x.pc = "idle" => x.job = "campaign"
  /\ x.job = "topic" /\ x.pc \in {"generate", "create"} => \E t \in Topics : x.row = {t} /\ t \in x.seen

DraftTypes ==
  /\ spent \in Nat /\ called \in Nat /\ openDrafts \in Nat /\ draftFaults \in Nat
  /\ drafted \in [Topics -> Nat] /\ overlaps \subseteq {"run"}
  /\ drafters \in [Drafters -> DraftRecord] /\ \A d \in Drafters : DrafterOK(drafters[d])

(* Who is past the budget check and has not called yet counts as called; what
   was called and is not yet spent is in somebody's hands, or a fault. *)
PastCheck == {d \in Drafters : Granted(drafters[d])}
Unrecorded == {d \in Drafters : Unlogged(drafters[d])}
Metered ==
  /\ called + Cardinality(PastCheck) <= Budget - 1 + Cardinality(Drafters) + draftFaults
  /\ called <= spent + Cardinality(Unrecorded) + draftFaults

(* One run at a time, and what it is about to draft is not there, but for a
   fault. *)
RunOK(x) ==
  /\ x.job = "campaign" /\ x.pc \in {"generate", "create"} => openDrafts <= draftFaults
  /\ x.job = "topic" => \A t \in Topics :
       /\ x.pc # "list" /\ t \notin x.seen => drafted[t] <= draftFaults
       /\ t \in x.row /\ x.pc \in {"generate", "create"} => drafted[t] <= draftFaults
OneRuns ==
  /\ \A c, d \in Drafters : Runs(drafters[c]) /\ Runs(drafters[d]) => c = d
  /\ openDrafts <= 1 + draftFaults /\ \A t \in Topics : drafted[t] <= 1 + draftFaults
  /\ \A d \in Drafters : Runs(drafters[d]) => RunOK(drafters[d])

MeterInv == IsFiniteSet(Drafters) => Metered
RunsInv == "run" \in overlaps \/ OneRuns
DraftInv == MeterInv /\ RunsInv

Acts(d, y) == \A c \in Drafters : drafters'[c] = IF c = d THEN y ELSE drafters[c]
One(b) == IF b THEN 1 ELSE 0

-----------------------------------------------------------------------------
LEMMA FreeType == Free \in DraftRecord /\ DrafterOK(Free) /\ ~Granted(Free) /\ ~Unlogged(Free) /\ ~Runs(Free)
BY DEF Free, DraftRecord, DrafterOK, Granted, Unlogged, Runs, RunJobs

LEMMA Tellers ==
  ASSUME IsFiniteSet(Drafters), NEW d \in Drafters, NEW y, Acts(d, y)
  PROVE  /\ Cardinality(PastCheck) \in Nat /\ Cardinality(PastCheck') \in Nat
         /\ Cardinality(PastCheck') + One(Granted(drafters[d])) = Cardinality(PastCheck) + One(Granted(y))
         /\ Cardinality(Unrecorded) \in Nat /\ Cardinality(Unrecorded') \in Nat
         /\ Cardinality(Unrecorded') + One(Unlogged(drafters[d])) = Cardinality(Unrecorded) + One(Unlogged(y))
<1>1. /\ IsFiniteSet(PastCheck) /\ IsFiniteSet(PastCheck')
      /\ IsFiniteSet(Unrecorded) /\ IsFiniteSet(Unrecorded')
  <2>1. PastCheck \subseteq Drafters /\ PastCheck' \subseteq Drafters
        /\ Unrecorded \subseteq Drafters /\ Unrecorded' \subseteq Drafters  BY DEF PastCheck, Unrecorded
  <2> QED  BY <2>1, FS_Subset
<1>2. /\ d \in PastCheck <=> Granted(drafters[d])
      /\ d \in Unrecorded <=> Unlogged(drafters[d])
  BY DEF PastCheck, Unrecorded
<1>3. PastCheck' = IF Granted(y) THEN PastCheck \cup {d} ELSE PastCheck \ {d}
  <2>1. \A c \in Drafters : c \in PastCheck' <=> IF c = d THEN Granted(y) ELSE c \in PastCheck
    BY DEF PastCheck, Acts, Granted
  <2> QED  BY <2>1 DEF PastCheck
<1>4. Unrecorded' = IF Unlogged(y) THEN Unrecorded \cup {d} ELSE Unrecorded \ {d}
  <2>1. \A c \in Drafters : c \in Unrecorded' <=> IF c = d THEN Unlogged(y) ELSE c \in Unrecorded
    BY DEF Unrecorded, Acts, Unlogged
  <2> QED  BY <2>1 DEF Unrecorded
<1>5. ASSUME NEW S, IsFiniteSet(S)
      PROVE  /\ Cardinality(S) \in Nat
             /\ Cardinality(S \cup {d}) = Cardinality(S) + One(d \notin S)
             /\ Cardinality(S \ {d}) = Cardinality(S) - One(d \in S)
  BY <1>5, FS_CardinalityType, FS_AddElement, FS_RemoveElement DEF One
<1>6. Cardinality(PastCheck') + One(Granted(drafters[d])) = Cardinality(PastCheck) + One(Granted(y))
  BY <1>1, <1>2, <1>3, <1>5 DEF One
<1>7. Cardinality(Unrecorded') + One(Unlogged(drafters[d])) = Cardinality(Unrecorded) + One(Unlogged(y))
  BY <1>1, <1>2, <1>4, <1>5 DEF One
<1> QED  BY <1>1, <1>6, <1>7, FS_CardinalityType

(* Nobody is past the check and past the call at once.                     *)
LEMMA Apart ==
  ASSUME IsFiniteSet(Drafters)
  PROVE  /\ Cardinality(Drafters) \in Nat
         /\ Cardinality(PastCheck) + Cardinality(Unrecorded) <= Cardinality(Drafters)
<1>1. PastCheck \cap Unrecorded = {}  BY DEF PastCheck, Unrecorded, Granted, Unlogged
<1>2. PastCheck \subseteq Drafters /\ Unrecorded \subseteq Drafters /\ PastCheck \cup Unrecorded \subseteq Drafters
  BY DEF PastCheck, Unrecorded
<1>3. IsFiniteSet(PastCheck) /\ IsFiniteSet(Unrecorded)  BY <1>2, FS_Subset
<1>4. Cardinality(PastCheck \cup Unrecorded) = Cardinality(PastCheck) + Cardinality(Unrecorded)
  <2>1. ASSUME NEW S, NEW T, IsFiniteSet(S), IsFiniteSet(T), S \cap T = {}
        PROVE  Cardinality(S \cup T) = Cardinality(S) + Cardinality(T)
    <3>1. Cardinality(S \cup T) = Cardinality(S) + Cardinality(T) - Cardinality(S \cap T)
      BY <2>1, FS_Union
    <3>2. Cardinality(S \cap T) = 0  BY <2>1, FS_EmptySet
    <3>3. Cardinality(S) \in Nat /\ Cardinality(T) \in Nat  BY <2>1, FS_CardinalityType
    <3> QED  BY <3>1, <3>2, <3>3
  <2> QED  BY <1>1, <1>3, <2>1
<1> QED  BY <1>2, <1>4, FS_Subset, FS_CardinalityType

(* The meter is kept by whoever is granted a generation under the cap, passes
   it on, logs it or loses it. *)
LEMMA MetersOn ==
  ASSUME DraftTypes, MeterInv, NEW d \in Drafters, NEW y, Acts(d, y),
         spent' \in Nat, called' \in Nat, draftFaults' \in Nat,
         \/ /\ UNCHANGED <<spent, called, draftFaults>> /\ spent < Budget
            /\ Unlogged(y) <=> Unlogged(drafters[d])
         \/ called' + One(Granted(y)) + draftFaults <= called + One(Granted(drafters[d])) + draftFaults',
         called' + One(Unlogged(drafters[d])) + spent + draftFaults
            <= called + One(Unlogged(y)) + spent' + draftFaults'
  PROVE  MeterInv'
<1> SUFFICES ASSUME IsFiniteSet(Drafters)  PROVE Metered'
  BY DEF MeterInv
<1> DEFINE p == Cardinality(PastCheck)  q == Cardinality(PastCheck')
           u == Cardinality(Unrecorded)  v == Cardinality(Unrecorded')  n == Cardinality(Drafters)
<1>1. /\ p \in Nat /\ q \in Nat /\ q + One(Granted(drafters[d])) = p + One(Granted(y))
      /\ u \in Nat /\ v \in Nat /\ v + One(Unlogged(drafters[d])) = u + One(Unlogged(y))
  BY Tellers
<1>2. n \in Nat /\ q + v <= n
  <2>1. n \in Nat /\ p + u <= n  BY Apart
  <2>2. (Cardinality(PastCheck) + Cardinality(Unrecorded) <= Cardinality(Drafters))'
    <3>1. IsFiniteSet(Drafters) => Cardinality(PastCheck) + Cardinality(Unrecorded) <= Cardinality(Drafters)
      BY Apart
    <3> QED  BY Apart, PTL
  <2> QED  BY <2>1, <2>2
<1>3. called + p <= Budget - 1 + n + draftFaults /\ called <= spent + u + draftFaults  BY DEF MeterInv, Metered
<1>4. spent \in Nat /\ called \in Nat /\ draftFaults \in Nat /\ Budget \in Nat
  BY DraftingAssumption DEF DraftTypes
<1> DEFINE a == One(Granted(drafters[d]))  b == One(Granted(y))
           e == One(Unlogged(drafters[d]))  f == One(Unlogged(y))
<1>5. {a, b, e, f} \subseteq Nat  BY DEF One
<1> DEFINE s == spent  t == spent'  c == called  h == called'  x == draftFaults  z == draftFaults'  m == Budget
<1>6. \/ t = s /\ h = c /\ z = x /\ s < m /\ e = f
      \/ h + b + x <= c + a + z
  BY DEF One
<1>7. /\ p \in Nat /\ q \in Nat /\ u \in Nat /\ v \in Nat /\ n \in Nat
      /\ a \in Nat /\ b \in Nat /\ e \in Nat /\ f \in Nat
      /\ s \in Nat /\ t \in Nat /\ c \in Nat /\ h \in Nat /\ x \in Nat /\ z \in Nat /\ m \in Nat
  BY <1>1, <1>2, <1>4, <1>5
<1>8. q + a = p + b /\ v + e = u + f /\ q + v <= n /\ c + p <= m - 1 + n + x /\ c <= s + u + x
  BY <1>1, <1>2, <1>3
<1>9. h + e + s + x <= c + f + t + z  OBVIOUS
<1> HIDE DEF p, q, u, v, n, a, b, e, f, s, t, c, h, x, z, m
<1>10. h + q <= m - 1 + n + z
  <2>1. CASE t = s /\ h = c /\ z = x /\ s < m /\ e = f  BY <1>7, <1>8, <2>1
  <2>2. CASE h + b + x <= c + a + z  BY <1>7, <1>8, <2>2
  <2> QED  BY <1>6, <2>1, <2>2
<1>11. h <= t + v + z  BY <1>7, <1>8, <1>9
<1> QED  BY <1>10, <1>11 DEF Metered, p, q, u, v, n, s, t, h, z, m

LEMMA Under == \A a, d, e \in Nat : a <= d /\ d <= e => a <= e  OBVIOUS

(* What is not there but for the faults so far is not there but for more.  *)
LEMMA RunsLater ==
  ASSUME DraftTypes, UNCHANGED <<openDrafts, drafted>>, draftFaults' \in Nat, draftFaults <= draftFaults',
         NEW z, RunOK(z)
  PROVE  RunOK(z)'
<1>1. openDrafts \in Nat /\ draftFaults \in Nat /\ \A t \in Topics : drafted[t] \in Nat  BY DEF DraftTypes
<1>2. z.job = "campaign" /\ z.pc \in {"generate", "create"} => openDrafts <= draftFaults'
  BY <1>1, Under DEF RunOK
<1>3. ASSUME z.job = "topic", NEW t \in Topics
      PROVE  /\ z.pc # "list" /\ t \notin z.seen => drafted[t] <= draftFaults'
             /\ t \in z.row /\ z.pc \in {"generate", "create"} => drafted[t] <= draftFaults'
  BY <1>1, <1>3, Under DEF RunOK
<1> QED  BY <1>2, <1>3 DEF RunOK

LEMMA RunsOn ==
  ASSUME DraftTypes, OneRuns, NEW d \in Drafters, NEW y, Acts(d, y),
         draftFaults' \in Nat, draftFaults <= draftFaults',
         Runs(y) => RunOK(y)',
         Runs(y) => Runs(drafters[d]) \/ \A c \in Drafters : ~Runs(drafters[c]),
         openDrafts' <= 1 + draftFaults', \A t \in Topics : drafted'[t] <= 1 + draftFaults',
         (openDrafts' = openDrafts /\ drafted' = drafted) \/ Runs(drafters[d])
  PROVE  OneRuns'
<1>1. \A b, c \in Drafters : Runs(drafters'[b]) /\ Runs(drafters'[c]) => b = c  BY DEF Acts, OneRuns
<1>2. ASSUME NEW c \in Drafters, NEW z, z = drafters'[c], Runs(z)  PROVE RunOK(z)'
  <2>1. CASE c = d
    <3>1. z = y  BY <1>2, <2>1 DEF Acts
    <3> QED  BY <1>2, <3>1
  <2>2. CASE c # d
    <3>1. z = drafters[c] /\ RunOK(z)  BY <1>2, <2>2 DEF Acts, OneRuns
    <3>2. ~Runs(drafters[d])  BY <1>2, <2>2, <3>1 DEF OneRuns
    <3> QED  BY <3>1, <3>2, RunsLater
  <2> QED  BY <2>1, <2>2
<1>3. \A c \in Drafters : Runs(drafters'[c]) => RunOK(drafters[c])'
  <2>1. ASSUME NEW c \in Drafters, Runs(drafters'[c])  PROVE RunOK(drafters[c])'
    <3>1. PICK z : z = drafters'[c]  OBVIOUS
    <3>2. RunOK(z)'  BY <1>2, <2>1, <3>1
    <3> QED  BY <3>1, <3>2 DEF RunOK
  <2> QED  BY <2>1
<1> QED  BY <1>1, <1>3 DEF OneRuns, Runs

LEMMA DraftMoved ==
  ASSUME DraftTypes, NEW d \in Drafters, NEW y, DrafterOK(y), drafters' \in [Drafters -> DraftRecord],
         y = drafters'[d], \A c \in Drafters : c # d => drafters'[c] = drafters[c]
  PROVE  Acts(d, y) /\ \A c \in Drafters : DrafterOK(drafters[c])'
<1>1. Acts(d, y)  BY DEF DraftTypes, Acts
<1>2. \A c \in Drafters : DrafterOK(drafters'[c])  BY <1>1 DEF Acts, DraftTypes
<1> QED  BY <1>1, <1>2 DEF DrafterOK

(* A step that drafts nothing in a run.                                    *)
LEMMA RunsStill ==
  ASSUME DraftTypes, RunsInv, NEW d \in Drafters, NEW y, Acts(d, y),
         draftFaults' \in Nat, draftFaults <= draftFaults',
         UNCHANGED <<openDrafts, drafted>>, overlaps \subseteq overlaps',
         Runs(y) => Runs(drafters[d]) /\ (OneRuns /\ RunOK(drafters[d]) => RunOK(y)')
  PROVE  RunsInv'
<1>1. CASE "run" \in overlaps  BY <1>1 DEF RunsInv
<1>2. CASE OneRuns
  <2>1. openDrafts \in Nat /\ draftFaults \in Nat /\ \A t \in Topics : drafted[t] \in Nat  BY DEF DraftTypes
  <2>2. openDrafts' <= 1 + draftFaults'  BY <1>2, <2>1, Slack DEF OneRuns
  <2>3. \A t \in Topics : drafted'[t] <= 1 + draftFaults'  BY <1>2, <2>1, Slack DEF OneRuns
  <2>4. Runs(y) => RunOK(y)'  BY <1>2 DEF OneRuns
  <2>5. Runs(y) => Runs(drafters[d])  OBVIOUS
  <2>6. OneRuns'  BY <1>2, <2>2, <2>3, <2>4, <2>5, RunsOn
  <2> QED  BY <2>6 DEF RunsInv
<1> QED  BY <1>1, <1>2 DEF RunsInv

LEMMA Listed ==
  ASSUME DraftTypes, NEW d \in Drafters, ToTopics(d)
  PROVE  /\ drafters' \in [Drafters -> DraftRecord]
         /\ \A c \in Drafters : c # d => drafters'[c] = drafters[c]
         /\ drafters'[d].pc = "list" /\ drafters'[d].job = "topic"
<1>1. drafters \in [Drafters -> DraftRecord]  BY DEF DraftTypes
<1> QED  BY <1>1 DEF DraftRecord, RunJobs, ToTopics

LEMMA Ended ==
  ASSUME DraftTypes, NEW d \in Drafters, DrafterDone(d)
  PROVE  /\ drafters' \in [Drafters -> DraftRecord]
         /\ \A c \in Drafters : c # d => drafters'[c] = drafters[c]
         /\ drafters'[d] = Free
BY FreeType DEF DraftTypes, DrafterDone

LEMMA Walked ==
  ASSUME DraftTypes, NEW d \in Drafters, NEW pc \in {"budget", "open", "generate", "create", "record"},
         DrafterTo(d, pc)
  PROVE  /\ drafters' \in [Drafters -> DraftRecord]
         /\ \A c \in Drafters : c # d => drafters'[c] = drafters[c]
         /\ drafters'[d].pc = pc /\ drafters'[d].job = drafters[d].job
         /\ drafters'[d].seen = drafters[d].seen /\ drafters'[d].row = drafters[d].row
<1>1. drafters \in [Drafters -> DraftRecord]  BY DEF DraftTypes
<1> QED  BY <1>1 DEF DrafterTo, DraftRecord

(* A step that leaves the drafts as they are.                              *)
LEMMA Closed ==
  ASSUME DraftTypes, DraftInv, NEW d \in Drafters, NEW y, DrafterOK(y), drafters' \in [Drafters -> DraftRecord],
         y = drafters'[d], \A c \in Drafters : c # d => drafters'[c] = drafters[c],
         UNCHANGED <<openDrafts, drafted, overlaps>>,
         spent' \in Nat, called' \in Nat, draftFaults' \in Nat, draftFaults <= draftFaults',
         \/ /\ UNCHANGED <<spent, called, draftFaults>> /\ spent < Budget
            /\ Unlogged(y) <=> Unlogged(drafters[d])
         \/ called' + One(Granted(y)) + draftFaults <= called + One(Granted(drafters[d])) + draftFaults',
         called' + One(Unlogged(drafters[d])) + spent + draftFaults
            <= called + One(Unlogged(y)) + spent' + draftFaults',
         Runs(y) => Runs(drafters[d]) /\ (OneRuns /\ RunOK(drafters[d]) => RunOK(y)')
  PROVE  (DraftTypes /\ DraftInv)'
<1>1. Acts(d, y) /\ \A c \in Drafters : DrafterOK(drafters[c])'  BY DraftMoved
<1>2. DraftTypes'  BY <1>1 DEF DraftTypes, DrafterOK
<1>3. MeterInv'  BY <1>1, MetersOn DEF DraftInv
<1>4. RunsInv'  BY <1>1, RunsStill DEF DraftInv
<1> QED  BY <1>2, <1>3, <1>4 DEF DraftInv

(* A request that ends, or is killed, has logged all it may.               *)
LEMMA DraftEnds ==
  ASSUME DraftTypes, DraftInv, NEW d \in Drafters, DrafterDone(d),
         UNCHANGED <<spent, called, openDrafts, drafted, overlaps>>,
         \/ draftFaults' = draftFaults /\ ~Unlogged(drafters[d])
         \/ draftFaults' = draftFaults + 1
  PROVE  (DraftTypes /\ DraftInv)'
<1>1. spent \in Nat /\ called \in Nat /\ draftFaults \in Nat  BY DEF DraftTypes
<1>2. /\ drafters' \in [Drafters -> DraftRecord] /\ Free = drafters'[d]
      /\ \A c \in Drafters : c # d => drafters'[c] = drafters[c]
  BY Ended
<1>3. called' + One(Unlogged(drafters[d])) + spent + draftFaults
        <= called + One(Unlogged(Free)) + spent' + draftFaults'
  BY <1>1, FreeType DEF One
<1>4. called' + One(Granted(Free)) + draftFaults <= called + One(Granted(drafters[d])) + draftFaults'
  BY <1>1, FreeType DEF One
<1>5. spent' \in Nat /\ called' \in Nat /\ draftFaults' \in Nat /\ draftFaults <= draftFaults'  BY <1>1
<1>6. DrafterOK(Free) /\ ~Runs(Free)  BY FreeType
<1> QED  BY <1>2, <1>3, <1>4, <1>5, <1>6, Closed

(* A step of a request that only moves on is metered by what it was granted,
   or by a fault. *)
LEMMA Passes ==
  ASSUME DraftTypes, DraftInv, NEW d \in Drafters, NEW y, DrafterOK(y), drafters' \in [Drafters -> DraftRecord],
         y = drafters'[d], \A c \in Drafters : c # d => drafters'[c] = drafters[c],
         UNCHANGED <<spent, called, openDrafts, drafted, overlaps>>,
         \/ draftFaults' = draftFaults /\ (Granted(y) => Granted(drafters[d]) \/ spent < Budget)
         \/ draftFaults' = draftFaults + 1,
         Unlogged(drafters[d]) => Unlogged(y) \/ draftFaults' = draftFaults + 1,
         Unlogged(y) => Unlogged(drafters[d]),
         Runs(y) => Runs(drafters[d]) /\ (OneRuns /\ RunOK(drafters[d]) => RunOK(y)')
  PROVE  (DraftTypes /\ DraftInv)'
<1>1. spent \in Nat /\ called \in Nat /\ draftFaults \in Nat  BY DEF DraftTypes
<1>2. called' + One(Unlogged(drafters[d])) + spent + draftFaults
        <= called + One(Unlogged(y)) + spent' + draftFaults'
  BY <1>1 DEF One
<1>3. \/ /\ UNCHANGED <<spent, called, draftFaults>> /\ spent < Budget
         /\ Unlogged(y) <=> Unlogged(drafters[d])
      \/ called' + One(Granted(y)) + draftFaults <= called + One(Granted(drafters[d])) + draftFaults'
  <2>1. CASE draftFaults' = draftFaults /\ Granted(y) /\ ~Granted(drafters[d])
    <3>1. spent < Budget /\ draftFaults' # draftFaults + 1  BY <1>1, <2>1
    <3>2. Unlogged(y) <=> Unlogged(drafters[d])  BY <3>1
    <3> QED  BY <2>1, <3>1, <3>2
  <2>2. CASE draftFaults' = draftFaults + 1 \/ ~Granted(y) \/ Granted(drafters[d])
    BY <1>1, <2>2 DEF One
  <2> QED  BY <2>1, <2>2
<1>4. spent' \in Nat /\ called' \in Nat /\ draftFaults' \in Nat /\ draftFaults <= draftFaults'  BY <1>1
<1> QED  BY <1>2, <1>3, <1>4, Closed

LEMMA TopicsNext ==
  ASSUME DraftTypes, DraftInv, NEW d \in Drafters, ToTopics(d),
         UNCHANGED <<spent, called, openDrafts, drafted, draftFaults, overlaps>>,
         Runs(drafters[d]), ~Unlogged(drafters[d])
  PROVE  (DraftTypes /\ DraftInv)'
<1>1. /\ drafters' \in [Drafters -> DraftRecord]
      /\ \A c \in Drafters : c # d => drafters'[c] = drafters[c]
  BY Listed
<1>2. PICK y \in DraftRecord : y = drafters'[d]  BY <1>1
<1>3. y.pc = "list" /\ y.job = "topic"  BY <1>2, Listed
<1>4. DrafterOK(y) /\ RunOK(y)' /\ ~Unlogged(y) /\ ~Granted(y)
  BY <1>3 DEF DrafterOK, RunOK, Unlogged, Granted
<1> QED  BY <1>1, <1>2, <1>4, Passes

LEMMA StepAskBudget ==
  ASSUME DraftTypes, DraftInv, NEW d \in Drafters, AskBudget(d)
  PROVE  (DraftTypes /\ DraftInv)'
<1> DEFINE x == drafters[d]
<1>0. x \in DraftRecord /\ DrafterOK(x) /\ x.pc = "budget" /\ x.job \in RunJobs
  BY DEF DraftTypes, AskBudget, DrafterAt
<1>1. UNCHANGED <<spent, called, openDrafts, drafted, draftFaults, overlaps>>  BY DEF AskBudget, draftRows
<1>2. ~Unlogged(x) /\ Runs(x)  BY <1>0 DEF Unlogged, Runs
<1>3. CASE BudgetExceeded /\ x.job = "campaign"
  <2>1. ToTopics(d)  BY <1>3 DEF AskBudget
  <2> QED  BY <1>1, <1>2, <2>1, TopicsNext
<1>4. CASE BudgetExceeded /\ x.job # "campaign"
  <2>1. DrafterDone(d)  BY <1>4 DEF AskBudget
  <2> QED  BY <1>1, <1>2, <2>1, DraftEnds
<1>5. CASE ~BudgetExceeded
  <2>0. spent \in Nat /\ Budget \in Nat  BY DraftingAssumption DEF DraftTypes
  <2>1. DrafterTo(d, "open") /\ spent < Budget  BY <1>5, <2>0 DEF AskBudget, BudgetExceeded
  <2>2. /\ drafters' \in [Drafters -> DraftRecord]
        /\ \A c \in Drafters : c # d => drafters'[c] = drafters[c]
    BY <2>1, Walked
  <2>3. PICK y \in DraftRecord : y = drafters'[d]  BY <2>2
  <2>4. y.pc = "open" /\ y.job = x.job /\ y.seen = x.seen /\ y.row = x.row  BY <2>1, <2>3, Walked
  <2>5. DrafterOK(y) /\ ~Unlogged(y)  BY <2>4, <1>0 DEF DrafterOK, Unlogged, RunJobs
  <2>6. RunOK(x) => RunOK(y)'  BY <1>0, <1>1, <2>4 DEF RunOK
  <2> QED  BY <1>1, <1>2, <2>1, <2>2, <2>3, <2>5, <2>6, Passes
<1> QED  BY <1>3, <1>4, <1>5

LEMMA StepOpenCampaign ==
  ASSUME DraftTypes, DraftInv, NEW d \in Drafters, OpenCampaign(d)
  PROVE  (DraftTypes /\ DraftInv)'
<1> DEFINE x == drafters[d]
<1>0. x \in DraftRecord /\ x.pc = "open" /\ x.job = "campaign"  BY DEF DraftTypes, OpenCampaign, DrafterAt
<1>1. UNCHANGED <<spent, called, openDrafts, drafted, draftFaults, overlaps>>  BY DEF OpenCampaign, draftRows
<1>2. ~Unlogged(x) /\ Runs(x) /\ Granted(x)  BY <1>0 DEF Unlogged, Runs, RunJobs, Granted
<1>3. CASE openDrafts # 0
  <2>1. ToTopics(d)  BY <1>3 DEF OpenCampaign
  <2> QED  BY <1>1, <1>2, <2>1, TopicsNext
<1>4. CASE openDrafts = 0
  <2>1. DrafterTo(d, "generate")  BY <1>4 DEF OpenCampaign
  <2>2. /\ drafters' \in [Drafters -> DraftRecord]
        /\ \A c \in Drafters : c # d => drafters'[c] = drafters[c]
    BY <2>1, Walked
  <2>3. PICK y \in DraftRecord : y = drafters'[d]  BY <2>2
  <2>4. y.pc = "generate" /\ y.job = "campaign"  BY <1>0, <2>1, <2>3, Walked
  <2>5. DrafterOK(y) /\ ~Unlogged(y)  BY <2>4 DEF DrafterOK, Unlogged
  <2>6. RunOK(y)'
    <3>1. openDrafts' <= draftFaults'  BY <1>1, <1>4 DEF DraftTypes
    <3> QED  BY <2>4, <3>1 DEF RunOK
  <2> QED  BY <1>1, <1>2, <2>1, <2>2, <2>3, <2>5, <2>6, Passes
<1> QED  BY <1>3, <1>4

LEMMA StepCampaignsUnread ==
  ASSUME DraftTypes, DraftInv, NEW d \in Drafters, CampaignsUnread(d)
  PROVE  (DraftTypes /\ DraftInv)'
<1> DEFINE x == drafters[d]
<1>0. x \in DraftRecord /\ x.pc = "open" /\ x.job = "campaign" /\ DrafterTo(d, "generate")
  BY DEF DraftTypes, CampaignsUnread, DrafterAt
<1>1. UNCHANGED <<spent, called, openDrafts, drafted, overlaps>> /\ draftFaults' = draftFaults + 1
  BY DEF CampaignsUnread, draftRows, Unread
<1>2. ~Unlogged(x) /\ Runs(x)  BY <1>0 DEF Unlogged, Runs, RunJobs
<1>3. /\ drafters' \in [Drafters -> DraftRecord]
      /\ \A c \in Drafters : c # d => drafters'[c] = drafters[c]
  BY <1>0, Walked
<1>4. PICK y \in DraftRecord : y = drafters'[d]  BY <1>3
<1>5. y.pc = "generate" /\ y.job = "campaign"  BY <1>0, <1>4, Walked
<1>6. DrafterOK(y) /\ ~Unlogged(y)  BY <1>5 DEF DrafterOK, Unlogged
<1>7. OneRuns => RunOK(y)'
  <2>1. OneRuns => openDrafts' <= draftFaults'  BY <1>1 DEF DraftTypes, OneRuns
  <2> QED  BY <1>5, <2>1 DEF RunOK
<1> QED  BY <1>1, <1>2, <1>3, <1>4, <1>6, <1>7, Passes

LEMMA StepListTitles ==
  ASSUME DraftTypes, DraftInv, NEW d \in Drafters, ListTitles(d)
  PROVE  (DraftTypes /\ DraftInv)'
<1> DEFINE x == drafters[d]  s == {t \in Topics : drafted[t] > 0}
<1>0. drafters \in [Drafters -> DraftRecord] /\ x \in DraftRecord /\ x.pc = "list" /\ x.job = "topic"
  BY DEF DraftTypes, ListTitles, DrafterAt
<1>1. UNCHANGED <<spent, called, openDrafts, drafted, draftFaults, overlaps>>  BY DEF ListTitles, draftRows
<1>2. ~Unlogged(x) /\ Runs(x)  BY <1>0 DEF Unlogged, Runs, RunJobs
<1>a. s \in SUBSET Topics /\ drafters' = [drafters EXCEPT ![d].pc = "budget", ![d].seen = s]  BY DEF ListTitles
<1>b. \A t \in Topics : t \notin s => drafted[t] <= draftFaults  BY DEF DraftTypes
<1> HIDE DEF s
<1>3. /\ drafters' \in [Drafters -> DraftRecord]
      /\ \A c \in Drafters : c # d => drafters'[c] = drafters[c]
      /\ drafters'[d].pc = "budget" /\ drafters'[d].job = x.job /\ drafters'[d].seen = s
  BY <1>0, <1>a DEF DraftRecord
<1>4. PICK y \in DraftRecord : y = drafters'[d]  BY <1>3
<1>5. y.pc = "budget" /\ y.job = "topic" /\ y.seen = s  BY <1>0, <1>3, <1>4
<1>6. DrafterOK(y) /\ ~Unlogged(y) /\ ~Granted(y)  BY <1>5 DEF DrafterOK, Unlogged, Granted
<1>7. RunOK(y)'  BY <1>1, <1>5, <1>b DEF RunOK
<1> QED  BY <1>1, <1>2, <1>3, <1>4, <1>6, <1>7, Passes

LEMMA StepTitlesUnread ==
  ASSUME DraftTypes, DraftInv, NEW d \in Drafters, TitlesUnread(d)
  PROVE  (DraftTypes /\ DraftInv)'
<1> DEFINE x == drafters[d]
<1>0. x \in DraftRecord /\ x.pc = "list" /\ x.job = "topic" /\ DrafterTo(d, "budget")
  BY DEF DraftTypes, TitlesUnread, DrafterAt
<1>1. UNCHANGED <<spent, called, openDrafts, drafted, overlaps>> /\ draftFaults' = draftFaults + 1
  BY DEF TitlesUnread, draftRows, Unread
<1>2. ~Unlogged(x) /\ Runs(x)  BY <1>0 DEF Unlogged, Runs, RunJobs
<1>3. /\ drafters' \in [Drafters -> DraftRecord]
      /\ \A c \in Drafters : c # d => drafters'[c] = drafters[c]
  BY <1>0, Walked
<1>4. PICK y \in DraftRecord : y = drafters'[d]  BY <1>3
<1>5. y.pc = "budget" /\ y.job = "topic"  BY <1>0, <1>4, Walked
<1>6. DrafterOK(y) /\ ~Unlogged(y)  BY <1>5 DEF DrafterOK, Unlogged
<1>7. OneRuns => RunOK(y)'
  <2>1. OneRuns => \A t \in Topics : drafted'[t] <= draftFaults'  BY <1>1 DEF DraftTypes, OneRuns
  <2> QED  BY <1>5, <2>1 DEF RunOK
<1> QED  BY <1>1, <1>2, <1>3, <1>4, <1>6, <1>7, Passes

LEMMA StepNextTopic ==
  ASSUME DraftTypes, DraftInv, NEW d \in Drafters, NEW t \in Topics, NextTopic(d, t)
  PROVE  (DraftTypes /\ DraftInv)'
<1> DEFINE x == drafters[d]
<1>0. /\ drafters \in [Drafters -> DraftRecord] /\ x \in DraftRecord
      /\ x.pc = "open" /\ x.job = "topic" /\ t \notin x.seen
  BY DEF DraftTypes, NextTopic, DrafterAt
<1>1. UNCHANGED <<spent, called, openDrafts, drafted, draftFaults, overlaps>>  BY DEF NextTopic, draftRows
<1>3. x.seen \cup {t} \in SUBSET Topics /\ {t} \in SUBSET Topics  BY <1>0 DEF DraftRecord
<1>4. /\ drafters' \in [Drafters -> DraftRecord]
      /\ \A c \in Drafters : c # d => drafters'[c] = drafters[c]
      /\ drafters'[d].pc = "generate" /\ drafters'[d].job = x.job
      /\ drafters'[d].seen = x.seen \cup {t} /\ drafters'[d].row = {t}
  BY <1>0, <1>3 DEF NextTopic, DraftRecord
<1>5. PICK y \in DraftRecord : y = drafters'[d]  BY <1>4
<1>6. y.pc = "generate" /\ y.job = "topic" /\ y.seen = x.seen \cup {t} /\ y.row = {t}  BY <1>0, <1>4, <1>5
<1>7. ~Unlogged(x) /\ Granted(x) /\ Runs(x)  BY <1>0 DEF Unlogged, Granted, Runs, RunJobs
<1>8. DrafterOK(y) /\ ~Unlogged(y)  BY <1>6 DEF DrafterOK, Unlogged
<1>9. RunOK(x) => RunOK(y)'  BY <1>0, <1>1, <1>6 DEF RunOK
<1> QED  BY <1>1, <1>4, <1>5, <1>7, <1>8, <1>9, Passes

LEMMA StepEndRun ==
  ASSUME DraftTypes, DraftInv, NEW d \in Drafters, EndRun(d)
  PROVE  (DraftTypes /\ DraftInv)'
<1>1. ~Unlogged(drafters[d])  BY DEF EndRun, DrafterAt, Unlogged
<1> QED  BY <1>1, DraftEnds DEF EndRun, draftRows

LEMMA StepKillDrafter ==
  ASSUME DraftTypes, DraftInv, NEW d \in Drafters, KillDrafter(d)
  PROVE  (DraftTypes /\ DraftInv)'
BY DraftEnds DEF KillDrafter, draftRows

LEMMA StepGenerate ==
  ASSUME DraftTypes, DraftInv, NEW d \in Drafters, Generate(d)
  PROVE  (DraftTypes /\ DraftInv)'
<1> DEFINE x == drafters[d]
<1>0. x \in DraftRecord /\ DrafterOK(x) /\ x.pc = "generate" /\ x.job \in RunJobs \cup {"accept"}
  BY DEF DraftTypes, Generate, DraftRecord, DrafterOK
<1>1. UNCHANGED <<spent, openDrafts, drafted, draftFaults, overlaps>> /\ called' = called + 1
  BY DEF Generate, draftRows
<1>2. spent \in Nat /\ called \in Nat /\ draftFaults \in Nat  BY DEF DraftTypes
<1>3. \/ x.job = "accept" /\ DrafterTo(d, "record")
      \/ x.job \in RunJobs /\ DrafterTo(d, "create")
  BY <1>0 DEF Generate, RunJobs
<1>4. /\ drafters' \in [Drafters -> DraftRecord]
      /\ \A c \in Drafters : c # d => drafters'[c] = drafters[c]
  BY <1>3, Walked
<1>5. PICK y \in DraftRecord : y = drafters'[d]  BY <1>4
<1>6. /\ y.job = x.job /\ y.seen = x.seen /\ y.row = x.row
      /\ \/ x.job = "accept" /\ y.pc = "record"
         \/ x.job \in RunJobs /\ y.pc = "create"
  BY <1>3, <1>5, Walked
<1>7. ~Unlogged(x) /\ Granted(x)  BY <1>0 DEF Unlogged, Granted
<1>8. DrafterOK(y) /\ Unlogged(y) /\ ~Granted(y)  BY <1>0, <1>6 DEF DrafterOK, Unlogged, Granted, RunJobs
<1>9. Runs(y) => Runs(x) /\ (RunOK(x) => RunOK(y)')  BY <1>0, <1>1, <1>6 DEF RunOK, Runs, RunJobs
<1>10. called' + One(Unlogged(x)) + spent + draftFaults <= called + One(Unlogged(y)) + spent' + draftFaults'
  BY <1>1, <1>2, <1>7, <1>8 DEF One
<1>11. called' + One(Granted(y)) + draftFaults <= called + One(Granted(x)) + draftFaults'
  BY <1>1, <1>2, <1>7, <1>8 DEF One
<1>12. spent' \in Nat /\ called' \in Nat /\ draftFaults' \in Nat /\ draftFaults <= draftFaults'  BY <1>1, <1>2
<1> QED  BY <1>1, <1>4, <1>5, <1>8, <1>9, <1>10, <1>11, <1>12, Closed

LEMMA StepGenerateFails ==
  ASSUME DraftTypes, DraftInv, NEW d \in Drafters, GenerateFails(d)
  PROVE  (DraftTypes /\ DraftInv)'
<1> DEFINE x == drafters[d]
<1>1. UNCHANGED <<spent, called, openDrafts, drafted, draftFaults, overlaps>>  BY DEF GenerateFails, draftRows
<1>2. ~Unlogged(x)  BY DEF GenerateFails, Unlogged
<1>3. CASE x.job # "campaign"
  <2>1. DrafterDone(d)  BY <1>3 DEF GenerateFails
  <2> QED  BY <1>1, <1>2, <2>1, DraftEnds
<1>4. CASE x.job = "campaign"
  <2>1. ToTopics(d) /\ Runs(x)  BY <1>4 DEF GenerateFails, Runs, RunJobs
  <2> QED  BY <1>1, <1>2, <2>1, TopicsNext
<1> QED  BY <1>3, <1>4

LEMMA StepRecordUsage ==
  ASSUME DraftTypes, DraftInv, NEW d \in Drafters, RecordUsage(d)
  PROVE  (DraftTypes /\ DraftInv)'
<1> DEFINE x == drafters[d]
<1>0. drafters \in [Drafters -> DraftRecord] /\ x \in DraftRecord /\ x.pc = "record" /\ x.job \in RunJobs
  BY DEF DraftTypes, RecordUsage, DrafterAt
<1>1. UNCHANGED <<called, openDrafts, drafted, draftFaults, overlaps>> /\ spent' = spent + 1
  BY DEF RecordUsage, draftRows
<1>2. spent \in Nat /\ called \in Nat /\ draftFaults \in Nat  BY DEF DraftTypes
<1>3. \/ x.job = "campaign" /\ ToTopics(d)
      \/ x.job = "topic" /\ drafters' = [drafters EXCEPT ![d].pc = "budget", ![d].row = {}]
  BY <1>0 DEF RecordUsage, RunJobs
<1>4. /\ drafters' \in [Drafters -> DraftRecord]
      /\ \A c \in Drafters : c # d => drafters'[c] = drafters[c]
      /\ \/ drafters'[d].pc = "list" /\ drafters'[d].job = "topic"
         \/ drafters'[d].pc = "budget" /\ drafters'[d].job = x.job /\ x.job = "topic" /\ drafters'[d].seen = x.seen
  <2>1. CASE x.job = "campaign" /\ ToTopics(d)  BY <2>1, Listed
  <2>2. CASE x.job = "topic" /\ drafters' = [drafters EXCEPT ![d].pc = "budget", ![d].row = {}]
    BY <1>0, <2>2 DEF DraftRecord
  <2> QED  BY <1>3, <2>1, <2>2
<1>5. PICK y \in DraftRecord : y = drafters'[d]  BY <1>4
<1>6. \/ y.pc = "list" /\ y.job = "topic"
      \/ y.pc = "budget" /\ y.job = "topic" /\ x.job = "topic" /\ y.seen = x.seen
  BY <1>4, <1>5
<1>7. Unlogged(x) /\ Runs(x)  BY <1>0 DEF Unlogged, Runs
<1>8. DrafterOK(y) /\ ~Unlogged(y) /\ ~Granted(y)  BY <1>6 DEF DrafterOK, Unlogged, Granted
<1>9. RunOK(x) => RunOK(y)'  BY <1>0, <1>1, <1>6 DEF RunOK
<1>10. called' + One(Unlogged(x)) + spent + draftFaults <= called + One(Unlogged(y)) + spent' + draftFaults'
  BY <1>1, <1>2, <1>7, <1>8 DEF One
<1>11. called' + One(Granted(y)) + draftFaults <= called + One(Granted(x)) + draftFaults'
  BY <1>1, <1>2, <1>8 DEF One
<1>12. spent' \in Nat /\ called' \in Nat /\ draftFaults' \in Nat /\ draftFaults <= draftFaults'  BY <1>1, <1>2
<1> QED  BY <1>1, <1>4, <1>5, <1>7, <1>8, <1>9, <1>10, <1>11, <1>12, Closed

LEMMA StepSameTitle ==
  ASSUME DraftTypes, DraftInv, NEW d \in Drafters, SameTitle(d)
  PROVE  (DraftTypes /\ DraftInv)'
<1> DEFINE x == drafters[d]
<1>0. drafters \in [Drafters -> DraftRecord] /\ x \in DraftRecord /\ x.pc = "create" /\ x.job = "topic"
  BY DEF DraftTypes, SameTitle, DrafterAt
<1>1. UNCHANGED <<spent, called, openDrafts, drafted, overlaps>> /\ draftFaults' = draftFaults + 1
  BY DEF SameTitle, draftRows
<1>4. /\ drafters' \in [Drafters -> DraftRecord]
      /\ \A c \in Drafters : c # d => drafters'[c] = drafters[c]
      /\ drafters'[d].pc = "budget" /\ drafters'[d].job = x.job /\ drafters'[d].seen = x.seen
  BY <1>0 DEF SameTitle, DraftRecord
<1>5. PICK y \in DraftRecord : y = drafters'[d]  BY <1>4
<1>6. y.pc = "budget" /\ y.job = "topic" /\ y.seen = x.seen  BY <1>0, <1>4, <1>5
<1>7. Runs(x)  BY <1>0 DEF Runs, RunJobs
<1>8. DrafterOK(y) /\ ~Unlogged(y)  BY <1>6 DEF DrafterOK, Unlogged
<1>9. RunOK(x) => RunOK(y)'
  <2>1. draftFaults' \in Nat /\ draftFaults <= draftFaults' /\ UNCHANGED <<openDrafts, drafted>>
    BY <1>1 DEF DraftTypes
  <2>2. RunOK(x) => RunOK(y)  BY <1>0, <1>6 DEF RunOK
  <2> HIDE DEF x
  <2> QED  BY <2>1, <2>2, RunsLater
<1> QED  BY <1>1, <1>4, <1>5, <1>7, <1>8, <1>9, Passes

LEMMA StepBeginAccept ==
  ASSUME DraftTypes, DraftInv, NEW d \in Drafters, BeginAccept(d)
  PROVE  (DraftTypes /\ DraftInv)'
<1> DEFINE x == drafters[d]
<1>0. drafters \in [Drafters -> DraftRecord] /\ x \in DraftRecord /\ x.pc = "idle"
  BY DEF DraftTypes, BeginAccept
<1>1. UNCHANGED <<spent, called, openDrafts, drafted, draftFaults, overlaps>>  BY DEF BeginAccept, draftRows
<1>4. /\ drafters' \in [Drafters -> DraftRecord]
      /\ \A c \in Drafters : c # d => drafters'[c] = drafters[c]
      /\ drafters'[d].pc = "budget" /\ drafters'[d].job = "accept"
  BY <1>0 DEF BeginAccept, DraftRecord
<1>5. PICK y \in DraftRecord : y = drafters'[d]  BY <1>4
<1>6. y.pc = "budget" /\ y.job = "accept"  BY <1>4, <1>5
<1>7. ~Unlogged(x)  BY <1>0 DEF Unlogged
<1>8. DrafterOK(y) /\ ~Unlogged(y) /\ ~Granted(y) /\ ~Runs(y)
  BY <1>6 DEF DrafterOK, Unlogged, Granted, Runs, RunJobs
<1> QED  BY <1>1, <1>4, <1>5, <1>7, <1>8, Passes

LEMMA StepAcceptBudget ==
  ASSUME DraftTypes, DraftInv, NEW d \in Drafters, AcceptBudget(d)
  PROVE  (DraftTypes /\ DraftInv)'
<1> DEFINE x == drafters[d]
<1>0. x \in DraftRecord /\ x.pc = "budget" /\ x.job = "accept"  BY DEF DraftTypes, AcceptBudget, DrafterAt
<1>1. UNCHANGED <<spent, called, openDrafts, drafted, draftFaults, overlaps>>  BY DEF AcceptBudget, draftRows
<1>2. ~Unlogged(x)  BY <1>0 DEF Unlogged
<1>3. CASE BudgetExceeded
  <2>1. DrafterDone(d)  BY <1>3 DEF AcceptBudget
  <2> QED  BY <1>1, <1>2, <2>1, DraftEnds
<1>4. CASE ~BudgetExceeded
  <2>0. spent \in Nat /\ Budget \in Nat  BY DraftingAssumption DEF DraftTypes
  <2>1. DrafterTo(d, "generate") /\ spent < Budget  BY <1>4, <2>0 DEF AcceptBudget, BudgetExceeded
  <2>2. /\ drafters' \in [Drafters -> DraftRecord]
        /\ \A c \in Drafters : c # d => drafters'[c] = drafters[c]
    BY <2>1, Walked
  <2>3. PICK y \in DraftRecord : y = drafters'[d]  BY <2>2
  <2>4. y.pc = "generate" /\ y.job = "accept"  BY <1>0, <2>1, <2>3, Walked
  <2>5. DrafterOK(y) /\ ~Unlogged(y) /\ ~Runs(y)  BY <2>4 DEF DrafterOK, Unlogged, Runs, RunJobs
  <2> QED  BY <1>1, <1>2, <2>1, <2>2, <2>3, <2>5, Passes
<1> QED  BY <1>3, <1>4

LEMMA StepSpendUnread ==
  ASSUME DraftTypes, DraftInv, NEW d \in Drafters, SpendUnread(d)
  PROVE  (DraftTypes /\ DraftInv)'
<1> DEFINE x == drafters[d]
<1>0. /\ x \in DraftRecord /\ x.pc = "budget"
      /\ \/ x.job = "accept" /\ DrafterTo(d, "generate")
         \/ x.job # "accept" /\ DrafterTo(d, "open")
  BY DEF DraftTypes, SpendUnread
<1>1. UNCHANGED <<spent, called, openDrafts, drafted, overlaps>> /\ draftFaults' = draftFaults + 1
  BY DEF SpendUnread, draftRows, Unread
<1>2. ~Unlogged(x)  BY <1>0 DEF Unlogged
<1>3. /\ drafters' \in [Drafters -> DraftRecord]
      /\ \A c \in Drafters : c # d => drafters'[c] = drafters[c]
  BY <1>0, Walked
<1>4. PICK y \in DraftRecord : y = drafters'[d]  BY <1>3
<1>5. /\ y.job = x.job /\ y.seen = x.seen /\ y.row = x.row
      /\ \/ x.job = "accept" /\ y.pc = "generate"
         \/ x.job # "accept" /\ y.pc = "open"
  BY <1>0, <1>4, Walked
<1>6. DrafterOK(y) /\ ~Unlogged(y)  BY <1>5 DEF DrafterOK, Unlogged
<1>7. Runs(y) => Runs(x) /\ (RunOK(x) => RunOK(y)')
  <2>1. draftFaults' \in Nat /\ draftFaults <= draftFaults' /\ UNCHANGED <<openDrafts, drafted>>
    BY <1>1 DEF DraftTypes
  <2>2. Runs(y) => Runs(x) /\ (RunOK(x) => RunOK(y))  BY <1>0, <1>5 DEF RunOK, Runs, RunJobs
  <2> HIDE DEF x
  <2> QED  BY <2>1, <2>2, RunsLater
<1> QED  BY <1>1, <1>2, <1>3, <1>4, <1>6, <1>7, Passes

LEMMA StepAcceptRecord ==
  ASSUME DraftTypes, DraftInv, NEW d \in Drafters, AcceptRecord(d)
  PROVE  (DraftTypes /\ DraftInv)'
<1> DEFINE x == drafters[d]
<1>1. UNCHANGED <<called, openDrafts, drafted, draftFaults, overlaps>> /\ spent' = spent + 1 /\ DrafterDone(d)
  BY DEF AcceptRecord, draftRows
<1>2. spent \in Nat /\ called \in Nat /\ draftFaults \in Nat  BY DEF DraftTypes
<1>3. /\ drafters' \in [Drafters -> DraftRecord] /\ Free = drafters'[d]
      /\ \A c \in Drafters : c # d => drafters'[c] = drafters[c]
  BY <1>1, Ended
<1>10. called' + One(Unlogged(x)) + spent + draftFaults <= called + One(Unlogged(Free)) + spent' + draftFaults'
  BY <1>1, <1>2, FreeType DEF One
<1>11. called' + One(Granted(Free)) + draftFaults <= called + One(Granted(x)) + draftFaults'
  BY <1>1, <1>2, FreeType DEF One
<1>12. spent' \in Nat /\ called' \in Nat /\ draftFaults' \in Nat /\ draftFaults <= draftFaults'  BY <1>1, <1>2
<1> QED  BY <1>1, <1>3, <1>10, <1>11, <1>12, FreeType, Closed

-----------------------------------------------------------------------------
LEMMA StepCreateDraft ==
  ASSUME DraftTypes, DraftInv, NEW d \in Drafters, CreateDraft(d)
  PROVE  (DraftTypes /\ DraftInv)'
<1> DEFINE x == drafters[d]
<1>0. x \in DraftRecord /\ DrafterOK(x) /\ x.pc = "create" /\ x.job \in RunJobs /\ DrafterTo(d, "record")
  BY DEF DraftTypes, CreateDraft, DrafterAt
<1>1. UNCHANGED <<spent, called, draftFaults, overlaps>>  BY DEF CreateDraft
<1>2. /\ openDrafts \in Nat /\ openDrafts' \in Nat
      /\ drafted \in [Topics -> Nat] /\ drafted' \in [Topics -> Nat]
  <2>1. CASE x.job = "campaign"  BY <2>1 DEF CreateDraft, DraftTypes
  <2>2. CASE x.job # "campaign"  BY <2>2 DEF CreateDraft, DraftTypes
  <2> QED  BY <2>1, <2>2
<1>3. spent \in Nat /\ called \in Nat /\ draftFaults \in Nat  BY DEF DraftTypes
<1>4. /\ drafters' \in [Drafters -> DraftRecord]
      /\ \A c \in Drafters : c # d => drafters'[c] = drafters[c]
  BY <1>0, Walked
<1>5. PICK y \in DraftRecord : y = drafters'[d]  BY <1>4
<1>6. y.pc = "record" /\ y.job = x.job /\ y.seen = x.seen /\ y.row = x.row  BY <1>0, <1>5, Walked
<1>7. Unlogged(x) /\ Runs(x)  BY <1>0 DEF Unlogged, Runs
<1>8. DrafterOK(y) /\ Unlogged(y) /\ ~Granted(y) /\ Runs(y)
  BY <1>0, <1>6 DEF DrafterOK, Unlogged, Granted, Runs, RunJobs
<1>9. Acts(d, y) /\ \A c \in Drafters : DrafterOK(drafters[c])'  BY <1>4, <1>5, <1>8, DraftMoved
<1>10. DraftTypes'  BY <1>1, <1>2, <1>4, <1>9 DEF DraftTypes
<1>11. MeterInv'
  <2>1. called' + One(Unlogged(x)) + spent + draftFaults <= called + One(Unlogged(y)) + spent' + draftFaults'
    BY <1>1, <1>3, <1>7, <1>8 DEF One
  <2>2. called' + One(Granted(y)) + draftFaults <= called + One(Granted(x)) + draftFaults'
    BY <1>1, <1>3, <1>8 DEF One
  <2> QED  BY <1>1, <1>3, <1>9, <2>1, <2>2, MetersOn DEF DraftInv
<1>12. RunsInv'
  <2>1. CASE "run" \in overlaps  BY <1>1, <2>1 DEF RunsInv
  <2>2. CASE OneRuns
    <3>0. RunOK(x) /\ openDrafts <= 1 + draftFaults /\ \A t \in Topics : drafted[t] <= 1 + draftFaults
      BY <1>7, <2>2 DEF OneRuns
    <3>1. /\ openDrafts' <= 1 + draftFaults /\ \A t \in Topics : drafted'[t] <= 1 + draftFaults
          /\ RunOK(y)'
      <4>1. CASE x.job = "campaign"
        <5>1. openDrafts <= draftFaults /\ openDrafts' = openDrafts + 1 /\ drafted' = drafted
          BY <1>0, <3>0, <4>1 DEF RunOK, CreateDraft
        <5>2. openDrafts' <= 1 + draftFaults  BY <1>2, <1>3, <5>1
        <5> QED  BY <1>6, <3>0, <4>1, <5>1, <5>2 DEF RunOK
      <4>2. CASE x.job = "topic"
        <5>1. PICK r \in Topics : x.row = {r} /\ r \in x.seen  BY <1>0, <4>2 DEF DrafterOK
        <5>2. drafted[r] <= draftFaults  BY <1>0, <3>0, <4>2, <5>1 DEF RunOK
        <5>3. openDrafts' = openDrafts /\ \A t \in Topics : drafted'[t] = drafted[t] + (IF t \in x.row THEN 1 ELSE 0)
          BY <4>2 DEF CreateDraft
        <5>4. \A t \in Topics : drafted'[t] = IF t = r THEN drafted[t] + 1 ELSE drafted[t]
          BY <1>2, <5>1, <5>3
        <5>a. drafted'[r] <= 1 + draftFaults
          <6>1. drafted[r] \in Nat /\ drafted'[r] = drafted[r] + 1  BY <1>2, <5>4
          <6> QED  BY <1>3, <5>2, <6>1
        <5>b. \A t \in Topics : drafted'[t] <= 1 + draftFaults  BY <3>0, <5>4, <5>a
        <5>5. \A t \in Topics : t \notin y.seen => drafted'[t] <= draftFaults
          BY <1>0, <1>6, <3>0, <4>2, <5>1, <5>4 DEF RunOK
        <5>6. RunOK(y)'  BY <1>1, <1>6, <4>2, <5>5 DEF RunOK
        <5> QED  BY <3>0, <5>3, <5>b, <5>6
      <4> QED  BY <1>0, <4>1, <4>2 DEF RunJobs
    <3>2. /\ openDrafts' <= 1 + draftFaults' /\ \A t \in Topics : drafted'[t] <= 1 + draftFaults'
          /\ draftFaults' \in Nat /\ draftFaults <= draftFaults'
      BY <1>1, <1>3, <3>1
    <3>3. OneRuns'  BY <1>7, <1>9, <2>2, <3>1, <3>2, RunsOn
    <3> QED  BY <3>3 DEF RunsInv
  <2> QED  BY <2>1, <2>2 DEF RunsInv, DraftInv
<1> QED  BY <1>10, <1>11, <1>12 DEF DraftInv

LEMMA StepSubmitDraft ==
  ASSUME DraftTypes, DraftInv, SubmitDraft
  PROVE  (DraftTypes /\ DraftInv)'
<1>1. /\ openDrafts' = openDrafts - 1 /\ openDrafts > 0
      /\ UNCHANGED <<spent, called, drafted, drafters, draftFaults, overlaps>>
  BY DEF SubmitDraft
<1>2. /\ openDrafts \in Nat /\ openDrafts' \in Nat /\ openDrafts' <= openDrafts
      /\ draftFaults \in Nat /\ 1 + draftFaults \in Nat
  BY <1>1 DEF DraftTypes
<1>3. DraftTypes'  BY <1>1, <1>2 DEF DraftTypes, DrafterOK
<1>4. MeterInv'  BY <1>1 DEF DraftInv, MeterInv, Metered, PastCheck, Unrecorded
<1>5. RunsInv'
  <2>1. CASE "run" \in overlaps  BY <1>1, <2>1 DEF RunsInv
  <2>2. CASE OneRuns
    <3>1. openDrafts <= 1 + draftFaults  BY <2>2 DEF OneRuns
    <3>2. openDrafts' <= 1 + draftFaults  BY <1>2, <3>1, Under
    <3>3. openDrafts <= draftFaults => openDrafts' <= draftFaults  BY <1>2, Under
    <3>4. \A d \in Drafters : Runs(drafters[d]) => RunOK(drafters[d])'
      BY <1>1, <2>2, <3>3 DEF OneRuns, RunOK
    <3>5. OneRuns'  BY <1>1, <2>2, <3>2, <3>4 DEF OneRuns
    <3> QED  BY <3>5 DEF RunsInv
  <2> QED  BY <2>1, <2>2 DEF RunsInv, DraftInv
<1> QED  BY <1>3, <1>4, <1>5 DEF DraftInv

LEMMA StepBeginRun ==
  ASSUME DraftTypes, DraftInv, NEW d \in Drafters, BeginRun(d)
  PROVE  (DraftTypes /\ DraftInv)'
<1> DEFINE x == drafters[d]
<1>0. /\ drafters \in [Drafters -> DraftRecord] /\ x \in DraftRecord
      /\ x.pc = "idle" /\ x.job = "campaign"
  BY DEF DraftTypes, DrafterOK, BeginRun
<1>1. UNCHANGED <<spent, called, openDrafts, drafted, draftFaults>>  BY DEF BeginRun, draftRows
<1>2. /\ overlaps \subseteq overlaps' /\ overlaps' \subseteq overlaps \cup {"run"}
      /\ "run" \in overlaps' \/ \A c \in Drafters : ~Runs(drafters[c])
  BY DEF BeginRun, Working, Runs
<1>3. spent \in Nat /\ called \in Nat /\ draftFaults \in Nat  BY DEF DraftTypes
<1>4. /\ drafters' \in [Drafters -> DraftRecord]
      /\ \A c \in Drafters : c # d => drafters'[c] = drafters[c]
      /\ drafters'[d].pc = "budget" /\ drafters'[d].job = x.job
  BY <1>0 DEF BeginRun, DraftRecord
<1>5. PICK y \in DraftRecord : y = drafters'[d]  BY <1>4
<1>6. y.pc = "budget" /\ y.job = "campaign"  BY <1>0, <1>4, <1>5
<1>7. ~Unlogged(x)  BY <1>0 DEF Unlogged
<1>8. DrafterOK(y) /\ ~Unlogged(y) /\ ~Granted(y) /\ RunOK(y)'
  BY <1>6 DEF DrafterOK, Unlogged, Granted, RunOK
<1>9. Acts(d, y) /\ \A c \in Drafters : DrafterOK(drafters[c])'  BY <1>4, <1>5, <1>8, DraftMoved
<1>10. DraftTypes'  BY <1>1, <1>2, <1>4, <1>9 DEF DraftTypes
<1>11. MeterInv'
  <2>1. called' + One(Unlogged(x)) + spent + draftFaults <= called + One(Unlogged(y)) + spent' + draftFaults'
    BY <1>1, <1>3, <1>7, <1>8 DEF One
  <2>2. called' + One(Granted(y)) + draftFaults <= called + One(Granted(x)) + draftFaults'
    BY <1>1, <1>3, <1>8 DEF One
  <2> QED  BY <1>1, <1>3, <1>9, <2>1, <2>2, MetersOn DEF DraftInv
<1>12. RunsInv'
  <2>1. CASE "run" \in overlaps'  BY <2>1 DEF RunsInv
  <2>2. CASE "run" \notin overlaps' /\ \A c \in Drafters : ~Runs(drafters[c])
    <3>1. OneRuns  BY <1>2, <2>2 DEF RunsInv, DraftInv
    <3>2. /\ openDrafts' <= 1 + draftFaults' /\ \A t \in Topics : drafted'[t] <= 1 + draftFaults'
          /\ draftFaults' \in Nat /\ draftFaults <= draftFaults'
      BY <1>1, <1>3, <3>1 DEF OneRuns
    <3>3. OneRuns'  BY <1>1, <1>8, <1>9, <2>2, <3>1, <3>2, RunsOn
    <3> QED  BY <3>3 DEF RunsInv
  <2> QED  BY <1>2, <2>1, <2>2
<1> QED  BY <1>10, <1>11, <1>12 DEF DraftInv

-----------------------------------------------------------------------------
LEMMA DraftStep ==
  ASSUME DraftTypes, DraftInv, [DraftingNext]_draftingVars
  PROVE  (DraftTypes /\ DraftInv)'
<1>1. CASE SubmitDraft  BY <1>1, StepSubmitDraft
<1>2. CASE DraftingNext /\ ~SubmitDraft
  <2>1. PICK d \in Drafters :
       \/ BeginRun(d) \/ AskBudget(d) \/ OpenCampaign(d) \/ CampaignsUnread(d)
       \/ ListTitles(d) \/ TitlesUnread(d) \/ EndRun(d)
       \/ Generate(d) \/ GenerateFails(d) \/ CreateDraft(d) \/ SameTitle(d) \/ RecordUsage(d)
       \/ BeginAccept(d) \/ AcceptBudget(d) \/ SpendUnread(d) \/ AcceptRecord(d) \/ KillDrafter(d)
       \/ \E t \in Topics : NextTopic(d, t)
    BY <1>2 DEF DraftingNext
  <2>2. CASE \E t \in Topics : NextTopic(d, t)  BY <2>2, StepNextTopic
  <2> QED  BY <2>1, <2>2, StepBeginRun, StepAskBudget, StepOpenCampaign, StepCampaignsUnread, StepListTitles,
              StepTitlesUnread, StepEndRun, StepGenerate, StepGenerateFails, StepCreateDraft, StepSameTitle,
              StepRecordUsage, StepBeginAccept, StepAcceptBudget, StepSpendUnread, StepAcceptRecord, StepKillDrafter
<1>3. CASE UNCHANGED draftingVars
  <2>1. DraftTypes'  BY <1>3 DEF draftingVars, DraftTypes, DrafterOK
  <2>2. MeterInv'  BY <1>3 DEF draftingVars, DraftInv, MeterInv, Metered, PastCheck, Unrecorded
  <2>3. RunsInv'  BY <1>3 DEF draftingVars, DraftInv, RunsInv, OneRuns, RunOK
  <2> QED  BY <2>1, <2>2, <2>3 DEF DraftInv
<1> QED  BY <1>1, <1>2, <1>3

LEMMA DraftStart ==
  ASSUME DraftingInit
  PROVE  DraftTypes /\ DraftInv
<1>1. DraftTypes  BY FreeType DEF DraftingInit, DraftTypes
<1>2. \A d \in Drafters : drafters[d] = Free  BY DEF DraftingInit
<1>3. MeterInv
  <2>1. PastCheck = {} /\ Unrecorded = {}  BY <1>2, FreeType DEF PastCheck, Unrecorded
  <2>2. Cardinality(PastCheck) = 0 /\ Cardinality(Unrecorded) = 0  BY <2>1, FS_EmptySet
  <2>3. IsFiniteSet(Drafters) => Cardinality(Drafters) \in Nat  BY FS_CardinalityType
  <2> QED  BY <2>2, <2>3, DraftingAssumption DEF DraftingInit, MeterInv, Metered
<1>4. OneRuns  BY <1>2, FreeType DEF DraftingInit, OneRuns
<1> QED  BY <1>1, <1>3, <1>4 DEF DraftInv, RunsInv

LEMMA DraftHolds == DraftingSpec => [](DraftTypes /\ DraftInv)
<1>1. DraftingInit => DraftTypes /\ DraftInv  BY DraftStart
<1>2. DraftTypes /\ DraftInv /\ [DraftingNext]_draftingVars => (DraftTypes /\ DraftInv)'  BY DraftStep
<1> QED  BY <1>1, <1>2, PTL DEF DraftingSpec

(* However many requests draft at once, the model is called beyond the monthly
   cap at most once for each of the others, and once more for each request
   killed before its usage was recorded, each dropped draft and each check that
   could not read what was spent (aiBudgetExceeded, asked before every
   generation). *)
THEOREM BudgetIsHeld ==
  ASSUME IsFiniteSet(Drafters)
  PROVE  DraftingSpec => []BudgetHolds
<1>1. DraftTypes /\ DraftInv => BudgetHolds
  <2>1. SUFFICES ASSUME DraftTypes, DraftInv  PROVE BudgetHolds
    OBVIOUS
  <2> DEFINE p == Cardinality(PastCheck)  n == Cardinality(Drafters)
  <2>2. PastCheck \subseteq Drafters  BY DEF PastCheck
  <2>3. p \in Nat /\ n \in Nat  BY <2>2, FS_Subset, FS_CardinalityType
  <2>4. called \in Nat /\ draftFaults \in Nat /\ Budget \in Nat /\ called + p <= Budget - 1 + n + draftFaults
    BY <2>1, DraftingAssumption DEF DraftTypes, DraftInv, MeterInv, Metered
  <2>5. BudgetHolds <=> called <= Budget - 1 + n + draftFaults  BY DEF BudgetHolds
  <2> HIDE DEF p, n
  <2> QED  BY <2>3, <2>4, <2>5
<1> QED  BY <1>1, DraftHolds, PTL

(* While runs do not overlap a company has one automatic campaign waiting at
   most, and one draft per topic, and one more for each read that failed and
   was taken for an empty list: whoever is killed, wherever (automation.ts). *)
THEOREM DraftsNeverPile == DraftingSpec => []OneDraftEach
<1>1. DraftTypes /\ DraftInv => OneDraftEach  BY DEF DraftInv, RunsInv, OneRuns, OneDraftEach
<1> QED  BY <1>1, DraftHolds, PTL
-----------------------------------------------------------------------------
(* CalendarAssist: what a request is at.                                   *)
AssistRecord ==
  [pc : {"idle", "list", "missing", "write", "return", "draft", "mark", "found"},
   job : {"other", "scan", "calendar", "accept", "dismiss"},
   row : SUBSET Suggestions, copy : Boards, kept : Boards]

Surveys(x) == x.pc # "idle" /\ x.job \in {"scan", "calendar"}
Adding(x) == Surveys(x) /\ x.pc \in {"missing", "write"}
Settles(x, g) == x.pc # "idle" /\ x.job \in {"accept", "dismiss"} /\ x.row = {g}
HasDrafted(x, g) == Settles(x, g) /\ x.job = "accept" /\ x.pc # "draft"

(* Nobody holds a suggestion that was never given out, and a delivery run had
   read the company before the one it surfaced. *)
RecordOK(x) ==
  /\ x.row \subseteq surfaced
  /\ \A h \in Suggestions : x.copy[h] # "none" \/ x.kept[h] # "none" => h \in surfaced
  /\ x.job = "calendar" => \A h \in x.row : x.kept[h] = "none"
  /\ x.pc = "idle" => x.job = "other" /\ x.row = {}
  /\ x.pc \in {"list", "missing", "return"} => x.job \in {"scan", "calendar"}
  /\ x.pc = "draft" => x.job = "accept"
  /\ x.pc \in {"mark", "found"} => x.job \in {"accept", "dismiss"}
  /\ x.job \in {"accept", "dismiss"} => \E g \in Suggestions : x.row = {g}

ListTypes ==
  /\ board \in Boards /\ surfaced \subseteq Suggestions /\ fromSuggestion \in [Suggestions -> Nat]
  /\ assistFaults \in Nat /\ assistMishaps \subseteq {"scan", "accept", "profile"}
  /\ \A h \in Suggestions : board[h] # "none" \/ fromSuggestion[h] # 0 => h \in surfaced

AssistTypes ==
  /\ ListTypes
  /\ assistants \in [Assistants -> AssistRecord] /\ \A a \in Assistants : RecordOK(assistants[a])

(* One scan at a time, and what it is about to surface is not open, but for a
   list that could not be read. *)
OneSurvey ==
  /\ \A a, c \in Assistants : Surveys(assistants[a]) /\ Surveys(assistants[c]) => a = c
  /\ Cardinality(OpenOnes) <= 1 + assistFaults
  /\ \A a \in Assistants : Adding(assistants[a]) => Cardinality(OpenOnes) <= assistFaults

SurveyInv ==
  IsFiniteSet(Suggestions) => "scan" \in assistMishaps \/ "profile" \in assistMishaps \/ OneSurvey

(* One request settles a suggestion, which is open until it does unless a
   delivery run wiped it out; drafts there are only of those it made, and of
   those that ended on the way. *)
OneSettles(g) ==
  /\ \A a, c \in Assistants : Settles(assistants[a], g) /\ Settles(assistants[c], g) => a = c
  /\ fromSuggestion[g] <= 1 + assistFaults
  /\ \A a \in Assistants : Settles(assistants[a], g) =>
       board[g] \in {"open", "none"} /\ (HasDrafted(assistants[a], g) \/ fromSuggestion[g] <= assistFaults)
  /\ \/ board[g] \in {"none", "accepted"}
     \/ \E a \in Assistants : HasDrafted(assistants[a], g)
     \/ fromSuggestion[g] <= assistFaults

SettleInv ==
  "accept" \in assistMishaps \/ "profile" \in assistMishaps \/ \A g \in Suggestions : OneSettles(g)
AssistInv == SurveyInv /\ SettleInv

Turns(a, y) == \A c \in Assistants : assistants'[c] = IF c = a THEN y ELSE assistants[c]

-----------------------------------------------------------------------------
LEMMA BlankType == Blank \in Boards
BY DEF Blank, Boards

LEMMA RestType ==
  /\ AtRest \in AssistRecord /\ AtRest.pc = "idle" /\ RecordOK(AtRest) /\ RecordOK(AtRest)'
  /\ ~Surveys(AtRest) /\ ~Adding(AtRest) /\ \A g : ~Settles(AtRest, g) /\ ~HasDrafted(AtRest, g)
<1>1. AtRest \in AssistRecord  BY BlankType DEF AtRest, AssistRecord
<1>2. /\ AtRest.pc = "idle" /\ AtRest.job = "other" /\ AtRest.row = {}
      /\ \A h \in Suggestions : AtRest.copy[h] = "none" /\ AtRest.kept[h] = "none"
  BY DEF AtRest, Blank
<1> HIDE DEF AtRest
<1> QED  BY <1>1, <1>2 DEF RecordOK, Surveys, Adding, Settles, HasDrafted

LEMMA OpensCount ==
  ASSUME IsFiniteSet(Suggestions)
  PROVE  /\ Cardinality(OpenOnes) \in Nat /\ Cardinality(OpenOnes') \in Nat
         /\ OpenOnes' \subseteq OpenOnes => Cardinality(OpenOnes') <= Cardinality(OpenOnes)
         /\ \A g \in Suggestions :
              OpenOnes' \subseteq OpenOnes \cup {g} => Cardinality(OpenOnes') <= Cardinality(OpenOnes) + 1
<1> DEFINE o == OpenOnes  p == OpenOnes'
<1>1. o \subseteq Suggestions /\ p \subseteq Suggestions  BY DEF OpenOnes
<1>2. IsFiniteSet(o) /\ IsFiniteSet(p)  BY <1>1, FS_Subset
<1> HIDE DEF o, p
<1>3. Cardinality(o) \in Nat /\ Cardinality(p) \in Nat  BY <1>2, FS_CardinalityType
<1>4. p \subseteq o => Cardinality(p) <= Cardinality(o)  BY <1>2, FS_Subset
<1>5. ASSUME NEW g \in Suggestions, p \subseteq o \cup {g}  PROVE Cardinality(p) <= Cardinality(o) + 1
  <2>1. IsFiniteSet(o \cup {g}) /\ Cardinality(o \cup {g}) <= Cardinality(o) + 1
    <3>1. /\ IsFiniteSet(o \cup {g})
          /\ Cardinality(o \cup {g}) = IF g \in o THEN Cardinality(o) ELSE Cardinality(o) + 1
      BY <1>2, FS_AddElement
    <3>2. CASE g \in o  BY <1>3, <3>1, <3>2
    <3>3. CASE g \notin o  BY <1>3, <3>1, <3>3
    <3> QED  BY <3>2, <3>3
  <2>2. Cardinality(p) <= Cardinality(o \cup {g}) /\ Cardinality(o \cup {g}) \in Nat
    BY <1>5, <2>1, FS_Subset, FS_CardinalityType
  <2> QED  BY <1>3, <2>1, <2>2
<1> QED  BY <1>3, <1>4, <1>5 DEF o, p

(* The records of the others stay in order while suggestions are given out. *)
LEMMA Turned ==
  ASSUME AssistTypes, NEW a \in Assistants, NEW y, RecordOK(y)', assistants' \in [Assistants -> AssistRecord],
         y = assistants'[a], \A c \in Assistants : c # a => assistants'[c] = assistants[c],
         surfaced \subseteq surfaced', ListTypes'
  PROVE  AssistTypes' /\ Turns(a, y)
<1>1. Turns(a, y)  BY DEF AssistTypes, Turns
<1>2. ASSUME NEW c \in Assistants, NEW z, z = assistants'[c]  PROVE RecordOK(z)'
  <2>1. CASE c = a
    <3>1. z = y  BY <1>1, <1>2, <2>1 DEF Turns
    <3> QED  BY <3>1
  <2>2. CASE c # a
    <3>1. z = assistants[c] /\ RecordOK(z)  BY <1>1, <1>2, <2>2 DEF Turns, AssistTypes
    <3> QED  BY <3>1 DEF RecordOK
  <2> QED  BY <2>1, <2>2
<1>3. \A c \in Assistants : RecordOK(assistants[c])'
  <2>1. ASSUME NEW c \in Assistants  PROVE RecordOK(assistants[c])'
    <3>1. PICK z : z = assistants'[c]  OBVIOUS
    <3>2. RecordOK(z)'  BY <1>2, <3>1
    <3> QED  BY <3>1, <3>2 DEF RecordOK
  <2> QED  BY <2>1
<1> QED  BY <1>1, <1>3 DEF AssistTypes

LEMMA SurveysOn ==
  ASSUME AssistTypes, SurveyInv, NEW a \in Assistants, NEW y, Turns(a, y),
         assistFaults' \in Nat, assistFaults <= assistFaults', assistMishaps \subseteq assistMishaps',
         \/ "profile" \in assistMishaps'
         \/ OpenOnes' \subseteq OpenOnes
         \/ /\ Adding(assistants[a]) /\ ~Adding(y)
            /\ \E g \in Suggestions : OpenOnes' \subseteq OpenOnes \cup {g},
         Surveys(y) => \/ Surveys(assistants[a]) \/ "scan" \in assistMishaps'
                       \/ \A c \in Assistants : ~Surveys(assistants[c]),
         Adding(y) => Adding(assistants[a]) \/ OpenOnes = {} \/ assistFaults' = assistFaults + 1
  PROVE  SurveyInv'
<1> SUFFICES ASSUME IsFiniteSet(Suggestions), ~("scan" \in assistMishaps' \/ "profile" \in assistMishaps')
             PROVE  OneSurvey'
  BY DEF SurveyInv
<1>1. OneSurvey  BY DEF SurveyInv
<1>2. \A b, c \in Assistants : Surveys(assistants'[b]) /\ Surveys(assistants'[c]) => b = c
  BY <1>1 DEF Turns, OneSurvey
<1> DEFINE n == Cardinality(OpenOnes)  f == assistFaults
<1>3. PICK m \in Nat : m = Cardinality(OpenOnes')  BY OpensCount
<1>4. PICK e \in Nat : e = assistFaults'  OBVIOUS
<1>5. n \in Nat /\ f \in Nat /\ f <= e /\ n <= 1 + f  BY <1>1, <1>4, OpensCount DEF AssistTypes, ListTypes, OneSurvey
<1>6. (OpenOnes = {}) => n = 0  BY FS_EmptySet
<1>7. \A c \in Assistants : Adding(assistants[c]) => n <= f  BY <1>1 DEF OneSurvey
<1>8. Adding(y) => Adding(assistants[a]) \/ OpenOnes = {} \/ e = f + 1  BY <1>4
<1>9. m <= 1 + e /\ \A c \in Assistants : Adding(assistants'[c]) => m <= e
  <2>1. CASE OpenOnes' \subseteq OpenOnes
    <3>1. m <= n  BY <1>3, <2>1, OpensCount
    <3>2. ASSUME NEW c \in Assistants, Adding(assistants'[c])  PROVE m <= e
      <4>1. CASE c = a
        <5>1. Adding(y)  BY <3>2, <4>1 DEF Turns
        <5>2. n <= f \/ n = 0 \/ e = f + 1  BY <1>6, <1>7, <1>8, <5>1
        <5> HIDE DEF n, f
        <5> QED  BY <1>5, <3>1, <5>2
      <4>2. CASE c # a
        <5>1. n <= f  BY <1>7, <3>2, <4>2 DEF Turns
        <5> HIDE DEF n, f
        <5> QED  BY <1>5, <3>1, <5>1
      <4> QED  BY <4>1, <4>2
    <3> HIDE DEF n, f
    <3> QED  BY <1>5, <3>1, <3>2
  <2>2. CASE /\ Adding(assistants[a]) /\ ~Adding(y)
             /\ \E g \in Suggestions : OpenOnes' \subseteq OpenOnes \cup {g}
    <3>1. m <= n + 1  BY <1>3, <2>2, OpensCount
    <3>2. n <= f  BY <1>7, <2>2
    <3>3. \A c \in Assistants : ~Adding(assistants'[c])
      BY <1>1, <2>2 DEF Turns, OneSurvey, Adding
    <3> HIDE DEF n, f
    <3> QED  BY <1>5, <3>1, <3>2, <3>3
  <2> QED  BY <2>1, <2>2
<1>10. Cardinality(OpenOnes') <= 1 + assistFaults'  BY <1>3, <1>4, <1>9
<1>11. \A c \in Assistants : Adding(assistants'[c]) => Cardinality(OpenOnes') <= assistFaults'
  BY <1>3, <1>4, <1>9
<1> QED  BY <1>2, <1>10, <1>11 DEF OneSurvey, Surveys, Adding

(* A suggestion that is nobody's business in this step.                    *)
LEMMA SettlesApart ==
  ASSUME AssistTypes, NEW a \in Assistants, NEW y, Turns(a, y), NEW g \in Suggestions, OneSettles(g),
         assistFaults' \in Nat, assistFaults <= assistFaults',
         ~Settles(assistants[a], g), ~Settles(y, g), fromSuggestion'[g] = fromSuggestion[g],
         board'[g] = board[g] \/ (board[g] = "open" /\ board'[g] = "none")
  PROVE  OneSettles(g)'
<1>1. fromSuggestion[g] \in Nat /\ assistFaults \in Nat  BY DEF AssistTypes, ListTypes
<1>2. fromSuggestion[g] <= 1 + assistFaults'  BY <1>1, Slack DEF OneSettles
<1>3. fromSuggestion[g] <= assistFaults => fromSuggestion[g] <= assistFaults'  BY <1>1, Under
<1>4. \A c \in Assistants : /\ Settles(assistants'[c], g) <=> Settles(assistants[c], g)
                            /\ HasDrafted(assistants'[c], g) <=> HasDrafted(assistants[c], g)
  BY DEF Turns, HasDrafted
<1>5. \A b, c \in Assistants : Settles(assistants'[b], g) /\ Settles(assistants'[c], g) => b = c
  BY <1>4 DEF OneSettles
<1>6. \A c \in Assistants : Settles(assistants'[c], g) =>
        board'[g] \in {"open", "none"} /\ (HasDrafted(assistants'[c], g) \/ fromSuggestion[g] <= assistFaults')
  BY <1>3, <1>4 DEF OneSettles
<1>7. \/ board'[g] \in {"none", "accepted"}
      \/ \E c \in Assistants : HasDrafted(assistants'[c], g)
      \/ fromSuggestion[g] <= assistFaults'
  BY <1>3, <1>4 DEF OneSettles
<1> QED  BY <1>2, <1>5, <1>6, <1>7 DEF OneSettles, Settles, HasDrafted

(* A suggestion that is nobody's business but this request's.              *)
LEMMA SettlesHere ==
  ASSUME NEW a \in Assistants, NEW y, Turns(a, y), NEW g \in Suggestions,
         \A c \in Assistants : c # a => ~Settles(assistants[c], g),
         fromSuggestion'[g] <= 1 + assistFaults',
         Settles(y, g) =>
           board'[g] \in {"open", "none"} /\ (HasDrafted(y, g) \/ fromSuggestion'[g] <= assistFaults'),
         board'[g] \in {"none", "accepted"} \/ HasDrafted(y, g) \/ fromSuggestion'[g] <= assistFaults'
  PROVE  OneSettles(g)'
<1>1. \A c \in Assistants : Settles(assistants'[c], g) => c = a /\ assistants'[c] = y  BY DEF Turns
<1>2. \A b, c \in Assistants : Settles(assistants'[b], g) /\ Settles(assistants'[c], g) => b = c
  BY <1>1
<1>3. \A c \in Assistants : Settles(assistants'[c], g) =>
        board'[g] \in {"open", "none"} /\ (HasDrafted(assistants'[c], g) \/ fromSuggestion'[g] <= assistFaults')
  BY <1>1
<1>4. HasDrafted(y, g) => \E c \in Assistants : HasDrafted(assistants'[c], g)  BY DEF Turns
<1> QED  BY <1>2, <1>3, <1>4 DEF OneSettles, Settles, HasDrafted

LEMMA Alone ==
  ASSUME NEW g \in Suggestions, OneSettles(g), NEW a \in Assistants, Settles(assistants[a], g)
  PROVE  /\ \A c \in Assistants : c # a => ~Settles(assistants[c], g)
         /\ board[g] \in {"open", "none"}
         /\ HasDrafted(assistants[a], g) \/ fromSuggestion[g] <= assistFaults
         /\ \A c \in Assistants : HasDrafted(assistants[c], g) => c = a
BY DEF OneSettles, HasDrafted

(* A suggestion while neither the list nor a draft is written: nobody's business
   in this step, left with what it has, held on to, or taken up. *)
Left(x, y, g) ==
  /\ Settles(x, g) /\ ~Settles(y, g)
  /\ ~HasDrafted(x, g) \/ assistFaults' = assistFaults + 1 \/ board[g] = "none"
Held(x, y, g) == Settles(x, g) /\ Settles(y, g) /\ (HasDrafted(y, g) <=> HasDrafted(x, g))
TakenUp(y, g) == Settles(y, g) /\ board[g] = "open" /\ \A c \in Assistants : ~Settles(assistants[c], g)
Treated(x, y, g) ==
  \/ ~Settles(x, g) /\ ~Settles(y, g)
  \/ Left(x, y, g) \/ Held(x, y, g) \/ TakenUp(y, g)

LEMMA TreatedSettles ==
  ASSUME AssistTypes, NEW a \in Assistants, NEW y, Turns(a, y), NEW g \in Suggestions, OneSettles(g),
         board' = board, fromSuggestion' = fromSuggestion,
         assistFaults' = assistFaults \/ assistFaults' = assistFaults + 1,
         Treated(assistants[a], y, g)
  PROVE  OneSettles(g)'
<1>1. assistFaults \in Nat /\ assistFaults' \in Nat /\ assistFaults <= assistFaults'
  BY DEF AssistTypes, ListTypes
<1>3. fromSuggestion[g] \in Nat  BY DEF AssistTypes, ListTypes
<1>4. /\ fromSuggestion[g] <= 1 + assistFaults /\ fromSuggestion[g] <= 1 + assistFaults'
      /\ fromSuggestion[g] <= assistFaults => fromSuggestion[g] <= assistFaults'
  BY <1>1, <1>3, Slack, Under DEF OneSettles
<1>5. assistFaults' = assistFaults + 1 => fromSuggestion[g] <= assistFaults'
  BY <1>1, <1>3, <1>4
<1>6. fromSuggestion'[g] <= 1 + assistFaults'  BY <1>4
<1>7. CASE ~Settles(assistants[a], g) /\ ~Settles(y, g)
  <2>1. board'[g] = board[g] /\ fromSuggestion'[g] = fromSuggestion[g]  OBVIOUS
  <2> QED  BY <1>1, <1>7, <2>1, SettlesApart
<1>8. CASE Left(assistants[a], y, g)
  <2>1. board'[g] \in {"none", "accepted"} \/ fromSuggestion'[g] <= assistFaults'
    BY <1>4, <1>5, <1>8, Alone DEF Left
  <2>2. Settles(assistants[a], g) /\ ~Settles(y, g)  BY <1>8 DEF Left
  <2> QED  BY <1>6, <2>1, <2>2, Alone, SettlesHere
<1>9. CASE Held(assistants[a], y, g)
  <2>1. /\ board'[g] \in {"open", "none"}
        /\ HasDrafted(y, g) \/ fromSuggestion'[g] <= assistFaults'
    BY <1>4, <1>9, Alone DEF Held
  <2>2. Settles(assistants[a], g)  BY <1>9 DEF Held
  <2> QED  BY <1>6, <2>1, <2>2, Alone, SettlesHere
<1>10. CASE TakenUp(y, g)
  <2>1. fromSuggestion'[g] <= assistFaults'  BY <1>4, <1>10 DEF OneSettles, HasDrafted, TakenUp
  <2>2. board'[g] \in {"open", "none"}  BY <1>10 DEF TakenUp
  <2> QED  BY <1>6, <1>10, <2>1, <2>2, SettlesHere DEF TakenUp
<1> QED  BY <1>7, <1>8, <1>9, <1>10 DEF Treated

(* A step that writes neither the list nor a draft.                        *)
LEMMA AssistStill ==
  ASSUME AssistTypes, AssistInv, NEW a \in Assistants, NEW y, RecordOK(y),
         assistants' \in [Assistants -> AssistRecord],
         y = assistants'[a], \A c \in Assistants : c # a => assistants'[c] = assistants[c],
         UNCHANGED <<board, surfaced, fromSuggestion>>,
         assistFaults' = assistFaults \/ assistFaults' = assistFaults + 1,
         assistMishaps \subseteq assistMishaps', assistMishaps' \subseteq {"scan", "accept", "profile"},
         Surveys(y) => \/ Surveys(assistants[a]) \/ "scan" \in assistMishaps'
                       \/ \A c \in Assistants : ~Surveys(assistants[c]),
         Adding(y) => Adding(assistants[a]) \/ OpenOnes = {} \/ assistFaults' = assistFaults + 1,
         "accept" \in assistMishaps' \/ \A g \in Suggestions : Treated(assistants[a], y, g)
  PROVE  (AssistTypes /\ AssistInv)'
<1>1. assistFaults \in Nat /\ assistFaults' \in Nat /\ assistFaults <= assistFaults'
  BY DEF AssistTypes, ListTypes
<1>2. ListTypes'  BY <1>1 DEF AssistTypes, ListTypes
<1>3. RecordOK(y)' /\ surfaced \subseteq surfaced'  BY DEF RecordOK
<1>4. AssistTypes' /\ Turns(a, y)  BY <1>2, <1>3, Turned
<1>5. OpenOnes' \subseteq OpenOnes  BY DEF OpenOnes
<1>6. SurveyInv'  BY <1>1, <1>4, <1>5, SurveysOn DEF AssistInv
<1>7. SettleInv'
  <2>1. SUFFICES ASSUME "accept" \notin assistMishaps', "profile" \notin assistMishaps', NEW g \in Suggestions
                 PROVE  OneSettles(g)'
    BY DEF SettleInv
  <2>2. OneSettles(g)  BY <2>1 DEF AssistInv, SettleInv
  <2>3. Treated(assistants[a], y, g)  BY <2>1
  <2> QED  BY <1>4, <2>2, <2>3, TreatedSettles
<1> QED  BY <1>4, <1>6, <1>7 DEF AssistInv

LEMMA Stepped ==
  ASSUME AssistTypes, NEW a \in Assistants,
         NEW pc \in {"missing", "return", "mark", "found"}, AssistantTo(a, pc)
  PROVE  /\ assistants' \in [Assistants -> AssistRecord]
         /\ \A c \in Assistants : c # a => assistants'[c] = assistants[c]
         /\ assistants'[a].pc = pc /\ assistants'[a].job = assistants[a].job
         /\ assistants'[a].row = assistants[a].row /\ assistants'[a].copy = assistants[a].copy
         /\ assistants'[a].kept = assistants[a].kept
<1>1. assistants \in [Assistants -> AssistRecord]  BY DEF AssistTypes
<1> QED  BY <1>1 DEF AssistantTo, AssistRecord

(* A request that ends, or is killed.                                      *)
LEMMA AssistEnds ==
  ASSUME AssistTypes, AssistInv, NEW a \in Assistants, AssistantDone(a),
         UNCHANGED <<board, surfaced, fromSuggestion, assistMishaps>>,
         assistFaults' = assistFaults \/ assistFaults' = assistFaults + 1,
         \A g \in Suggestions :
           HasDrafted(assistants[a], g) => assistFaults' = assistFaults + 1 \/ board[g] = "none"
  PROVE  (AssistTypes /\ AssistInv)'
<1> DEFINE y == AtRest
<1>1. /\ assistants' \in [Assistants -> AssistRecord] /\ y = assistants'[a]
      /\ \A c \in Assistants : c # a => assistants'[c] = assistants[c]
  BY RestType DEF AssistTypes, AssistantDone
<1>2. RecordOK(y) /\ ~Surveys(y) /\ ~Adding(y) /\ \A g : ~Settles(y, g)  BY RestType
<1> HIDE DEF y
<1>3. \A g \in Suggestions : Treated(assistants[a], y, g)  BY <1>2 DEF Treated, Left
<1>4. assistMishaps' \subseteq {"scan", "accept", "profile"}  BY DEF AssistTypes, ListTypes
<1> QED  BY <1>1, <1>2, <1>3, <1>4, AssistStill

(* A scan goes on.                                                         *)
LEMMA ScanGoes ==
  ASSUME AssistTypes, AssistInv, NEW a \in Assistants, Surveys(assistants[a]),
         NEW pc \in {"missing", "return"}, AssistantTo(a, pc),
         UNCHANGED <<board, surfaced, fromSuggestion, assistMishaps>>,
         assistFaults' = assistFaults \/ assistFaults' = assistFaults + 1,
         pc = "missing" => OpenOnes = {} \/ assistFaults' = assistFaults + 1
  PROVE  (AssistTypes /\ AssistInv)'
<1>1. /\ assistants' \in [Assistants -> AssistRecord]
      /\ \A c \in Assistants : c # a => assistants'[c] = assistants[c]
  BY Stepped
<1>2. PICK y \in AssistRecord : y = assistants'[a]  BY <1>1
<1>3. /\ y.pc = pc /\ y.job = assistants[a].job /\ y.row = assistants[a].row
      /\ y.copy = assistants[a].copy /\ y.kept = assistants[a].kept
  BY <1>2, Stepped
<1>4. RecordOK(assistants[a]) /\ assistants[a].job \in {"scan", "calendar"}  BY DEF AssistTypes, Surveys
<1>5. RecordOK(y)  BY <1>3, <1>4 DEF RecordOK
<1>6. Adding(y) => OpenOnes = {} \/ assistFaults' = assistFaults + 1  BY <1>3 DEF Adding
<1>7. \A g \in Suggestions : Treated(assistants[a], y, g)  BY <1>3, <1>4 DEF Treated, Settles
<1>8. assistMishaps' \subseteq {"scan", "accept", "profile"}  BY DEF AssistTypes, ListTypes
<1> QED  BY <1>1, <1>2, <1>5, <1>6, <1>7, <1>8, AssistStill

(* ... or is over.                                                         *)
LEMMA ScanEnds ==
  ASSUME AssistTypes, AssistInv, NEW a \in Assistants, Surveys(assistants[a]), ScanOver(a),
         UNCHANGED <<board, surfaced, fromSuggestion, assistFaults, assistMishaps>>
  PROVE  (AssistTypes /\ AssistInv)'
<1>1. assistants[a].job \in {"scan", "calendar"} /\ \A g : ~HasDrafted(assistants[a], g)
  BY DEF Surveys, HasDrafted
<1>2. CASE assistants[a].job = "scan"
  <2>1. AssistantDone(a)  BY <1>2 DEF ScanOver, AssistantDone
  <2> QED  BY <1>1, <2>1, AssistEnds
<1>3. CASE assistants[a].job = "calendar"
  <2>1. AssistantTo(a, "return")  BY <1>3 DEF ScanOver, AssistantTo
  <2> QED  BY <2>1, ScanGoes
<1> QED  BY <1>1, <1>2, <1>3

LEMMA StepListOpen ==
  ASSUME AssistTypes, AssistInv, NEW a \in Assistants, ListOpen(a)
  PROVE  (AssistTypes /\ AssistInv)'
<1>1. Surveys(assistants[a])  BY DEF ListOpen, AssistantAt, Surveys
<1>2. UNCHANGED <<board, surfaced, fromSuggestion, assistFaults, assistMishaps>>  BY DEF ListOpen
<1>3. CASE OpenOnes = {}
  <2>1. AssistantTo(a, "missing")  BY <1>3 DEF ListOpen
  <2> QED  BY <1>1, <1>2, <1>3, <2>1, ScanGoes
<1>4. CASE OpenOnes # {}
  <2>1. ScanOver(a)  BY <1>4 DEF ListOpen
  <2> QED  BY <1>1, <1>2, <2>1, ScanEnds
<1> QED  BY <1>3, <1>4

LEMMA StepListUnread ==
  ASSUME AssistTypes, AssistInv, NEW a \in Assistants, ListUnread(a)
  PROVE  (AssistTypes /\ AssistInv)'
<1>1. Surveys(assistants[a])  BY DEF ListUnread, AssistantAt, Surveys
<1> QED  BY <1>1, ScanGoes DEF ListUnread

LEMMA StepScanRefused ==
  ASSUME AssistTypes, AssistInv, NEW a \in Assistants, ScanRefused(a)
  PROVE  (AssistTypes /\ AssistInv)'
<1>1. Surveys(assistants[a])  BY DEF ScanRefused, AssistTypes, RecordOK, Surveys
<1> QED  BY <1>1, ScanEnds DEF ScanRefused

LEMMA StepAcceptRefused ==
  ASSUME AssistTypes, AssistInv, NEW a \in Assistants, AcceptRefused(a)
  PROVE  (AssistTypes /\ AssistInv)'
<1>1. \A g : ~HasDrafted(assistants[a], g)  BY DEF AcceptRefused, HasDrafted
<1> QED  BY <1>1, AssistEnds DEF AcceptRefused

LEMMA StepKillAssistant ==
  ASSUME AssistTypes, AssistInv, NEW a \in Assistants, KillAssistant(a)
  PROVE  (AssistTypes /\ AssistInv)'
BY AssistEnds DEF KillAssistant

(* A request that begins holds nothing yet but what it takes up.           *)
LEMMA AssistBegins ==
  ASSUME AssistTypes, AssistInv, NEW a \in Assistants, NEW y, RecordOK(y), assistants[a].pc = "idle",
         assistants' \in [Assistants -> AssistRecord],
         y = assistants'[a], \A c \in Assistants : c # a => assistants'[c] = assistants[c],
         UNCHANGED <<board, surfaced, fromSuggestion, assistFaults>>,
         assistMishaps \subseteq assistMishaps', assistMishaps' \subseteq {"scan", "accept", "profile"},
         ~Adding(y),
         Surveys(y) => "scan" \in assistMishaps' \/ \A c \in Assistants : ~Surveys(assistants[c]),
         \/ "accept" \in assistMishaps'
         \/ \A g \in Suggestions : Settles(y, g) => TakenUp(y, g)
  PROVE  (AssistTypes /\ AssistInv)'
<1>1. \A g : ~Settles(assistants[a], g)  BY DEF Settles
<1>2. "accept" \in assistMishaps' \/ \A g \in Suggestions : Treated(assistants[a], y, g)
  BY <1>1 DEF Treated
<1> QED  BY <1>2, AssistStill

LEMMA StepBeginScan ==
  ASSUME AssistTypes, AssistInv, NEW a \in Assistants, BeginScan(a)
  PROVE  (AssistTypes /\ AssistInv)'
<1> DEFINE x == assistants[a]
<1>0. assistants \in [Assistants -> AssistRecord] /\ x \in AssistRecord /\ x.pc = "idle" /\ RecordOK(x)
  BY DEF AssistTypes, BeginScan
<1>1. /\ assistants' \in [Assistants -> AssistRecord]
      /\ \A c \in Assistants : c # a => assistants'[c] = assistants[c]
      /\ assistants'[a].pc = "list" /\ assistants'[a].job = "scan" /\ assistants'[a].row = x.row
      /\ assistants'[a].copy = x.copy /\ assistants'[a].kept = x.kept
  BY <1>0 DEF BeginScan, AssistRecord
<1>2. PICK y \in AssistRecord : y = assistants'[a]  BY <1>1
<1>3. y.pc = "list" /\ y.job = "scan" /\ y.row = x.row /\ y.copy = x.copy /\ y.kept = x.kept  BY <1>1, <1>2
<1>4. RecordOK(y) /\ ~Adding(y) /\ \A g : ~Settles(y, g)  BY <1>0, <1>3 DEF RecordOK, Adding, Settles
<1>5. UNCHANGED <<board, surfaced, fromSuggestion, assistFaults>>  BY DEF BeginScan
<1>6. /\ assistMishaps \subseteq assistMishaps' /\ assistMishaps' \subseteq {"scan", "accept", "profile"}
      /\ "scan" \in assistMishaps' \/ \A c \in Assistants : ~Surveys(assistants[c])
  BY DEF BeginScan, Remarking, Scanners, Surveys, AssistTypes, ListTypes
<1> QED  BY <1>0, <1>1, <1>2, <1>4, <1>5, <1>6, AssistBegins

LEMMA StepBeginCalendarPhase ==
  ASSUME AssistTypes, AssistInv, NEW a \in Assistants, BeginCalendarPhase(a)
  PROVE  (AssistTypes /\ AssistInv)'
<1> DEFINE x == assistants[a]
<1>0. /\ assistants \in [Assistants -> AssistRecord] /\ x \in AssistRecord /\ x.pc = "idle" /\ RecordOK(x)
      /\ board \in Boards /\ \A h \in Suggestions : board[h] # "none" => h \in surfaced
  BY DEF AssistTypes, ListTypes, BeginCalendarPhase
<1>1. /\ assistants' \in [Assistants -> AssistRecord]
      /\ \A c \in Assistants : c # a => assistants'[c] = assistants[c]
      /\ assistants'[a].pc = "list" /\ assistants'[a].job = "calendar" /\ assistants'[a].row = x.row
      /\ assistants'[a].copy = x.copy /\ assistants'[a].kept = board
  BY <1>0 DEF BeginCalendarPhase, AssistRecord
<1>2. PICK y \in AssistRecord : y = assistants'[a]  BY <1>1
<1>3. y.pc = "list" /\ y.job = "calendar" /\ y.row = x.row /\ y.copy = x.copy /\ y.kept = board  BY <1>1, <1>2
<1>a. x.row = {}  BY <1>0 DEF RecordOK
<1>4. RecordOK(y) /\ ~Adding(y) /\ \A g : ~Settles(y, g)
  BY <1>0, <1>3, <1>a DEF RecordOK, Adding, Settles
<1>5. UNCHANGED <<board, surfaced, fromSuggestion, assistFaults>>  BY DEF BeginCalendarPhase
<1>6. /\ assistMishaps \subseteq assistMishaps' /\ assistMishaps' \subseteq {"scan", "accept", "profile"}
      /\ "scan" \in assistMishaps' \/ \A c \in Assistants : ~Surveys(assistants[c])
  BY DEF BeginCalendarPhase, Remarking, Scanners, Surveys, AssistTypes, ListTypes
<1> QED  BY <1>0, <1>1, <1>2, <1>4, <1>5, <1>6, AssistBegins

(* A suggestion is taken up, to be accepted or dismissed.                  *)
LEMMA TakesUp ==
  ASSUME AssistTypes, AssistInv, NEW a \in Assistants, NEW g \in Suggestions,
         assistants[a].pc = "idle", board[g] = "open", NEW pc, NEW job,
         \/ pc = "draft" /\ job = "accept"
         \/ pc = "mark" /\ job = "dismiss",
         assistants' = [assistants EXCEPT ![a].pc = pc, ![a].job = job, ![a].row = {g}],
         Remarking("accept", Settling(g)), UNCHANGED <<board, surfaced, fromSuggestion, assistFaults>>
  PROVE  (AssistTypes /\ AssistInv)'
<1> DEFINE x == assistants[a]
<1>0. /\ assistants \in [Assistants -> AssistRecord] /\ x \in AssistRecord /\ RecordOK(x)
      /\ g \in surfaced
  BY DEF AssistTypes, ListTypes
<1>1. /\ assistants' \in [Assistants -> AssistRecord]
      /\ \A c \in Assistants : c # a => assistants'[c] = assistants[c]
      /\ assistants'[a].pc = pc /\ assistants'[a].job = job /\ assistants'[a].row = {g}
      /\ assistants'[a].copy = x.copy /\ assistants'[a].kept = x.kept
  BY <1>0 DEF AssistRecord
<1>2. PICK y \in AssistRecord : y = assistants'[a]  BY <1>1
<1>3. y.pc = pc /\ y.job = job /\ y.row = {g} /\ y.copy = x.copy /\ y.kept = x.kept  BY <1>1, <1>2
<1>4. RecordOK(y) /\ ~Adding(y) /\ ~Surveys(y)
  BY <1>0, <1>3 DEF RecordOK, Adding, Surveys
<1>5. /\ assistMishaps \subseteq assistMishaps' /\ assistMishaps' \subseteq {"scan", "accept", "profile"}
      /\ "accept" \in assistMishaps' \/ \A c \in Assistants : ~Settles(assistants[c], g)
  BY DEF Remarking, Settling, Settles, AssistTypes, ListTypes
<1>6. "accept" \in assistMishaps' \/ \A h \in Suggestions : Settles(y, h) => TakenUp(y, h)
  <2>1. \A h \in Suggestions : Settles(y, h) => h = g  BY <1>3 DEF Settles
  <2> QED  BY <1>5, <2>1 DEF TakenUp
<1> QED  BY <1>0, <1>1, <1>2, <1>4, <1>5, <1>6, AssistBegins

LEMMA StepAcceptSuggestion ==
  ASSUME AssistTypes, AssistInv, NEW a \in Assistants, NEW g \in Suggestions, AcceptSuggestion(a, g)
  PROVE  (AssistTypes /\ AssistInv)'
BY TakesUp DEF AcceptSuggestion

LEMMA StepDismissSuggestion ==
  ASSUME AssistTypes, AssistInv, NEW a \in Assistants, NEW g \in Suggestions, DismissSuggestion(a, g)
  PROVE  (AssistTypes /\ AssistInv)'
BY TakesUp DEF DismissSuggestion

LEMMA StepLookUp ==
  ASSUME AssistTypes, AssistInv, NEW a \in Assistants, NEW g \in Suggestions, LookUp(a, g)
  PROVE  (AssistTypes /\ AssistInv)'
<1> DEFINE x == assistants[a]
<1>0. x.pc = "mark" /\ x.row = {g} /\ RecordOK(x) /\ x.job \in {"accept", "dismiss"}
  BY DEF LookUp, AssistTypes, RecordOK
<1>1. UNCHANGED <<board, surfaced, fromSuggestion, assistFaults, assistMishaps>>  BY DEF LookUp
<1>2. \A h : Settles(x, h) => h = g  BY <1>0 DEF Settles
<1>3. CASE board[g] = "none"
  <2>1. AssistantDone(a)  BY <1>3 DEF LookUp
  <2>2. \A h \in Suggestions : HasDrafted(x, h) => board[h] = "none"  BY <1>2, <1>3 DEF HasDrafted
  <2> QED  BY <1>1, <2>1, <2>2, AssistEnds
<1>4. CASE board[g] # "none"
  <2>1. AssistantTo(a, "found")  BY <1>4 DEF LookUp
  <2>2. /\ assistants' \in [Assistants -> AssistRecord]
        /\ \A c \in Assistants : c # a => assistants'[c] = assistants[c]
    BY <2>1, Stepped
  <2>3. PICK y \in AssistRecord : y = assistants'[a]  BY <2>2
  <2>4. y.pc = "found" /\ y.job = x.job /\ y.row = x.row /\ y.copy = x.copy /\ y.kept = x.kept
    BY <2>1, <2>3, Stepped
  <2>5. RecordOK(y) /\ ~Surveys(y) /\ ~Adding(y)  BY <1>0, <2>4 DEF RecordOK, Surveys, Adding
  <2>6. \A h \in Suggestions : Treated(x, y, h)  BY <1>0, <2>4 DEF Treated, Held, Settles, HasDrafted
  <2>7. assistMishaps' \subseteq {"scan", "accept", "profile"}  BY <1>1 DEF AssistTypes, ListTypes
  <2> QED  BY <1>1, <2>2, <2>3, <2>5, <2>6, <2>7, AssistStill
<1> QED  BY <1>3, <1>4

LEMMA StepFetchBoard ==
  ASSUME AssistTypes, AssistInv, NEW a \in Assistants, NEW from \in {"idle", "missing", "found"},
         FetchBoard(a, from)
  PROVE  (AssistTypes /\ AssistInv)'
<1> DEFINE x == assistants[a]
<1>0. /\ assistants \in [Assistants -> AssistRecord] /\ x \in AssistRecord /\ x.pc = from /\ RecordOK(x)
      /\ board \in Boards /\ \A h \in Suggestions : board[h] # "none" => h \in surfaced
  BY DEF AssistTypes, ListTypes, FetchBoard
<1>1. /\ assistants' \in [Assistants -> AssistRecord]
      /\ \A c \in Assistants : c # a => assistants'[c] = assistants[c]
      /\ assistants'[a].pc = "write" /\ assistants'[a].job = x.job /\ assistants'[a].row = x.row
      /\ assistants'[a].copy = board /\ assistants'[a].kept = x.kept
  BY <1>0 DEF FetchBoard, AssistRecord
<1>2. PICK y \in AssistRecord : y = assistants'[a]  BY <1>1
<1>3. y.pc = "write" /\ y.job = x.job /\ y.row = x.row /\ y.copy = board /\ y.kept = x.kept  BY <1>1, <1>2
<1>4. RecordOK(y)  BY <1>0, <1>3 DEF RecordOK
<1>5. UNCHANGED <<board, surfaced, fromSuggestion, assistFaults, assistMishaps>>  BY DEF FetchBoard
<1>6. x.pc = "idle" => x.job = "other"  BY <1>0 DEF RecordOK
<1>7. Surveys(y) => Surveys(x)  BY <1>0, <1>3, <1>6 DEF Surveys
<1>8. Adding(y) => Adding(x)
  <2>1. x.pc = "found" => x.job \in {"accept", "dismiss"}  BY <1>0 DEF RecordOK
  <2> QED  BY <1>0, <1>3, <1>6, <2>1 DEF Adding, Surveys
<1>9. \A g \in Suggestions : Treated(x, y, g)
  <2>1. \A g : Settles(y, g) <=> Settles(x, g)  BY <1>0, <1>3, <1>6 DEF Settles
  <2>2. \A g : HasDrafted(y, g) <=> HasDrafted(x, g)  BY <1>0, <1>3, <2>1 DEF HasDrafted
  <2> QED  BY <2>1, <2>2 DEF Treated, Held
<1>10. assistMishaps' \subseteq {"scan", "accept", "profile"}  BY <1>5 DEF AssistTypes, ListTypes
<1> QED  BY <1>1, <1>2, <1>4, <1>5, <1>7, <1>8, <1>9, <1>10, AssistStill

LEMMA StepDraftSuggestion ==
  ASSUME AssistTypes, AssistInv, NEW a \in Assistants, NEW g \in Suggestions, DraftSuggestion(a, g)
  PROVE  (AssistTypes /\ AssistInv)'
<1> DEFINE x == assistants[a]
<1>0. /\ x.pc = "draft" /\ x.row = {g} /\ RecordOK(x) /\ x.job = "accept" /\ g \in surfaced
      /\ AssistantTo(a, "mark")
  BY DEF DraftSuggestion, AssistTypes, RecordOK
<1>1. UNCHANGED <<board, surfaced, assistFaults, assistMishaps>>  BY DEF DraftSuggestion
<1>2. /\ fromSuggestion' \in [Suggestions -> Nat] /\ fromSuggestion'[g] = fromSuggestion[g] + 1
      /\ \A h \in Suggestions : h # g => fromSuggestion'[h] = fromSuggestion[h]
  BY DEF DraftSuggestion, AssistTypes, ListTypes
<1>3. ListTypes'  BY <1>0, <1>1, <1>2 DEF AssistTypes, ListTypes
<1>4. /\ assistants' \in [Assistants -> AssistRecord]
      /\ \A c \in Assistants : c # a => assistants'[c] = assistants[c]
  BY <1>0, Stepped
<1>5. PICK y \in AssistRecord : y = assistants'[a]  BY <1>4
<1>6. y.pc = "mark" /\ y.job = "accept" /\ y.row = {g} /\ y.copy = x.copy /\ y.kept = x.kept
  BY <1>0, <1>5, Stepped
<1>7. RecordOK(y)' /\ surfaced \subseteq surfaced'  BY <1>0, <1>1, <1>6 DEF RecordOK
<1>8. AssistTypes' /\ Turns(a, y)  BY <1>3, <1>4, <1>5, <1>7, Turned
<1>9. assistFaults \in Nat /\ assistFaults' \in Nat /\ assistFaults <= assistFaults'
  BY <1>1 DEF AssistTypes, ListTypes
<1>10. SurveyInv'
  <2>1. ~Surveys(y) /\ ~Adding(y)  BY <1>6 DEF Surveys, Adding
  <2>2. OpenOnes' \subseteq OpenOnes /\ assistMishaps \subseteq assistMishaps'  BY <1>1 DEF OpenOnes
  <2> QED  BY <1>8, <1>9, <2>1, <2>2, SurveysOn DEF AssistInv
<1>11. ASSUME NEW h \in Suggestions, OneSettles(h)  PROVE OneSettles(h)'
  <2>1. CASE h # g
    <3>1. ~Settles(x, h) /\ ~Settles(y, h)  BY <1>0, <1>6, <2>1 DEF Settles
    <3>2. board'[h] = board[h] /\ fromSuggestion'[h] = fromSuggestion[h]  BY <1>1, <1>2, <2>1
    <3> QED  BY <1>8, <1>9, <1>11, <3>1, <3>2, SettlesApart
  <2>2. CASE h = g
    <3>1. Settles(x, g) /\ ~HasDrafted(x, g) /\ HasDrafted(y, g)
      BY <1>0, <1>6 DEF Settles, HasDrafted
    <3>2. fromSuggestion[g] <= assistFaults /\ board[g] \in {"open", "none"}
      BY <1>11, <2>2, <3>1, Alone
    <3>3. fromSuggestion'[g] <= 1 + assistFaults'
      <4>1. fromSuggestion[g] \in Nat  BY DEF AssistTypes, ListTypes
      <4> QED  BY <1>1, <1>2, <1>9, <3>2, <4>1
    <3>4. board'[g] \in {"open", "none"}  BY <1>1, <3>2
    <3>5. \A c \in Assistants : c # a => ~Settles(assistants[c], g)  BY <1>11, <2>2, <3>1, Alone
    <3> HIDE DEF x
    <3> QED  BY <1>8, <2>2, <3>1, <3>3, <3>4, <3>5, SettlesHere
  <2> QED  BY <2>1, <2>2
<1>12. SettleInv'  BY <1>1, <1>11 DEF AssistInv, SettleInv
<1> QED  BY <1>8, <1>10, <1>12 DEF AssistInv

(* Whoever writes a list writes what it read, and its own change; if it has not
   seen the list as it is, that is noted. *)
LEMMA ListWritten ==
  ASSUME AssistTypes, AssistInv, NEW a \in Assistants, NEW y, RecordOK(y)',
         assistants' \in [Assistants -> AssistRecord],
         y = assistants'[a], \A c \in Assistants : c # a => assistants'[c] = assistants[c],
         UNCHANGED <<fromSuggestion, assistFaults>>,
         surfaced \subseteq surfaced', surfaced' \subseteq Suggestions,
         board' \in Boards, \A h \in Suggestions : board'[h] # "none" => h \in surfaced',
         assistMishaps \subseteq assistMishaps', assistMishaps' \subseteq {"scan", "accept", "profile"},
         ~Adding(y), Surveys(y) => Surveys(assistants[a]),
         \/ "profile" \in assistMishaps'
         \/ OpenOnes' \subseteq OpenOnes
         \/ Adding(assistants[a]) /\ \E g \in Suggestions : OpenOnes' \subseteq OpenOnes \cup {g},
         \/ "profile" \in assistMishaps'
         \/ Turns(a, y) => \A g \in Suggestions : OneSettles(g) => OneSettles(g)'
  PROVE  (AssistTypes /\ AssistInv)'
<1>1. assistFaults \in Nat /\ assistFaults' \in Nat /\ assistFaults <= assistFaults'
  BY DEF AssistTypes, ListTypes
<1>2. ListTypes'  BY <1>1 DEF AssistTypes, ListTypes
<1>3. AssistTypes' /\ Turns(a, y)  BY <1>2, Turned
<1>4. SurveyInv'  BY <1>1, <1>3, SurveysOn DEF AssistInv
<1>5. SettleInv'  BY <1>3 DEF AssistInv, SettleInv
<1> QED  BY <1>3, <1>4, <1>5 DEF AssistInv

(* A list that its writer has seen is the list there is.                   *)
LEMMA Seen ==
  ASSUME NEW list, Remarking("profile", Unseen(list))
  PROVE  /\ assistMishaps \subseteq assistMishaps' /\ assistMishaps' \subseteq assistMishaps \cup {"profile"}
         /\ "profile" \in assistMishaps' \/ \A g \in Suggestions : list[g] = board[g]
BY DEF Remarking, Unseen

LEMMA StepWriteOther ==
  ASSUME AssistTypes, AssistInv, NEW a \in Assistants, WriteOther(a)
  PROVE  (AssistTypes /\ AssistInv)'
<1> DEFINE x == assistants[a]  y == AtRest
<1>0. /\ x.pc = "write" /\ x.job = "other" /\ x \in AssistRecord /\ RecordOK(x)
      /\ board' = x.copy /\ UNCHANGED <<surfaced, fromSuggestion, assistFaults>>
      /\ Remarking("profile", Unseen(x.copy))
  BY DEF WriteOther, AssistantAt, AssistTypes
<1>1. /\ assistants' \in [Assistants -> AssistRecord] /\ y = assistants'[a]
      /\ \A c \in Assistants : c # a => assistants'[c] = assistants[c]
  BY RestType DEF AssistTypes, AssistantDone, WriteOther
<1>2. RecordOK(y)' /\ ~Surveys(y) /\ ~Adding(y) /\ \A g : ~Settles(y, g)  BY RestType
<1> HIDE DEF y
<1>3. /\ board' \in Boards /\ board \in Boards /\ surfaced \subseteq Suggestions
      /\ \A h \in Suggestions : board'[h] # "none" => h \in surfaced
  BY <1>0 DEF RecordOK, AssistRecord, AssistTypes, ListTypes
<1>4. /\ assistMishaps \subseteq assistMishaps' /\ assistMishaps' \subseteq {"scan", "accept", "profile"}
      /\ "profile" \in assistMishaps' \/ \A g \in Suggestions : board'[g] = board[g]
  BY <1>0, Seen DEF AssistTypes, ListTypes
<1>5. ASSUME "profile" \notin assistMishaps'
      PROVE  /\ OpenOnes' \subseteq OpenOnes
             /\ Turns(a, y) => \A g \in Suggestions : OneSettles(g) => OneSettles(g)'
  <2>1. OpenOnes' \subseteq OpenOnes  BY <1>4, <1>5 DEF OpenOnes
  <2>2. ASSUME Turns(a, y), NEW g \in Suggestions, OneSettles(g)  PROVE OneSettles(g)'
    <3>1. ~Settles(x, g) /\ board'[g] = board[g] /\ fromSuggestion'[g] = fromSuggestion[g]
      BY <1>0, <1>4, <1>5 DEF Settles
    <3>2. assistFaults' \in Nat /\ assistFaults <= assistFaults'  BY <1>0 DEF AssistTypes, ListTypes
    <3> QED  BY <1>2, <2>2, <3>1, <3>2, SettlesApart
  <2> QED  BY <2>1, <2>2
<1>6. surfaced \subseteq surfaced' /\ surfaced' \subseteq Suggestions  BY <1>0, <1>3
<1> QED  BY <1>0, <1>1, <1>2, <1>3, <1>4, <1>5, <1>6, ListWritten

LEMMA StepWriteSettled ==
  ASSUME AssistTypes, AssistInv, NEW a \in Assistants, NEW g \in Suggestions, WriteSettled(a, g)
  PROVE  (AssistTypes /\ AssistInv)'
<1> DEFINE x == assistants[a]  y == AtRest
           status == IF x.job = "accept" THEN "accepted" ELSE "dismissed"
<1>0. /\ x.pc = "write" /\ x.job \in {"accept", "dismiss"} /\ x \in AssistRecord /\ RecordOK(x)
      /\ x.row = {g} /\ g \in surfaced /\ x.copy \in Boards
      /\ UNCHANGED <<surfaced, fromSuggestion, assistFaults>>
      /\ Remarking("profile", Unseen(x.copy))
  BY DEF WriteSettled, AssistantAt, AssistTypes, RecordOK, AssistRecord
<1>a. board' = [x.copy EXCEPT ![g] = IF @ = "none" THEN @ ELSE status]  BY DEF WriteSettled
<1>b. status \in {"accepted", "dismissed"} /\ (x.job = "accept" => status = "accepted")  OBVIOUS
<1>1. /\ assistants' \in [Assistants -> AssistRecord] /\ y = assistants'[a]
      /\ \A c \in Assistants : c # a => assistants'[c] = assistants[c]
  BY RestType DEF AssistTypes, AssistantDone, WriteSettled
<1>2. RecordOK(y)' /\ ~Surveys(y) /\ ~Adding(y) /\ \A h : ~Settles(y, h)  BY RestType
<1> HIDE DEF y, status
<1>c. /\ board' \in Boards /\ \A h \in Suggestions : h # g => board'[h] = x.copy[h]
      /\ board'[g] = IF x.copy[g] = "none" THEN "none" ELSE status
  BY <1>0, <1>a, <1>b DEF Boards
<1>3. /\ board \in Boards /\ surfaced \subseteq Suggestions
      /\ \A h \in Suggestions : board'[h] # "none" => h \in surfaced
  BY <1>0, <1>c DEF RecordOK, AssistTypes, ListTypes
<1>4. /\ assistMishaps \subseteq assistMishaps' /\ assistMishaps' \subseteq {"scan", "accept", "profile"}
      /\ "profile" \in assistMishaps' \/ \A h \in Suggestions : x.copy[h] = board[h]
  BY <1>0, Seen DEF AssistTypes, ListTypes
<1>5. ASSUME "profile" \notin assistMishaps'
      PROVE  /\ OpenOnes' \subseteq OpenOnes
             /\ Turns(a, y) => \A h \in Suggestions : OneSettles(h) => OneSettles(h)'
  <2>0. /\ \A h \in Suggestions : h # g => board'[h] = board[h]
        /\ board'[g] \in {"none", "accepted", "dismissed"}
        /\ x.job = "accept" => board'[g] \in {"none", "accepted"}
    BY <1>4, <1>5, <1>b, <1>c
  <2>1. OpenOnes' \subseteq OpenOnes  BY <2>0 DEF OpenOnes
  <2>2. ASSUME Turns(a, y), NEW h \in Suggestions, OneSettles(h)  PROVE OneSettles(h)'
    <3>0. assistFaults' \in Nat /\ assistFaults <= assistFaults'  BY <1>0 DEF AssistTypes, ListTypes
    <3>1. CASE h # g
      <4>1. ~Settles(x, h) /\ board'[h] = board[h] /\ fromSuggestion'[h] = fromSuggestion[h]
        BY <1>0, <2>0, <3>1 DEF Settles
      <4> QED  BY <1>2, <2>2, <3>0, <4>1, SettlesApart
    <3>2. CASE h = g
      <4>1. Settles(x, g) /\ (x.job = "dismiss" => ~HasDrafted(x, g))
        BY <1>0 DEF Settles, HasDrafted
      <4>2. board'[g] \in {"none", "accepted"} \/ fromSuggestion'[g] <= assistFaults'
        BY <1>0, <2>0, <2>2, <3>2, <4>1, Alone
      <4>3. fromSuggestion'[g] <= 1 + assistFaults'  BY <1>0, <2>2, <3>2 DEF OneSettles
      <4>4. \A c \in Assistants : c # a => ~Settles(assistants[c], g)  BY <2>2, <3>2, <4>1, Alone
      <4> HIDE DEF x
      <4> QED  BY <1>2, <2>2, <3>2, <4>2, <4>3, <4>4, SettlesHere
    <3> QED  BY <3>1, <3>2
  <2> QED  BY <2>1, <2>2
<1>6. surfaced \subseteq surfaced' /\ surfaced' \subseteq Suggestions  BY <1>0, <1>3
<1> QED  BY <1>0, <1>1, <1>2, <1>3, <1>4, <1>5, <1>6, <1>c, ListWritten

LEMMA StepPatchCalendar ==
  ASSUME AssistTypes, AssistInv, NEW a \in Assistants, PatchCalendar(a)
  PROVE  (AssistTypes /\ AssistInv)'
<1> DEFINE x == assistants[a]  y == AtRest
           others == {g \in Unseen(x.kept) : g \notin x.row \/ board[g] # "open"}
<1>0. /\ x.job = "calendar" /\ x \in AssistRecord /\ RecordOK(x)
      /\ board' = x.kept /\ UNCHANGED <<surfaced, fromSuggestion, assistFaults>>
      /\ Remarking("profile", others)
  BY DEF PatchCalendar, AssistantAt, AssistTypes
<1>1. /\ assistants' \in [Assistants -> AssistRecord] /\ y = assistants'[a]
      /\ \A c \in Assistants : c # a => assistants'[c] = assistants[c]
  BY RestType DEF AssistTypes, AssistantDone, PatchCalendar
<1>2. RecordOK(y)' /\ ~Surveys(y) /\ ~Adding(y) /\ \A g : ~Settles(y, g)  BY RestType
<1> HIDE DEF y
<1>3. /\ board' \in Boards /\ board \in Boards /\ surfaced \subseteq Suggestions
      /\ \A h \in Suggestions : board'[h] # "none" => h \in surfaced
  BY <1>0 DEF RecordOK, AssistRecord, AssistTypes, ListTypes
<1>4. /\ assistMishaps \subseteq assistMishaps' /\ assistMishaps' \subseteq {"scan", "accept", "profile"}
      /\ "profile" \in assistMishaps' \/ others = {}
  BY <1>0 DEF Remarking, AssistTypes, ListTypes
<1>5. ASSUME "profile" \notin assistMishaps'
      PROVE  /\ OpenOnes' \subseteq OpenOnes
             /\ Turns(a, y) => \A g \in Suggestions : OneSettles(g) => OneSettles(g)'
  <2>0. ASSUME NEW g \in Suggestions
        PROVE  board'[g] = board[g] \/ (board[g] = "open" /\ board'[g] = "none")
    <3>1. x.kept[g] = board[g] \/ (g \in x.row /\ board[g] = "open")  BY <1>4, <1>5 DEF Unseen
    <3>2. g \in x.row => x.kept[g] = "none"  BY <1>0 DEF RecordOK
    <3> QED  BY <1>0, <3>1, <3>2
  <2>1. OpenOnes' \subseteq OpenOnes  BY <2>0 DEF OpenOnes
  <2>2. ASSUME Turns(a, y), NEW g \in Suggestions, OneSettles(g)  PROVE OneSettles(g)'
    <3>1. ~Settles(x, g) /\ fromSuggestion'[g] = fromSuggestion[g]
      BY <1>0 DEF Settles
    <3>2. assistFaults' \in Nat /\ assistFaults <= assistFaults'  BY <1>0 DEF AssistTypes, ListTypes
    <3> QED  BY <1>2, <2>0, <2>2, <3>1, <3>2, SettlesApart
  <2> QED  BY <2>1, <2>2
<1>6. surfaced \subseteq surfaced' /\ surfaced' \subseteq Suggestions  BY <1>0, <1>3
<1> QED  BY <1>0, <1>1, <1>2, <1>3, <1>4, <1>5, <1>6, ListWritten

LEMMA StepWriteSuggestion ==
  ASSUME AssistTypes, AssistInv, NEW a \in Assistants, NEW g \in Suggestions, WriteSuggestion(a, g)
  PROVE  (AssistTypes /\ AssistInv)'
<1> DEFINE x == assistants[a]
<1>0. /\ x.pc = "write" /\ x.job \in {"scan", "calendar"} /\ x \in AssistRecord /\ RecordOK(x)
      /\ g \notin surfaced /\ x.copy \in Boards /\ x.kept \in Boards
      /\ surfaced' = surfaced \cup {g} /\ UNCHANGED <<fromSuggestion, assistFaults>>
      /\ Remarking("profile", Unseen(x.copy))
  BY DEF WriteSuggestion, AssistantAt, AssistTypes, AssistRecord
<1>a. /\ board' \in Boards /\ \A h \in Suggestions : board'[h] = IF h = g THEN "open" ELSE x.copy[h]
  <2>1. board' = [x.copy EXCEPT ![g] = "open"]  BY DEF WriteSuggestion
  <2> QED  BY <1>0, <2>1 DEF Boards
<1>b. /\ assistants \in [Assistants -> AssistRecord] /\ board \in Boards /\ surfaced \subseteq Suggestions
      /\ \A h \in Suggestions : board[h] # "none" \/ fromSuggestion[h] # 0 => h \in surfaced
      /\ assistFaults \in Nat /\ assistMishaps \subseteq {"scan", "accept", "profile"}
      /\ fromSuggestion \in [Suggestions -> Nat]
  BY DEF AssistTypes, ListTypes
<1>1. /\ assistants' \in [Assistants -> AssistRecord]
      /\ \A c \in Assistants : c # a => assistants'[c] = assistants[c]
      /\ \/ assistants'[a] = AtRest
         \/ /\ x.job = "calendar" /\ assistants'[a].pc = "return" /\ assistants'[a].job = "calendar"
            /\ assistants'[a].row = {g} /\ assistants'[a].copy = Blank /\ assistants'[a].kept = x.kept
  <2>1. CASE x.job = "calendar"
    <3>1. assistants' = [assistants EXCEPT ![a] = [@ EXCEPT !.pc = "return", !.row = {g}, !.copy = Blank]]
      BY <2>1 DEF WriteSuggestion
    <3> QED  BY <1>b, <2>1, <3>1, BlankType DEF AssistRecord
  <2>2. CASE x.job # "calendar"
    <3>1. assistants' = [assistants EXCEPT ![a] = AtRest]  BY <2>2 DEF WriteSuggestion
    <3> QED  BY <1>b, <3>1, RestType
  <2> QED  BY <2>1, <2>2
<1>c. PICK y \in AssistRecord : y = assistants'[a]  BY <1>1
<1>2. /\ RecordOK(y)' /\ ~Adding(y) /\ \A h : ~Settles(y, h)
      /\ Surveys(y) => Surveys(x)
  <2>1. CASE y = AtRest  BY <2>1, RestType
  <2>2. CASE /\ x.job = "calendar" /\ y.pc = "return" /\ y.job = "calendar"
             /\ y.row = {g} /\ y.copy = Blank /\ y.kept = x.kept
    <3>1. \A h \in Suggestions : y.copy[h] = "none"  BY <2>2 DEF Blank
    <3>2. y.kept[g] = "none" /\ g \in surfaced' /\ surfaced \subseteq surfaced'  BY <1>0, <2>2 DEF RecordOK
    <3>3. RecordOK(y)'  BY <1>0, <2>2, <3>1, <3>2 DEF RecordOK
    <3>4. ~Adding(y) /\ Surveys(x) /\ \A h : ~Settles(y, h)  BY <1>0, <2>2 DEF Adding, Surveys, Settles
    <3> QED  BY <3>3, <3>4
  <2> QED  BY <1>1, <1>c, <2>1, <2>2
<1>3. \A h \in Suggestions : board'[h] # "none" => h \in surfaced'  BY <1>0, <1>a DEF RecordOK
<1>4. /\ assistMishaps \subseteq assistMishaps' /\ assistMishaps' \subseteq {"scan", "accept", "profile"}
      /\ "profile" \in assistMishaps' \/ \A h \in Suggestions : x.copy[h] = board[h]
  BY <1>0, <1>b, Seen
<1>5. ASSUME "profile" \notin assistMishaps'
      PROVE  /\ Adding(x) /\ OpenOnes' \subseteq OpenOnes \cup {g}
             /\ Turns(a, y) => \A h \in Suggestions : OneSettles(h) => OneSettles(h)'
  <2>0. \A h \in Suggestions : h # g => board'[h] = board[h]  BY <1>4, <1>5, <1>a
  <2>1. OpenOnes' \subseteq OpenOnes \cup {g}  BY <2>0 DEF OpenOnes
  <2>2. ASSUME Turns(a, y), NEW h \in Suggestions, OneSettles(h)  PROVE OneSettles(h)'
    <3>0. assistFaults' \in Nat /\ assistFaults <= assistFaults'  BY <1>0, <1>b
    <3>1. CASE h # g
      <4>1. ~Settles(x, h) /\ board'[h] = board[h] /\ fromSuggestion'[h] = fromSuggestion[h]
        BY <1>0, <2>0, <3>1 DEF Settles
      <4> QED  BY <1>2, <2>2, <3>0, <4>1, SettlesApart
    <3>2. CASE h = g
      <4>1. fromSuggestion[g] = 0  BY <1>0, <1>b
      <4>2. fromSuggestion'[g] <= 1 + assistFaults' /\ fromSuggestion'[g] <= assistFaults'
        BY <1>0, <1>b, <4>1
      <4>3. \A c \in Assistants : c # a => ~Settles(assistants[c], g)
        BY <1>0 DEF Settles, AssistTypes, RecordOK
      <4> HIDE DEF x
      <4> QED  BY <1>2, <2>2, <3>2, <4>2, <4>3, SettlesHere
    <3> QED  BY <3>1, <3>2
  <2>3. Adding(x)  BY <1>0 DEF Adding, Surveys
  <2> QED  BY <2>1, <2>2, <2>3
<1>6. surfaced \subseteq surfaced' /\ surfaced' \subseteq Suggestions  BY <1>0, <1>b
<1> HIDE DEF x
<1> QED  BY <1>0, <1>1, <1>2, <1>3, <1>4, <1>5, <1>6, <1>a, <1>c, ListWritten DEF x

-----------------------------------------------------------------------------
LEMMA AssistStep ==
  ASSUME AssistTypes, AssistInv, [AssistNext]_assistVars
  PROVE  (AssistTypes /\ AssistInv)'
<1>1. CASE AssistNext
  <2>1. PICK a \in Assistants :
       \/ BeginScan(a) \/ BeginCalendarPhase(a) \/ ListOpen(a) \/ ListUnread(a) \/ ScanRefused(a)
       \/ FetchBoard(a, "missing") \/ FetchBoard(a, "found") \/ PatchCalendar(a)
       \/ AcceptRefused(a) \/ BeginOther(a) \/ WriteOther(a) \/ KillAssistant(a)
       \/ \E g \in Suggestions :
            \/ WriteSuggestion(a, g) \/ AcceptSuggestion(a, g) \/ DraftSuggestion(a, g)
            \/ DismissSuggestion(a, g) \/ LookUp(a, g) \/ WriteSettled(a, g)
    BY <1>1 DEF AssistNext
  <2>2. CASE BeginOther(a)  BY <2>2, StepFetchBoard DEF BeginOther
  <2>3. CASE FetchBoard(a, "missing") \/ FetchBoard(a, "found")  BY <2>3, StepFetchBoard
  <2>4. CASE \E g \in Suggestions :
               \/ WriteSuggestion(a, g) \/ AcceptSuggestion(a, g) \/ DraftSuggestion(a, g)
               \/ DismissSuggestion(a, g) \/ LookUp(a, g) \/ WriteSettled(a, g)
    BY <2>4, StepWriteSuggestion, StepAcceptSuggestion, StepDraftSuggestion, StepDismissSuggestion,
       StepLookUp, StepWriteSettled
  <2> QED  BY <2>1, <2>2, <2>3, <2>4, StepBeginScan, StepBeginCalendarPhase, StepListOpen, StepListUnread,
              StepScanRefused, StepPatchCalendar, StepAcceptRefused, StepWriteOther, StepKillAssistant
<1>2. CASE UNCHANGED assistVars
  <2>1. AssistTypes'  BY <1>2 DEF assistVars, AssistTypes, ListTypes, RecordOK
  <2>2. SurveyInv'  BY <1>2 DEF assistVars, AssistInv, SurveyInv, OneSurvey, OpenOnes
  <2>3. SettleInv'  BY <1>2 DEF assistVars, AssistInv, SettleInv, OneSettles
  <2> QED  BY <2>1, <2>2, <2>3 DEF AssistInv
<1> QED  BY <1>1, <1>2

LEMMA AssistStart ==
  ASSUME AssistInit
  PROVE  AssistTypes /\ AssistInv
<1>1. \A a \in Assistants : assistants[a] = AtRest  BY DEF AssistInit
<1>2. \A h \in Suggestions : board[h] = "none" /\ fromSuggestion[h] = 0  BY DEF AssistInit, Blank
<1>3. AtRest \in AssistRecord /\ RecordOK(AtRest)  BY RestType
<1>4. AssistTypes
  <2>1. ListTypes  BY <1>2, BlankType DEF AssistInit, ListTypes
  <2>2. assistants \in [Assistants -> AssistRecord]  BY <1>3 DEF AssistInit
  <2> QED  BY <1>1, <1>3, <2>1, <2>2 DEF AssistTypes
<1>5. AtRest.pc = "idle"  BY DEF AtRest
<1>6. OneSurvey
  <2>1. OpenOnes = {}  BY <1>2 DEF OpenOnes
  <2>2. Cardinality(OpenOnes) = 0 /\ assistFaults = 0  BY <2>1, FS_EmptySet DEF AssistInit
  <2> QED  BY <1>1, <1>5, <2>2 DEF OneSurvey, Surveys, Adding
<1>7. \A g \in Suggestions : OneSettles(g)
  <2>1. assistFaults = 0  BY DEF AssistInit
  <2> QED  BY <1>1, <1>2, <1>5, <2>1 DEF OneSettles, Settles, HasDrafted
<1> QED  BY <1>4, <1>6, <1>7 DEF AssistInv, SurveyInv, SettleInv

LEMMA AssistHolds == AssistSpec => [](AssistTypes /\ AssistInv)
<1>1. AssistInit => AssistTypes /\ AssistInv  BY AssistStart
<1>2. AssistTypes /\ AssistInv /\ [AssistNext]_assistVars => (AssistTypes /\ AssistInv)'  BY AssistStep
<1> QED  BY <1>1, <1>2, PTL DEF AssistSpec

(* Whatever other writers of the profile do, as long as each has seen the last
   of the list it writes back and scans do not overlap, one suggestion of a key
   is open at most, and one more for each list that could not be read
   (surfaceCalendarAssistSuggestions and the scan of a delivery run). *)
THEOREM SuggestionsStayFew ==
  ASSUME IsFiniteSet(Suggestions)
  PROVE  AssistSpec => []OneOpenEach
<1>1. AssistTypes /\ AssistInv => OneOpenEach
  BY DEF AssistInv, SurveyInv, OneSurvey, OneOpenEach
<1> QED  BY <1>1, AssistHolds, PTL

(* A suggestion becomes one draft, and one more for each accept that ended
   between the draft and the profile, and a dismissed one none but those: as
   long as no profile is written over a change its writer had not seen, and no
   two requests settle one suggestion at a time
   (acceptCalendarAssistSuggestionAction, dismissCalendarAssistSuggestionAction). *)
THEOREM SuggestionsDraftOnce == AssistSpec => []AcceptedOnce
<1>1. ASSUME AssistTypes, AssistInv  PROVE AcceptedOnce
  <2>1. SUFFICES ASSUME assistMishaps \cap {"accept", "profile"} = {}, NEW g \in Suggestions
                 PROVE  /\ fromSuggestion[g] <= 1 + assistFaults
                        /\ board[g] = "dismissed" => fromSuggestion[g] <= assistFaults
    BY DEF AcceptedOnce
  <2>2. OneSettles(g)  BY <1>1, <2>1 DEF AssistInv, SettleInv
  <2> QED  BY <2>2 DEF OneSettles, HasDrafted
<1> QED  BY <1>1, AssistHolds, PTL
=============================================================================
