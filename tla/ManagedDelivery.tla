--------------------------- MODULE ManagedDelivery ---------------------------
(* What the scheduler does for one managed company besides publishing: the
   delivery run that drafts its first campaign (managed-service/
   delivery-runner.ts) and the scheduled report (client-reports.ts).

   Both write the company's profile, one column, from the company they read
   earlier, and so do the company form and the calendar assistant, whose
   suggestions are a list in it (CalendarAssist is about that list): whoever
   writes last wins.  Ticks may overlap, throw or be killed between two awaited
   calls. *)
EXTENDS Integers, FiniteSets

CONSTANTS
  Jobs,           \* requests that may be in flight together
  MaxSaves,       \* bound: times the company form is saved
  MaxCampaigns,   \* bound: campaigns are counted up to here
  MaxReports,     \* bound: reports are counted up to here
  DeliveryFaults  \* bound: requests killed, writes lost

ASSUME DeliveryAssumption == {MaxSaves, MaxCampaigns, MaxReports, DeliveryFaults} \subseteq Nat

VARIABLES
  run,            \* managed_delivery_runs: phase, and whether it has a campaign
  campaigns,      \* campaigns built for the run
  profile,        \* companies.profile: edits saved in it, and lastSentAt
  saves,          \* times the form was saved
  reports,        \* reports mailed in this period
  jobs,           \* the requests in flight, with the run and company they read
  deliveryFaults, \* requests killed, writes lost
  mishaps         \* history: "run", "profile", "report" when two requests were
                  \* at it at a time - "report", too, when one died between
                  \* mail and profile - and "lost" when a phase was not written

deliveryVars == <<run, campaigns, profile, saves, reports, jobs, deliveryFaults, mishaps>>

InProgress == {"queued", "validating", "analysing", "strategy", "calendar", "content"}
Rest == {"awaiting_approval", "failed", "blocked"}
NextPhase == [analysing |-> "strategy", strategy |-> "calendar", calendar |-> "content"]
FirstOf == [analysing |-> "advance", strategy |-> "build", calendar |-> "surface"]

Unedited == [edits |-> 0, sent |-> FALSE]
Resting == [pc |-> "idle", phase |-> "queued", company |-> Unedited, fresh |-> Unedited]
InPhase == {"surface", "surfacing", "build", "advance", "patch"}
OnRun == {j \in Jobs : jobs[j].pc \in {"enter", "validated"} \cup InPhase}
OnReport == {j \in Jobs : jobs[j].pc \in {"due", "mail", "mailed"}}
HoldingProfile == {j \in Jobs : jobs[j].pc \in InPhase \cup {"save", "mail", "mailed"}}

(* Some other request is at it: what follows may be of two minds.          *)
Noting(what, others) == mishaps' = IF others # {} THEN mishaps \cup {what} ELSE mishaps
Counted(n, max) == IF n < max THEN n + 1 ELSE n

JobAt(j, pc) == jobs[j].pc = pc
JobTo(j, pc) == jobs' = [jobs EXCEPT ![j].pc = pc]
JobOver(j) == jobs' = [jobs EXCEPT ![j] = Resting]

(* getCompany: the profile that the job will write back.                   *)
Fetch(j, pc) ==
  /\ jobs' = [jobs EXCEPT ![j].company = profile, ![j].pc = pc]
  /\ Noting("profile", HoldingProfile \ {j})

DeliveryInit ==
  /\ run = [phase |-> "queued", campaign |-> FALSE]
  /\ campaigns = 0 /\ profile = Unedited /\ saves = 0 /\ reports = 0
  /\ jobs = [j \in Jobs |-> Resting]
  /\ deliveryFaults = 0 /\ mishaps = {}

-----------------------------------------------------------------------------
(* Mutant: failed runs are picked up again.                                *)
BeginDeliveryFailed(j) ==
  /\ JobAt(j, "idle") /\ run.phase \in InProgress \cup {"failed"}
  /\ jobs' = [jobs EXCEPT ![j].pc = "enter",
                ![j].phase = IF run.phase = "failed" THEN "queued" ELSE run.phase]
  /\ Noting("run", OnRun)
  /\ UNCHANGED <<run, campaigns, profile, saves, reports, deliveryFaults>>

(* Mutant: a run left in validation is not taken for one in progress.      *)
BeginDeliveryQueued(j) ==
  /\ JobAt(j, "idle") /\ run.phase \in InProgress \ {"validating"}
  /\ jobs' = [jobs EXCEPT ![j].pc = "enter", ![j].phase = run.phase]
  /\ Noting("run", OnRun)
  /\ UNCHANGED <<run, campaigns, profile, saves, reports, deliveryFaults>>

(* processDueManagedDeliveries and processManagedDeliveryRun: the run is read
   once, and every phase from there on is worked through. *)
BeginDelivery(j) ==
  /\ JobAt(j, "idle") /\ run.phase \in InProgress
  /\ jobs' = [jobs EXCEPT ![j].pc = "enter", ![j].phase = run.phase]
  /\ Noting("run", OnRun)
  /\ UNCHANGED <<run, campaigns, profile, saves, reports, deliveryFaults>>

(* Validation: the phase is written, then the company decides whether it goes
   on, is blocked (archived, no business information) or fails (gone). *)
Validate(j) ==
  /\ JobAt(j, "enter") /\ jobs[j].phase \in {"queued", "validating"}
  /\ run' = [run EXCEPT !.phase = "validating"]
  /\ JobTo(j, "validated")
  /\ UNCHANGED <<campaigns, profile, saves, reports, deliveryFaults, mishaps>>

Validated(j, verdict) ==
  /\ JobAt(j, "validated") /\ verdict \in {"analysing", "blocked", "failed"}
  /\ run' = [run EXCEPT !.phase = verdict]
  /\ IF verdict = "analysing"
     THEN jobs' = [jobs EXCEPT ![j].phase = verdict, ![j].pc = "enter"] ELSE JobOver(j)
  /\ UNCHANGED <<campaigns, profile, saves, reports, deliveryFaults, mishaps>>

(* Mutant: the company of the phase before is used again.                  *)
EnterReusing(j) ==
  /\ JobAt(j, "enter") /\ jobs[j].phase \in {"analysing", "strategy", "calendar"}
  /\ IF jobs[j].phase = "analysing" THEN Fetch(j, FirstOf[jobs[j].phase])
     ELSE JobTo(j, FirstOf[jobs[j].phase]) /\ UNCHANGED mishaps
  /\ UNCHANGED <<run, campaigns, profile, saves, reports, deliveryFaults>>

(* Analysis, strategy and calendar: the company is read ...                *)
Enter(j) ==
  /\ JobAt(j, "enter") /\ jobs[j].phase \in {"analysing", "strategy", "calendar"}
  /\ Fetch(j, FirstOf[jobs[j].phase])
  /\ UNCHANGED <<run, campaigns, profile, saves, reports, deliveryFaults>>

(* ... the strategy builds a campaign, which takes the model a while ...   *)
Build(j) ==
  /\ JobAt(j, "build")
  /\ campaigns' = Counted(campaigns, MaxCampaigns)
  /\ JobTo(j, "advance")
  /\ UNCHANGED <<run, profile, saves, reports, deliveryFaults, mishaps>>

(* ... the calendar has a suggestion surfaced: the company is read again, and
   written back, with no look at the one the phase has read ...             *)
SurfaceRead(j) ==
  /\ JobAt(j, "surface")
  /\ jobs' = [jobs EXCEPT ![j].fresh = profile, ![j].pc = "surfacing"]
  /\ Noting("profile", HoldingProfile \ {j})
  /\ UNCHANGED <<run, campaigns, profile, saves, reports, deliveryFaults>>

SurfaceWrite(j) ==
  /\ JobAt(j, "surfacing")
  /\ profile' = jobs[j].fresh
  /\ jobs' = [jobs EXCEPT ![j].fresh = Unedited, ![j].pc = "advance"]
  /\ UNCHANGED <<run, campaigns, saves, reports, deliveryFaults, mishaps>>

(* ... or none: nothing is missing, or a call throws, which is caught ...   *)
SkipSurfacing(j) ==
  /\ jobs[j].pc \in {"surface", "surfacing"}
  /\ jobs' = [jobs EXCEPT ![j].fresh = Unedited, ![j].pc = "advance"]
  /\ UNCHANGED <<run, campaigns, profile, saves, reports, deliveryFaults, mishaps>>

(* ... the next phase is written, with the campaign if there is one ...    *)
Advance(j) ==
  LET phase == jobs[j].phase IN
  /\ JobAt(j, "advance")
  /\ run' = [phase |-> NextPhase[phase], campaign |-> run.campaign \/ phase = "strategy"]
  /\ jobs' = [jobs EXCEPT ![j].phase = NextPhase[phase], ![j].pc = "patch"]
  /\ UNCHANGED <<campaigns, profile, saves, reports, deliveryFaults, mishaps>>

(* (the adapter says nothing of an update that failed: the runner goes on with
   its own copy of the run) ... *)
AdvanceLost(j) ==
  LET phase == jobs[j].phase IN
  /\ JobAt(j, "advance") /\ deliveryFaults < DeliveryFaults
  /\ deliveryFaults' = deliveryFaults + 1
  /\ jobs' = [jobs EXCEPT ![j].phase = NextPhase[phase], ![j].pc = "patch"]
  /\ mishaps' = mishaps \cup {"lost"}
  /\ UNCHANGED <<run, campaigns, profile, saves, reports>>

(* ... and the milestone is written into the profile (patchCompanyManaged). *)
PatchCompany(j) ==
  /\ JobAt(j, "patch")
  /\ profile' = jobs[j].company
  /\ jobs' = [jobs EXCEPT ![j].pc = "enter", ![j].company = Unedited]
  /\ UNCHANGED <<run, campaigns, saves, reports, deliveryFaults, mishaps>>

(* The drafts await approval, unless one of them is on the calendar already. *)
FinishDelivery(j, verdict) ==
  /\ JobAt(j, "enter") /\ jobs[j].phase = "content" /\ verdict \in {"awaiting_approval", "failed"}
  /\ run' = [run EXCEPT !.phase = verdict]
  /\ JobOver(j)
  /\ UNCHANGED <<campaigns, profile, saves, reports, deliveryFaults, mishaps>>

(* The catch: whatever threw, the run is written failed.                   *)
DeliveryThrows(j) ==
  /\ j \in OnRun
  /\ run' = [run EXCEPT !.phase = "failed"]
  /\ JobOver(j)
  /\ UNCHANGED <<campaigns, profile, saves, reports, deliveryFaults, mishaps>>

-----------------------------------------------------------------------------
(* runScheduledClientReports: the companies are listed, and whether a report is
   due is read from that list ... *)
BeginReport(j) ==
  /\ JobAt(j, "idle") /\ ~profile.sent
  /\ JobTo(j, "due")
  /\ Noting("report", OnReport)
  /\ UNCHANGED <<run, campaigns, profile, saves, reports, deliveryFaults>>

(* ... the company is read again (sendClientReportEmail), the report mailed,
   and the time of it written into the profile. *)
PrepareReport(j) ==
  /\ JobAt(j, "due")
  /\ Fetch(j, "mail")
  /\ UNCHANGED <<run, campaigns, profile, saves, reports, deliveryFaults>>

SendReport(j) ==
  /\ JobAt(j, "mail")
  /\ reports' = Counted(reports, MaxReports)
  /\ JobTo(j, "mailed")
  /\ UNCHANGED <<run, campaigns, profile, saves, deliveryFaults, mishaps>>

MarkReported(j) ==
  /\ JobAt(j, "mailed")
  /\ profile' = [jobs[j].company EXCEPT !.sent = TRUE]
  /\ JobOver(j)
  /\ UNCHANGED <<run, campaigns, saves, reports, deliveryFaults, mishaps>>

(* The company form, and the other pages with one (onboarding, enrichment, sales):
   the profile is read, spread and written.  The calendar assistant does the same
   to surface, accept or dismiss a suggestion, and so does a run being queued to
   its settings, for other parts of the profile. *)
BeginSave(j) ==
  /\ JobAt(j, "idle")
  /\ Fetch(j, "save")
  /\ UNCHANGED <<run, campaigns, profile, saves, reports, deliveryFaults>>

SaveCompany(j) ==
  /\ JobAt(j, "save") /\ saves < MaxSaves
  /\ saves' = saves + 1
  /\ profile' = [jobs[j].company EXCEPT !.edits = @ + 1]
  /\ JobOver(j)
  /\ UNCHANGED <<run, campaigns, reports, deliveryFaults, mishaps>>

SaveSuggestion(j) ==
  /\ JobAt(j, "save")
  /\ profile' = jobs[j].company
  /\ JobOver(j)
  /\ UNCHANGED <<run, campaigns, saves, reports, deliveryFaults, mishaps>>

(* The host kills a request, or its last write fails unseen.               *)
KillJob(j) ==
  /\ ~JobAt(j, "idle") /\ deliveryFaults < DeliveryFaults
  /\ deliveryFaults' = deliveryFaults + 1
  /\ Noting("report", {i \in {j} : JobAt(i, "mailed")})
  /\ JobOver(j)
  /\ UNCHANGED <<run, campaigns, profile, saves, reports>>

JobStep(j) ==
  \/ Validate(j) \/ Enter(j) \/ Build(j) \/ SurfaceRead(j) \/ SurfaceWrite(j) \/ SkipSurfacing(j)
  \/ Advance(j) \/ PatchCompany(j) \/ DeliveryThrows(j)
  \/ \E verdict \in {"analysing", "blocked", "failed"} : Validated(j, verdict)
  \/ \E verdict \in {"awaiting_approval", "failed"} : FinishDelivery(j, verdict)
  \/ PrepareReport(j) \/ SendReport(j) \/ MarkReported(j) \/ SaveCompany(j) \/ SaveSuggestion(j)

DeliveryNext ==
  \E j \in Jobs :
    JobStep(j) \/ KillJob(j) \/ AdvanceLost(j) \/ BeginDelivery(j) \/ BeginReport(j) \/ BeginSave(j)

(* A request runs on.  Ticks keep coming, and do not wait for a place among Jobs
   as they do here: one starts, however often clicks have taken all places. *)
DeliveryFairness ==
  /\ \A j \in Jobs : WF_deliveryVars(JobStep(j))
  /\ SF_deliveryVars(\E j \in Jobs : BeginDelivery(j))

DeliverySpec == DeliveryInit /\ [][DeliveryNext]_deliveryVars

-----------------------------------------------------------------------------
DeliveryTypeOK ==
  /\ run \in [phase : InProgress \cup Rest, campaign : BOOLEAN]
  /\ {campaigns, saves, reports, deliveryFaults, profile.edits} \subseteq Nat
  /\ profile.sent \in BOOLEAN /\ mishaps \subseteq {"run", "profile", "report", "lost"}
  /\ \A j \in Jobs :
       /\ jobs[j].pc \in {"idle", "enter", "validated", "save", "due", "mail", "mailed"} \cup InPhase
       /\ jobs[j].phase \in InProgress

(* A run builds one campaign, and one more for every request killed while it
   was at it; only overlapping ticks build others.  Whatever overlaps, a run
   past its strategy has its campaign (advancePhase records both at once),
   unless that write was lost. *)
OneCampaignPerRun ==
  /\ "run" \notin mishaps => campaigns <= 1 + deliveryFaults
  /\ "lost" \notin mishaps /\ run.phase \in {"calendar", "content", "awaiting_approval"} => run.campaign

(* The profile keeps what the company form saved, and that a report was sent:
   each phase reads the company anew.  An edit is lost only to a request that
   read the profile before and wrote it after; a period has a second report only
   then, or if two ticks found it due, or one died between mail and profile. *)
ProfileKept ==
  /\ "profile" \in mishaps \/ profile.edits = saves
  /\ reports <= 1 \/ mishaps \cap {"report", "profile"} # {}

(* A queued run comes to rest (awaiting approval, blocked or failed), through
   kills and lost writes in any phase: the next tick takes it up where it was left. *)
DeliveryRests == run.phase = "queued" ~> run.phase \in Rest
=============================================================================
