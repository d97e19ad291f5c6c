------------------------------ MODULE Drafting ------------------------------
(* What the assistant drafts for one company without being asked for a text:
   the automation engine (automation.ts: a campaign, then content per topic),
   and the drafts of accepted calendar suggestions, under the tenant's monthly
   AI budget.

   A generation takes seconds; the budget and the open drafts are read before
   it, and the usage and the draft are written after. *)
EXTENDS Integers, FiniteSets

CONSTANTS
  Drafters,     \* requests: scheduler ticks and people's clicks
  Topics,       \* topics the recommendation engine proposes
  Budget,       \* the cap, in generations
  DraftFaults   \* bound: requests killed, drafts dropped for their title,
                \* reads that failed

ASSUME DraftingAssumption == Budget \in Nat \ {0} /\ DraftFaults \in Nat

VARIABLES
  spent,         \* generations recorded in ai_runs this month
  called,        \* generations the model was asked for
  openDrafts,    \* automatic campaigns in status "draft"
  drafted,       \* content drafted per topic
  drafters,      \* the requests in flight
  draftFaults,   \* requests killed, drafts dropped, reads failed
  overlaps       \* history: "run" when two runs overlapped

draftingVars == <<spent, called, openDrafts, drafted, drafters, draftFaults, overlaps>>
draftRows == <<openDrafts, drafted>>

Free == [pc |-> "idle", job |-> "campaign", seen |-> {}, row |-> {}]
Working(job) == {d \in Drafters : drafters[d].pc # "idle" /\ drafters[d].job \in job}
RunJobs == {"campaign", "topic"}

DrafterAt(d, pc, job) == drafters[d].pc = pc /\ drafters[d].job \in job
DrafterTo(d, pc) == drafters' = [drafters EXCEPT ![d].pc = pc]
DrafterDone(d) == drafters' = [drafters EXCEPT ![d] = Free]

(* The campaign job is over, with a draft or without.                       *)
ToTopics(d) == drafters' = [drafters EXCEPT ![d].job = "topic", ![d].pc = "list"]

(* A query failed, and its answer is taken for an empty one.                *)
Unread == draftFaults < DraftFaults /\ draftFaults' = draftFaults + 1

DraftingInit ==
  /\ spent = 0 /\ called = 0 /\ openDrafts = 0 /\ draftFaults = 0 /\ overlaps = {}
  /\ drafted = [t \in Topics |-> 0]
  /\ drafters = [d \in Drafters |-> Free]

-----------------------------------------------------------------------------
(* Mutant: the cap itself is still granted.                                 *)
BudgetPassed == spent > Budget

(* aiBudgetExceeded, read from the usage recorded so far.                   *)
BudgetExceeded == spent >= Budget

(* Mutant: a draft of the run's own only counts.                            *)
OpenCampaignAny(d) ==
  /\ DrafterAt(d, "open", {"campaign"})
  /\ DrafterTo(d, "generate")
  /\ UNCHANGED <<spent, called, draftRows, draftFaults, overlaps>>

(* runAutomations, by the scheduler or by hand.                             *)
BeginRun(d) ==
  /\ drafters[d].pc = "idle"
  /\ drafters' = [drafters EXCEPT ![d].pc = "budget"]
  /\ overlaps' = IF Working(RunJobs) # {} THEN overlaps \cup {"run"} ELSE overlaps
  /\ UNCHANGED <<spent, called, draftRows, draftFaults>>

(* The budget is asked before the campaign, and before every topic.         *)
AskBudget(d) ==
  /\ DrafterAt(d, "budget", RunJobs)
  /\ IF BudgetExceeded
     THEN IF drafters[d].job = "campaign" THEN ToTopics(d) ELSE DrafterDone(d)
     ELSE DrafterTo(d, "open")
  /\ UNCHANGED <<spent, called, draftRows, draftFaults, overlaps>>

(* A company with a draft campaign waiting is passed over.                  *)
OpenCampaign(d) ==
  /\ DrafterAt(d, "open", {"campaign"})
  /\ IF openDrafts = 0 THEN DrafterTo(d, "generate") ELSE ToTopics(d)
  /\ UNCHANGED <<spent, called, draftRows, draftFaults, overlaps>>

(* (listCampaigns says nothing of a query that failed: it has no rows.)     *)
CampaignsUnread(d) ==
  /\ DrafterAt(d, "open", {"campaign"}) /\ Unread
  /\ DrafterTo(d, "generate")
  /\ UNCHANGED <<spent, called, draftRows, overlaps>>

(* The content job lists the titles there are, once; that list may fail the
   same way ... *)
ListTitles(d) ==
  /\ DrafterAt(d, "list", {"topic"})
  /\ drafters' = [drafters EXCEPT ![d].pc = "budget", ![d].seen = {t \in Topics : drafted[t] > 0}]
  /\ UNCHANGED <<spent, called, draftRows, draftFaults, overlaps>>

TitlesUnread(d) ==
  /\ DrafterAt(d, "list", {"topic"}) /\ Unread
  /\ DrafterTo(d, "budget")
  /\ UNCHANGED <<spent, called, draftRows, overlaps>>

(* ... and a topic is passed over that is among the titles of that list,
   or was taken up in this run. *)
NextTopic(d, t) ==
  /\ DrafterAt(d, "open", {"topic"}) /\ t \notin drafters[d].seen
  /\ drafters' = [drafters EXCEPT ![d].pc = "generate", ![d].seen = @ \cup {t}, ![d].row = {t}]
  /\ UNCHANGED <<spent, called, draftRows, draftFaults, overlaps>>

EndRun(d) ==
  /\ DrafterAt(d, "open", {"topic"}) /\ Topics \subseteq drafters[d].seen
  /\ DrafterDone(d)
  /\ UNCHANGED <<spent, called, draftRows, draftFaults, overlaps>>

(* The model answers, or throws: a company that failed is skipped, an accept
   ends. *)
Generate(d) ==
  /\ drafters[d].pc = "generate"
  /\ called' = called + 1
  /\ DrafterTo(d, IF drafters[d].job = "accept" THEN "record" ELSE "create")
  /\ UNCHANGED <<spent, draftRows, draftFaults, overlaps>>

GenerateFails(d) ==
  /\ drafters[d].pc = "generate"
  /\ IF drafters[d].job = "campaign" THEN ToTopics(d) ELSE DrafterDone(d)
  /\ UNCHANGED <<spent, called, draftRows, draftFaults, overlaps>>

(* The engine creates the draft, then logs the usage ...                    *)
CreateDraft(d) ==
  /\ DrafterAt(d, "create", RunJobs)
  /\ IF drafters[d].job = "campaign"
     THEN openDrafts' = openDrafts + 1 /\ UNCHANGED drafted
     ELSE drafted' = [t \in Topics |-> drafted[t] + (IF t \in drafters[d].row THEN 1 ELSE 0)]
          /\ UNCHANGED openDrafts
  /\ DrafterTo(d, "record")
  /\ UNCHANGED <<spent, called, draftFaults, overlaps>>

RecordUsage(d) ==
  /\ DrafterAt(d, "record", RunJobs)
  /\ spent' = spent + 1
  /\ IF drafters[d].job = "campaign" THEN ToTopics(d)
     ELSE drafters' = [drafters EXCEPT ![d].pc = "budget", ![d].row = {}]
  /\ UNCHANGED <<called, draftRows, draftFaults, overlaps>>

(* ... unless the model gave it a title there is already: the draft is dropped,
   and its usage not logged. *)
SameTitle(d) ==
  /\ DrafterAt(d, "create", {"topic"}) /\ draftFaults < DraftFaults
  /\ draftFaults' = draftFaults + 1
  /\ drafters' = [drafters EXCEPT ![d].pc = "budget", ![d].row = {}]
  /\ UNCHANGED <<spent, called, draftRows, overlaps>>

(* submitCampaignAction: a person takes the draft on.                       *)
SubmitDraft ==
  /\ openDrafts > 0
  /\ openDrafts' = openDrafts - 1
  /\ UNCHANGED <<spent, called, drafted, drafters, draftFaults, overlaps>>

-----------------------------------------------------------------------------
(* An accepted calendar suggestion is drafted under the same budget (what it
   does to the suggestion is CalendarAssist).  *)
BeginAccept(d) ==
  /\ drafters[d].pc = "idle"
  /\ drafters' = [drafters EXCEPT ![d].pc = "budget", ![d].job = "accept"]
  /\ UNCHANGED <<spent, called, draftRows, draftFaults, overlaps>>

AcceptBudget(d) ==
  /\ DrafterAt(d, "budget", {"accept"})
  /\ IF BudgetExceeded THEN DrafterDone(d) ELSE DrafterTo(d, "generate")
  /\ UNCHANGED <<spent, called, draftRows, draftFaults, overlaps>>

(* aiSpendThisMonth takes a query that failed for nothing spent: the check
   passes, whatever was. *)
SpendUnread(d) ==
  /\ drafters[d].pc = "budget" /\ Unread
  /\ DrafterTo(d, IF drafters[d].job = "accept" THEN "generate" ELSE "open")
  /\ UNCHANGED <<spent, called, draftRows, overlaps>>

AcceptRecord(d) ==
  /\ DrafterAt(d, "record", {"accept"})
  /\ spent' = spent + 1
  /\ DrafterDone(d)
  /\ UNCHANGED <<called, draftRows, draftFaults, overlaps>>

KillDrafter(d) ==
  /\ drafters[d].pc # "idle" /\ draftFaults < DraftFaults
  /\ draftFaults' = draftFaults + 1
  /\ DrafterDone(d)
  /\ UNCHANGED <<spent, called, draftRows, overlaps>>

DraftingNext ==
  \/ SubmitDraft
  \/ \E d \in Drafters :
       \/ BeginRun(d) \/ AskBudget(d) \/ OpenCampaign(d) \/ CampaignsUnread(d)
       \/ ListTitles(d) \/ TitlesUnread(d) \/ EndRun(d)
       \/ Generate(d) \/ GenerateFails(d) \/ CreateDraft(d) \/ SameTitle(d) \/ RecordUsage(d)
       \/ BeginAccept(d) \/ AcceptBudget(d) \/ SpendUnread(d) \/ AcceptRecord(d) \/ KillDrafter(d)
       \/ \E t \in Topics : NextTopic(d, t)

DraftingSpec == DraftingInit /\ [][DraftingNext]_draftingVars

-----------------------------------------------------------------------------
DraftingTypeOK ==
  /\ {spent, called, openDrafts, draftFaults} \subseteq Nat
  /\ drafted \in [Topics -> Nat] /\ overlaps \subseteq {"run"}
  /\ \A d \in Drafters :
       /\ drafters[d].pc \in {"idle", "budget", "list", "open", "generate", "create", "record"}
       /\ drafters[d].job \in RunJobs \cup {"accept"}
       /\ drafters[d].seen \subseteq Topics /\ drafters[d].row \subseteq Topics

(* The budget is asked before each generation and charged after it: the model
   is called beyond the cap only by the other requests already past the check,
   and once more for every request killed before its usage was recorded, every
   draft dropped and every check that could not read what was spent. *)
BudgetHolds == called <= Budget - 1 + Cardinality(Drafters) + draftFaults

(* Runs that do not overlap never pile up: a company has one automatic campaign
   waiting at most, and one draft per topic, and one more for every read that
   failed - whoever is killed, for the draft is there to be found before its
   usage is. *)
OneDraftEach ==
  "run" \notin overlaps => openDrafts <= 1 + draftFaults /\ \A t \in Topics : drafted[t] <= 1 + draftFaults
=============================================================================
