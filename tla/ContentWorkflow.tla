-------------------------- MODULE ContentWorkflow --------------------------
(***************************************************************************)
(* The approval workflow of one content item, from draft to delivery:      *)
(* the editors' and clients' actions on it (src/app/(app)/content,         *)
(* src/lib/client-approval.ts), its scheduling and cancelling              *)
(* (src/lib/scheduling.ts, calendar and campaigns actions) and the part    *)
(* of a publish attempt that reads and advances it (src/lib/publishing.ts).*)
(* The item belongs to no request or variant group, and either to the      *)
(* single item of a campaign (Linked) or to no campaign.                   *)
(*                                                                         *)
(* The hosted database is modelled: every read is a snapshot and every     *)
(* write a separate awaited UPDATE of the named columns, whatever the row  *)
(* holds by then.  A patch key that is undefined is left out of the UPDATE *)
(* (src/lib/db/mapper.ts), so "clientReview: undefined" clears nothing.    *)
(***************************************************************************)
EXTENDS Naturals, FiniteSets

CONSTANTS
  Posts,       \* scheduled_posts rows the item may ever get (bound)
  Editors,     \* requests of users, approvers and clients
  Publishers,  \* requests that run publish attempts
  Bodies,      \* texts the item may have
  FirstBody,   \* the text it is drafted with
  NoPost,
  Linked,      \* the item belongs to a campaign
  Crashes      \* requests may stop at any await

Workers == Editors \cup Publishers

ASSUME WorkersAssumption == Editors \cap Publishers = {}
ASSUME BodiesAssumption == FirstBody \in Bodies
ASSUME NoPostAssumption == NoPost \notin Posts
ASSUME SwitchesAssumption == Linked \in BOOLEAN /\ Crashes \in BOOLEAN

VARIABLES
  status,    \* content_items.status
  body,      \* content_items.body
  review,    \* content_items.client_review.status, or "none"
  item,      \* campaign_items.status
  campaign,  \* campaigns.status
  post,      \* scheduled_posts.status, "none" before the insert
  wk,        \* the local state of each worker
  cleared,   \* bodies an approval governed and approved (history)
  sent,      \* bodies the platform received for each row (history)
  born,      \* the body each row was created for (history)
  shared,    \* the body the client was last invited to review (history)
  raced      \* a status read with one body was written onto another (history)

contentVars == <<status, body, review>>
linkedVars  == <<item, campaign>>
history     == <<cleared, sent, born, shared, raced>>
vars == <<contentVars, linkedVars, post, history, wk>>

Drafts == {"ai_draft", "user_edited", "changes_required"}
Publishable == {"scheduled", "published"}
Status == Drafts \cup Publishable \cup {"pending_approval", "approved", "rejected"}
Resting == {"scheduled", "failed", "dead"}
Row == Resting \cup {"none", "publishing", "published", "cancelled"}
Item == {"drafted", "approved", "scheduled", "published"}
Done == {"approved", "scheduled", "published"}

PC == {"idle", "sweepList", "sweep", "edit", "backItem", "backItemWrite", "backCampaign",
       "reopen", "submit", "share", "govern", "approve", "reject", "approveItem", "complete",
       "completeItems", "completeWrite", "schedule", "critique", "createRow", "scheduleWrite",
       "scheduleItem", "cancelRead", "cancelActive", "unschedule", "itemRead", "itemWrite",
       "campaignItems", "campaignContent", "campaignWrite", "claim", "content", "cancelSelf",
       "checks", "skip", "send", "settleFail", "exhaust", "settle", "fresh", "advance", "itemPublished"}
Attempt == {"content", "cancelSelf", "checks", "skip", "send", "settleFail", "settle"}
Op == {"edit", "staff", "client", "campaign"}

(* A worker's locals: the operation, and what it read: whether the item was
   scheduled (for an edit: approved or scheduled), its body, the campaign item,
   the rows to cancel, and the row it works on with where that was claimed. *)
Worker == [pc: PC, op: Op, was: BOOLEAN, bd: Bodies, it: Item, todo: SUBSET Posts,
           post: Posts \cup {NoPost}, prior: {"scheduled", "failed"}]

IdleWorker == [pc |-> "idle", op |-> "staff", was |-> FALSE, bd |-> FirstBody,
               it |-> "drafted", todo |-> {}, post |-> NoPost, prior |-> "scheduled"]

At(w, label) == wk[w].pc = label
Goto(w, label) == wk' = [wk EXCEPT ![w].pc = label]
Finish(w) == wk' = [wk EXCEPT ![w] = IdleWorker]
Idle(w) == w \in Editors /\ At(w, "idle")

(* Goes on without what it read of the item.                               *)
Forget(w, label) ==
  wk' = [wk EXCEPT ![w] = [@ EXCEPT !.pc = label, !.was = FALSE, !.bd = FirstBody]]

(* getContent: a snapshot of the item; other operations keep only its body. *)
Fetched(k) == [k EXCEPT !.was = status = "scheduled", !.bd = body]

(* transitionScheduledPost: one conditional UPDATE.                        *)
Transition(p, source, target) ==
  IF post[p] \in source THEN post' = [post EXCEPT ![p] = target] ELSE UNCHANGED post

(* A promotion writes a status without looking at the item again.          *)
Promote(w, target) ==
  /\ status' = target
  /\ raced' = (raced \/ body # wk[w].bd)

Init ==
  /\ status = "ai_draft" /\ body = FirstBody /\ review = "none"
  /\ item = "drafted" /\ campaign = "approved"
  /\ post = [p \in Posts |-> "none"]
  /\ wk = [w \in Workers |-> IdleWorker]
  /\ cleared = {} /\ sent = [p \in Posts |-> {}]
  /\ born = [p \in Posts |-> FirstBody] /\ shared = FirstBody /\ raced = FALSE

---------------------------------------------------------------------------
(* saveContentAction: everything but terminal content may be edited; the rows
   of scheduled content are swept first. *)
Save(w, b) ==
  /\ Idle(w) /\ status \notin {"rejected", "published"}
  /\ wk' = [wk EXCEPT ![w] = [@ EXCEPT !.op = "edit", !.bd = b,
              !.was = status \in {"approved", "scheduled"},
              !.pc = IF status = "scheduled" THEN "sweepList" ELSE "edit"]]
  /\ UNCHANGED <<contentVars, linkedVars, post, history>>

(* An edit sweeps every row that could be retried or requeued, a cancelled
   campaign only the queued and in-flight ones. *)
SweepList(w) ==
  /\ At(w, "sweepList")
  /\ wk' = [wk EXCEPT ![w].pc = "sweep", ![w].todo =
       {p \in Posts : post[p] \in IF wk[w].op = "edit" THEN Resting
                                  ELSE {"scheduled", "publishing"}}]
  /\ UNCHANGED <<contentVars, linkedVars, post, history>>

(* Mutant: rows in flight are overwritten too.                             *)
SweepRowInFlight(w, p) ==
  /\ At(w, "sweep") /\ p \in wk[w].todo
  /\ Transition(p, Resting \cup {"publishing"}, "cancelled")
  /\ wk' = [wk EXCEPT ![w].todo = @ \ {p}]
  /\ UNCHANGED <<contentVars, linkedVars, history>>

SweepRow(w, p) ==
  /\ At(w, "sweep") /\ p \in wk[w].todo
  /\ Transition(p, Resting, "cancelled")
  /\ wk' = [wk EXCEPT ![w].todo = @ \ {p}]
  /\ UNCHANGED <<contentVars, linkedVars, history>>

SweepDone(w) ==
  /\ At(w, "sweep") /\ wk[w].todo = {}
  /\ Goto(w, CASE wk[w].op = "edit" -> "edit"
               [] wk[w].op = "campaign" /\ wk[w].was -> "unschedule"
               [] OTHER -> "itemWrite")
  /\ UNCHANGED <<contentVars, linkedVars, post, history>>

(* The edit itself: approved content goes back to review.  The patch that
   should clear the client review is undefined and so has no effect. *)
Edit(w) ==
  /\ At(w, "edit")
  /\ body' = wk[w].bd
  /\ IF wk[w].was
     THEN /\ status' = "pending_approval"
          /\ IF Linked THEN Forget(w, "backItem") ELSE Finish(w)
     ELSE status' = "user_edited" /\ Finish(w)
  /\ UNCHANGED <<review, linkedVars, post, history>>

(* revertCampaignItemAfterDemotion.                                        *)
BackItem(w) ==
  /\ At(w, "backItem")
  /\ Goto(w, IF item \in {"approved", "scheduled"} THEN "backItemWrite" ELSE "backCampaign")
  /\ UNCHANGED <<contentVars, linkedVars, post, history>>

BackItemWrite(w) ==
  /\ At(w, "backItemWrite")
  /\ item' = "drafted"
  /\ Goto(w, "backCampaign")
  /\ UNCHANGED <<contentVars, campaign, post, history>>

(* Mutant: a completed campaign is not looked at.                          *)
BackCampaignKept(w) ==
  /\ At(w, "backCampaign")
  /\ Finish(w)
  /\ UNCHANGED <<contentVars, linkedVars, post, history>>

BackCampaign(w) ==
  /\ At(w, "backCampaign")
  /\ IF campaign = "completed" THEN Goto(w, "reopen") ELSE Finish(w)
  /\ UNCHANGED <<contentVars, linkedVars, post, history>>

Reopen(w) ==
  /\ At(w, "reopen")
  /\ campaign' = "approved"
  /\ Finish(w)
  /\ UNCHANGED <<contentVars, item, post, history>>

---------------------------------------------------------------------------
(* submitForApprovalAction and shareForClientApprovalAction.               *)
Submit(w) ==
  /\ Idle(w) /\ status \in Drafts
  /\ Goto(w, "submit")
  /\ UNCHANGED <<contentVars, linkedVars, post, history>>

SubmitWrite(w) ==
  /\ At(w, "submit")
  /\ status' = "pending_approval"
  /\ Finish(w)
  /\ UNCHANGED <<body, review, linkedVars, post, history>>

Share(w) ==
  /\ Idle(w) /\ status = "pending_approval"
  /\ Goto(w, "share")
  /\ UNCHANGED <<contentVars, linkedVars, post, history>>

ShareWrite(w) ==
  /\ At(w, "share")
  /\ review' = "pending" /\ shared' = body
  /\ Finish(w)
  /\ UNCHANGED <<status, body, linkedVars, post, cleared, sent, born, raced>>

(* approveContentAction and completeClientApproval: read, govern, write.   *)
Decide(w, op) ==
  /\ Idle(w) /\ status = "pending_approval"
  /\ op = "client" => review = "pending"
  /\ wk' = [wk EXCEPT ![w] = [@ EXCEPT !.pc = "govern", !.op = op, !.bd = body]]
  /\ UNCHANGED <<contentVars, linkedVars, post, history>>

(* Governance lets the body that was read pass, or refuses it.             *)
Govern(w) ==
  /\ At(w, "govern")
  /\ Goto(w, "approve") \/ Finish(w)
  /\ UNCHANGED <<contentVars, linkedVars, post, history>>

(* After a client's approval the item is scheduled at once, unless the
   company has that switched off. *)
Decided(w) == IF wk[w].op = "client" THEN Forget(w, "schedule") \/ Finish(w) ELSE Finish(w)

ApproveWrite(w) ==
  /\ At(w, "approve")
  /\ Promote(w, "approved")
  /\ cleared' = cleared \cup {wk[w].bd}
  /\ review' = IF wk[w].op = "client" THEN "approved" ELSE review
  /\ IF Linked THEN Forget(w, "approveItem") ELSE Decided(w)
  /\ UNCHANGED <<body, linkedVars, post, sent, born, shared>>

ApproveItem(w) ==
  /\ At(w, "approveItem")
  /\ item' = "approved"
  /\ Goto(w, "complete")
  /\ UNCHANGED <<contentVars, campaign, post, history>>

(* maybeCompleteCampaign.                                                  *)
Complete(w) ==
  /\ At(w, "complete")
  /\ IF campaign = "approved" THEN Goto(w, "completeItems") ELSE Decided(w)
  /\ UNCHANGED <<contentVars, linkedVars, post, history>>

CompleteItems(w) ==
  /\ At(w, "completeItems")
  /\ IF item \in Done THEN Goto(w, "completeWrite") ELSE Decided(w)
  /\ UNCHANGED <<contentVars, linkedVars, post, history>>

CompleteWrite(w) ==
  /\ At(w, "completeWrite")
  /\ campaign' = "completed"
  /\ Decided(w)
  /\ UNCHANGED <<contentVars, item, post, history>>

(* rejectContentAction and the client's request for changes.               *)
Reject(w, op) ==
  /\ Idle(w) /\ status = "pending_approval"
  /\ op = "client" => review = "pending"
  /\ wk' = [wk EXCEPT ![w] = [@ EXCEPT !.pc = "reject", !.op = op]]
  /\ UNCHANGED <<contentVars, linkedVars, post, history>>

(* Mutant: the review's status is written to the item.                     *)
RejectWriteReview(w) ==
  /\ At(w, "reject")
  /\ status' = "changes_requested" /\ review' = "changes_requested"
  /\ Finish(w)
  /\ UNCHANGED <<body, linkedVars, post, history>>

RejectWrite(w) ==
  /\ At(w, "reject")
  /\ \/ status' = "changes_required"
     \/ wk[w].op = "staff" /\ status' = "rejected"
  /\ review' = IF wk[w].op = "client" THEN "changes_requested" ELSE review
  /\ Finish(w)
  /\ UNCHANGED <<body, linkedVars, post, history>>

---------------------------------------------------------------------------
(* scheduleOne, by a user or after a client's approval: only approved content,
   then the critique and the asset checks, then the row, the item and the
   campaign item. *)
ScheduleRead(w) ==
  /\ Idle(w) \/ At(w, "schedule")
  /\ IF status \in {"approved", "scheduled"}
     THEN wk' = [wk EXCEPT ![w] = [@ EXCEPT !.pc = "critique", !.bd = body]]
     ELSE Finish(w)
  /\ UNCHANGED <<contentVars, linkedVars, post, history>>

Critique(w) ==
  /\ At(w, "critique")
  /\ Goto(w, "createRow") \/ Finish(w)
  /\ UNCHANGED <<contentVars, linkedVars, post, history>>

CreateRow(w, p) ==
  /\ At(w, "createRow") /\ post[p] = "none"
  /\ post' = [post EXCEPT ![p] = "scheduled"]
  /\ born' = [born EXCEPT ![p] = body]
  /\ wk' = [wk EXCEPT ![w].pc = "scheduleWrite", ![w].post = p]
  /\ UNCHANGED <<contentVars, linkedVars, cleared, sent, shared, raced>>

(* The insert throws (and here always does when the bound is used up).     *)
CreateThrows(w) ==
  /\ At(w, "createRow")
  /\ Finish(w)
  /\ UNCHANGED <<contentVars, linkedVars, post, history>>

(* An auto-published row that is due goes straight to an attempt.          *)
Scheduled(w) == Finish(w) \/ (wk[w].op = "client" /\ Forget(w, "claim"))

ScheduleWrite(w) ==
  /\ At(w, "scheduleWrite")
  /\ Promote(w, "scheduled")
  /\ IF Linked THEN Forget(w, "scheduleItem") ELSE Scheduled(w)
  /\ UNCHANGED <<body, review, linkedVars, post, cleared, sent, born, shared>>

ScheduleItem(w) ==
  /\ At(w, "scheduleItem")
  /\ item' = "scheduled"
  /\ Scheduled(w)
  /\ UNCHANGED <<contentVars, campaign, post, history>>

---------------------------------------------------------------------------
(* cancelScheduleAction: without other active rows the item returns to
   approved, and its campaign item with it. *)
CancelRow(w, p) ==
  /\ Idle(w) /\ post[p] \in Resting
  /\ Transition(p, Resting, "cancelled")
  /\ wk' = [wk EXCEPT ![w].pc = "cancelRead"]
  /\ UNCHANGED <<contentVars, linkedVars, history>>

ItemNext(w) == IF Linked THEN Forget(w, "itemRead") ELSE Finish(w)

CancelRead(w) ==
  /\ At(w, "cancelRead")
  /\ wk' = [wk EXCEPT ![w] = [Fetched(@) EXCEPT !.pc = "cancelActive"]]
  /\ UNCHANGED <<contentVars, linkedVars, post, history>>

CancelActive(w) ==
  /\ At(w, "cancelActive")
  /\ IF \E p \in Posts : post[p] \in {"scheduled", "publishing"} THEN Finish(w)
     ELSE IF wk[w].was THEN Goto(w, "unschedule") ELSE ItemNext(w)
  /\ UNCHANGED <<contentVars, linkedVars, post, history>>

Unschedule(w) ==
  /\ At(w, "unschedule")
  /\ Promote(w, "approved")
  /\ IF wk[w].op = "campaign" THEN Forget(w, "itemWrite") ELSE ItemNext(w)
  /\ UNCHANGED <<body, review, linkedVars, post, cleared, sent, born, shared>>

ItemRead(w) ==
  /\ At(w, "itemRead")
  /\ wk' = [wk EXCEPT ![w].pc = "itemWrite", ![w].it = item]
  /\ UNCHANGED <<contentVars, linkedVars, post, history>>

ItemWrite(w) ==
  /\ At(w, "itemWrite")
  /\ item' = IF wk[w].it = "scheduled" THEN "approved" ELSE item
  /\ IF wk[w].op = "campaign" THEN Goto(w, "campaignWrite") ELSE Finish(w)
  /\ UNCHANGED <<contentVars, campaign, post, history>>

(* cancelCampaignAction: the rows of its items, the items, the campaign.   *)
CancelCampaign(w) ==
  /\ Idle(w) /\ Linked /\ campaign = "approved"
  /\ wk' = [wk EXCEPT ![w].pc = "campaignItems", ![w].op = "campaign"]
  /\ UNCHANGED <<contentVars, linkedVars, post, history>>

CampaignItems(w) ==
  /\ At(w, "campaignItems")
  /\ wk' = [wk EXCEPT ![w].pc = "campaignContent", ![w].it = item]
  /\ UNCHANGED <<contentVars, linkedVars, post, history>>

CampaignContent(w) ==
  /\ At(w, "campaignContent")
  /\ wk' = [wk EXCEPT ![w] = [Fetched(@) EXCEPT !.pc = "sweepList"]]
  /\ UNCHANGED <<contentVars, linkedVars, post, history>>

CampaignWrite(w) ==
  /\ At(w, "campaignWrite")
  /\ campaign' = "cancelled"
  /\ Finish(w)
  /\ UNCHANGED <<contentVars, item, post, history>>

---------------------------------------------------------------------------
(* attemptScheduledPost, for a click or a tick of a publisher and for the
   auto-publish of a client's approval: claim the row, read the item, send.
   (The status a skip returns to is read just before the claim; here with it.) *)
Claim(w, p) ==
  /\ \/ w \in Publishers /\ At(w, "idle")
     \/ At(w, "claim") /\ wk[w].post = p
  /\ post[p] \in {"scheduled", "failed"}
  /\ post' = [post EXCEPT ![p] = "publishing"]
  /\ wk' = [wk EXCEPT ![w].pc = "content", ![w].post = p, ![w].prior = post[p]]
  /\ UNCHANGED <<contentVars, linkedVars, history>>

(* Another attempt has the row, or the pacing of the account defers it.    *)
ClaimLost(w) ==
  /\ At(w, "claim")
  /\ Finish(w)
  /\ UNCHANGED <<contentVars, linkedVars, post, history>>

(* Mutant: the status of the item is not looked at.                        *)
ReadContentOnly(w) ==
  /\ At(w, "content")
  /\ wk' = [wk EXCEPT ![w] = [@ EXCEPT !.bd = body, !.pc = "checks"]]
  /\ UNCHANGED <<contentVars, linkedVars, post, history>>

ReadContent(w) ==
  /\ At(w, "content")
  /\ wk' = [wk EXCEPT ![w] = [@ EXCEPT !.bd = body,
       !.pc = IF status \in Publishable THEN "checks" ELSE "cancelSelf"]]
  /\ UNCHANGED <<contentVars, linkedVars, post, history>>

(* Settling without a delivery: cancelled for demoted content, returned to
   where it was claimed from when a hold, an asset or a control forbids it,
   failed otherwise. *)
Release(w, label, target) ==
  /\ At(w, label)
  /\ Transition(wk[w].post, {"publishing"}, target)
  /\ UNCHANGED <<contentVars, linkedVars, history>>

CancelSelf(w) == Release(w, "cancelSelf", "cancelled") /\ Finish(w)
Skip(w) == Release(w, "skip", wk[w].prior) /\ Finish(w)
SettleFail(w) == Release(w, "settleFail", "failed") /\ (Goto(w, "exhaust") \/ Finish(w))

(* deadLetter, when the attempts of the row are used up.                   *)
Exhaust(w) ==
  /\ At(w, "exhaust")
  /\ Transition(wk[w].post, {"failed"}, "dead")
  /\ Finish(w)
  /\ UNCHANGED <<contentVars, linkedVars, history>>

Checks(w) ==
  /\ At(w, "checks")
  /\ \E label \in {"skip", "settleFail", "send"} : Goto(w, label)
  /\ UNCHANGED <<contentVars, linkedVars, post, history>>

(* The platform takes the body or not; what it answers may be lost.        *)
Send(w) ==
  /\ At(w, "send")
  /\ \/ /\ sent' = [sent EXCEPT ![wk[w].post] = @ \cup {wk[w].bd}]
        /\ Goto(w, "settle") \/ Goto(w, "settleFail")
     \/ UNCHANGED sent /\ Goto(w, "settleFail")
  /\ UNCHANGED <<contentVars, linkedVars, post, cleared, born, shared, raced>>

Settle(w) ==
  /\ Release(w, "settle", "published")
  /\ IF post[wk[w].post] = "publishing" THEN Goto(w, "fresh") ELSE Finish(w)

(* The item is advanced unless it was demoted during the send, as seen now. *)
Fresh(w) ==
  /\ At(w, "fresh")
  /\ IF status \in Publishable THEN Goto(w, "advance") ELSE Finish(w)
  /\ UNCHANGED <<contentVars, linkedVars, post, history>>

Advance(w) ==
  /\ At(w, "advance")
  /\ Promote(w, "published")
  /\ IF Linked THEN Forget(w, "itemPublished") ELSE Finish(w)
  /\ UNCHANGED <<body, review, linkedVars, post, cleared, sent, born, shared>>

ItemPublished(w) ==
  /\ At(w, "itemPublished")
  /\ item' = "published"
  /\ Finish(w)
  /\ UNCHANGED <<contentVars, campaign, post, history>>

(* An exception or the end of the process stops a request at any await; a row
   it had claimed is found by the stale-claim recovery, once nobody works on
   it (PublishQueue studies slower workers). *)
Stop(w) ==
  /\ Crashes /\ ~At(w, "idle")
  /\ Finish(w)
  /\ UNCHANGED <<contentVars, linkedVars, post, history>>

Recover(p) ==
  /\ post[p] = "publishing" /\ \A w \in Workers : ~(wk[w].post = p /\ wk[w].pc \in Attempt)
  /\ \E target \in {"failed", "published"} :
       /\ target = "published" => sent[p] # {}
       /\ post' = [post EXCEPT ![p] = target]
  /\ UNCHANGED <<contentVars, linkedVars, history, wk>>

(* requeueDeadPostAction.                                                  *)
Requeue(p) ==
  /\ post[p] = "dead"
  /\ post' = [post EXCEPT ![p] = "scheduled"]
  /\ UNCHANGED <<contentVars, linkedVars, history, wk>>

---------------------------------------------------------------------------
EditNext(w) ==
  \/ \E b \in Bodies : Save(w, b)
  \/ SweepList(w) \/ SweepDone(w) \/ Edit(w)
  \/ BackItem(w) \/ BackItemWrite(w) \/ BackCampaign(w) \/ Reopen(w)
  \/ \E p \in Posts : SweepRow(w, p)

ReviewNext(w) ==
  \/ Submit(w) \/ SubmitWrite(w) \/ Share(w) \/ ShareWrite(w)
  \/ \E op \in {"staff", "client"} : Decide(w, op) \/ Reject(w, op)
  \/ Govern(w) \/ ApproveWrite(w) \/ ApproveItem(w) \/ RejectWrite(w)
  \/ Complete(w) \/ CompleteItems(w) \/ CompleteWrite(w)

ScheduleNext(w) ==
  \/ ScheduleRead(w) \/ Critique(w) \/ CreateThrows(w)
  \/ ScheduleWrite(w) \/ ScheduleItem(w)
  \/ \E p \in Posts : CreateRow(w, p) \/ CancelRow(w, p)
  \/ CancelRead(w) \/ CancelActive(w) \/ Unschedule(w) \/ ItemRead(w) \/ ItemWrite(w)
  \/ CancelCampaign(w) \/ CampaignItems(w) \/ CampaignContent(w) \/ CampaignWrite(w)

PublishNext(w) ==
  \/ \E p \in Posts : Claim(w, p)
  \/ ClaimLost(w) \/ ReadContent(w) \/ CancelSelf(w) \/ Checks(w) \/ Skip(w) \/ Send(w)
  \/ Settle(w) \/ SettleFail(w) \/ Exhaust(w) \/ Fresh(w) \/ Advance(w) \/ ItemPublished(w)

Next ==
  \/ \E w \in Workers :
       EditNext(w) \/ ReviewNext(w) \/ ScheduleNext(w) \/ PublishNext(w) \/ Stop(w)
  \/ \E p \in Posts : Recover(p) \/ Requeue(p)

Spec == Init /\ [][Next]_vars

---------------------------------------------------------------------------
TypeOK ==
  /\ status \in Status /\ body \in Bodies
  /\ review \in {"none", "pending", "approved", "changes_requested"}
  /\ item \in Item /\ campaign \in {"approved", "completed", "cancelled"}
  /\ post \in [Posts -> Row] /\ wk \in [Workers -> Worker]
  /\ cleared \subseteq Bodies /\ sent \in [Posts -> SUBSET Bodies]
  /\ born \in [Posts -> Bodies] /\ shared \in Bodies /\ raced \in BOOLEAN

(* Every text the item is approved, scheduled or published with, and every
   text a platform received, passed an approval that governed it, except after
   a status decided on one text was written onto another.  The demotions of an
   edit, the guards of the promotions and the check at publish time hold this
   up together, through crashes at any await. *)
ApprovedUnlessRaced ==
  ~raced => /\ status \in {"approved"} \cup Publishable => body \in cleared
            /\ \A p \in Posts : sent[p] \subseteq cleared

(* Between two requests of a sequence without overlap and crashes, the campaign
   item tells how far its content is, an approved campaign whose item is done
   is completed, and a completed one has no item that went back to review. *)
CampaignFollows ==
  Linked /\ (\A w \in Workers : At(w, "idle")) =>
    /\ \A s \in Done : item = s <=> status = s
    /\ campaign # "cancelled" => (campaign = "completed" <=> item \in Done)

(* A row somebody cancelled, from the calendar, by an edit or with its
   campaign, is never delivered afterwards: the transitions to cancelled leave
   a row alone that is in flight. *)
CancelledStaysSilent ==
  [][\A p \in Posts : post[p] = "cancelled" => sent'[p] = sent[p] /\ post'[p] = "cancelled"]_vars

(* README.md:4, "Nothing unapproved is published": every text a platform
   received passed an approval that governed it. *)
NothingUnapproved == \A p \in Posts : sent[p] \subseteq cleared

(* content/actions.ts:199, "a fresh share is required so a stale token can
   never approve a body the client never saw": an open invitation is for the
   text the client was invited to review. *)
ShareIsLive == status = "pending_approval" /\ review = "pending" => body = shared
=============================================================================
