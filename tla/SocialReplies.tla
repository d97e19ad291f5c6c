--------------------------- MODULE SocialReplies ---------------------------
(* One reply to a customer's comment, from its draft to the platform: approved
   by a person (social/actions.ts) or by the automation engine (automation.ts),
   posted by publishSocialReply (publishing.ts), or closed.

   Every request reads the draft first and writes its status without a
   condition in the end; no claim keeps two of them apart. *)
EXTENDS Integers

CONSTANTS
  Clerks,       \* requests in flight: people's clicks, the automation engine
  ReplyFaults   \* bound: answers lost, writes failed, requests killed

ASSUME ReplyAssumption == ReplyFaults \in Nat

VARIABLES
  reply,        \* social_responses.status
  posted,       \* times the platform took the reply
  clerks,       \* what each request is about to do
  replyFaults,  \* faults so far
  replyRaced    \* history: two requests were in flight at a time

replyVars == <<reply, posted, clerks, replyFaults, replyRaced>>

Awaiting == {"pending_approval", "escalated"}
Final == {"published", "no_response_required"}

Serving == {c \in Clerks : clerks[c] # "idle"}
ClerkTo(c, pc) == clerks' = [clerks EXCEPT ![c] = pc]

(* getSocial: the status the request goes by from here on.                  *)
Opens(c, pc) ==
  /\ clerks[c] = "idle"
  /\ ClerkTo(c, pc)
  /\ replyRaced' = (replyRaced \/ Serving # {})
  /\ UNCHANGED <<reply, posted, replyFaults>>

(* draftSocialAction: an escalated draft where the comment, the compliance
   check or the crisis mode asks for senior review. *)
ReplyInit ==
  /\ reply \in Awaiting /\ posted = 0 /\ replyFaults = 0 /\ replyRaced = FALSE
  /\ clerks = [c \in Clerks |-> "idle"]

-----------------------------------------------------------------------------
(* Mutant: the status is not looked at.                                     *)
BeginApproveAny(c) == Opens(c, "approve")

(* approveSocialAction: the hold and the rules are asked, then the status is
   written.  What is refused ends in GiveUp. *)
BeginApprove(c) == reply \in Awaiting /\ Opens(c, "approve")

(* autoApproveLowRiskReplies: from the list it read, no escalated ones.     *)
BeginAutoApprove(c) == reply = "pending_approval" /\ Opens(c, "approve")

Approve(c) ==
  /\ clerks[c] = "approve"
  /\ reply' = "approved"
  /\ ClerkTo(c, "idle")
  /\ UNCHANGED <<posted, replyFaults, replyRaced>>

(* closeSocialAction.                                                       *)
BeginClose(c) == reply \notin Final /\ Opens(c, "close")

(* Mutant: a status nothing else knows of.                                 *)
CloseClosed(c) ==
  /\ clerks[c] = "close"
  /\ reply' = "closed"
  /\ ClerkTo(c, "idle")
  /\ UNCHANGED <<posted, replyFaults, replyRaced>>

Close(c) ==
  /\ clerks[c] = "close"
  /\ reply' = "no_response_required"
  /\ ClerkTo(c, "idle")
  /\ UNCHANGED <<posted, replyFaults, replyRaced>>

(* publishSocialReplyAction and publishSocialReply: the hold, the controls and
   the integration are asked ... *)
BeginPublish(c) == reply = "approved" /\ Opens(c, "post")

(* ... any of which, as a refusal by the platform, ends in a log line only ... *)
GiveUp(c) ==
  /\ clerks[c] \in {"approve", "close", "post"}
  /\ ClerkTo(c, "idle")
  /\ UNCHANGED <<reply, posted, replyFaults, replyRaced>>

(* ... the platform takes it ...                                            *)
Post(c) ==
  /\ clerks[c] = "post"
  /\ posted' = posted + 1
  /\ ClerkTo(c, "posted")
  /\ UNCHANGED <<reply, replyFaults, replyRaced>>

(* ... and the log and the status are written.                              *)
MarkPublished(c) ==
  /\ clerks[c] = "posted"
  /\ reply' = "published"
  /\ ClerkTo(c, "idle")
  /\ UNCHANGED <<posted, replyFaults, replyRaced>>

(* The answer is lost (a failure, to the code), the log line is not written or
   the request is killed: the reply is up, and still "approved". *)
LoseAnswer(c) ==
  /\ clerks[c] = "posted" /\ replyFaults < ReplyFaults
  /\ replyFaults' = replyFaults + 1
  /\ ClerkTo(c, "idle")
  /\ UNCHANGED <<reply, posted, replyRaced>>

ReplyNext ==
  \E c \in Clerks :
    \/ BeginApprove(c) \/ BeginAutoApprove(c) \/ Approve(c) \/ BeginClose(c) \/ Close(c)
    \/ BeginPublish(c) \/ GiveUp(c) \/ Post(c) \/ MarkPublished(c) \/ LoseAnswer(c)

ReplySpec == ReplyInit /\ [][ReplyNext]_replyVars

-----------------------------------------------------------------------------
ReplyTypeOK ==
  /\ reply \in Awaiting \cup Final \cup {"approved"}
  /\ clerks \in [Clerks -> {"idle", "approve", "close", "post", "posted"}]
  /\ {posted, replyFaults} \subseteq Nat /\ replyRaced \in BOOLEAN

(* A reply is posted once, and once more for each answer lost; requests that do
   not overlap never post another, and never reopen what is final.  (A click
   beside a click, or an approval beside a posting, does: see replyRaced.) *)
RepliedOnce ==
  replyRaced \/ ( /\ posted <= 1 + replyFaults
                  /\ posted > replyFaults => reply = "published" \/ \E c \in Clerks : clerks[c] = "posted" )
=============================================================================
