--------------------------- MODULE EmailCampaigns ---------------------------
(* The sending of one e-mail campaign (email-marketing/actions.ts, email.ts):
   the campaign and the list of recipients are read, the mails go out in
   batches, and the campaign is marked sent when all of them are done. *)
EXTENDS Integers, FiniteSets

CONSTANTS
  Subscribers,  \* with marketing consent
  Senders,      \* clicks on "send"
  MailFaults    \* bound: answers of the mail service lost, writes failed, requests killed

ASSUME MailAssumption == MailFaults \in Nat

VARIABLES
  campaignSent, \* email_campaigns.status is "sent"
  unsubscribed, \* email_subscribers.unsubscribed_at is set
  mailed,       \* mails each subscriber was sent
  senders,      \* what each click is at: the recipients still to go
  mailFaults,
  mailRaced     \* history: two clicks were at it at a time

mailVars == <<campaignSent, unsubscribed, mailed, senders, mailFaults, mailRaced>>

Unclicked == [pc |-> "idle", to |-> {}]
SenderTo(s, pc, to) == senders' = [senders EXCEPT ![s] = [pc |-> pc, to |-> to]]
MailTo(set) == mailed' = [r \in Subscribers |-> mailed[r] + (IF r \in set THEN 1 ELSE 0)]
MailFault == mailFaults < MailFaults /\ mailFaults' = mailFaults + 1

MailInit ==
  /\ campaignSent = FALSE /\ unsubscribed = {} /\ mailFaults = 0 /\ mailRaced = FALSE
  /\ mailed = [r \in Subscribers |-> 0]
  /\ senders = [s \in Senders |-> Unclicked]

-----------------------------------------------------------------------------
(* Mutant: a sent campaign can be sent.                                     *)
BeginSendAny(s) ==
  /\ senders[s].pc = "idle"
  /\ SenderTo(s, "list", {})
  /\ mailRaced' = (mailRaced \/ \E q \in Senders : senders[q].pc # "idle")
  /\ UNCHANGED <<campaignSent, unsubscribed, mailed, mailFaults>>

(* sendEmailCampaignAction: not sent yet ...                                *)
BeginSend(s) ==
  /\ senders[s].pc = "idle" /\ ~campaignSent
  /\ SenderTo(s, "list", {})
  /\ mailRaced' = (mailRaced \/ \E q \in Senders : senders[q].pc # "idle")
  /\ UNCHANGED <<campaignSent, unsubscribed, mailed, mailFaults>>

(* ... the eligible subscribers are listed (none: assertCampaignSendable
   refuses) ... *)
ListRecipients(s) ==
  /\ senders[s].pc = "list"
  /\ IF unsubscribed = Subscribers THEN SenderTo(s, "idle", {})
     ELSE SenderTo(s, "batch", Subscribers \ unsubscribed)
  /\ UNCHANGED <<campaignSent, unsubscribed, mailed, mailFaults, mailRaced>>

(* ... sendBulkEmail hands over a batch, which the service takes or refuses
   with an error: both count, and neither is tried again ... *)
SendBatch(s, taken) ==
  /\ senders[s].pc = "batch"
  /\ IF taken THEN MailTo(senders[s].to) ELSE UNCHANGED mailed
  /\ SenderTo(s, "mark", {})
  /\ UNCHANGED <<campaignSent, unsubscribed, mailFaults, mailRaced>>

(* ... unless the call throws, having reached the service or not: then each
   message is sent by itself ... *)
BatchThrows(s, taken) ==
  /\ senders[s].pc = "batch"
  /\ IF taken THEN MailTo(senders[s].to) /\ MailFault ELSE UNCHANGED <<mailed, mailFaults>>
  /\ SenderTo(s, "each", senders[s].to)
  /\ UNCHANGED <<campaignSent, unsubscribed, mailRaced>>

SendOne(s, r, taken) ==
  /\ senders[s].pc = "each" /\ r \in senders[s].to
  /\ IF taken THEN MailTo({r}) ELSE UNCHANGED mailed
  /\ SenderTo(s, IF senders[s].to = {r} THEN "mark" ELSE "each", senders[s].to \ {r})
  /\ UNCHANGED <<campaignSent, unsubscribed, mailFaults, mailRaced>>

(* ... and the campaign is marked, unless the write fails, of which the
   adapter says nothing. *)
MarkSent(s) ==
  /\ senders[s].pc = "mark"
  /\ campaignSent' = TRUE
  /\ SenderTo(s, "idle", {})
  /\ UNCHANGED <<unsubscribed, mailed, mailFaults, mailRaced>>

(* The request is killed, or its last write fails.                          *)
LoseSender(s) ==
  /\ senders[s].pc # "idle" /\ MailFault
  /\ SenderTo(s, "idle", {})
  /\ UNCHANGED <<campaignSent, unsubscribed, mailed, mailRaced>>

(* unsubscribeSubscriberAction.                                             *)
Unsubscribe(r) ==
  /\ r \notin unsubscribed
  /\ unsubscribed' = unsubscribed \cup {r}
  /\ UNCHANGED <<campaignSent, mailed, senders, mailFaults, mailRaced>>

MailNext ==
  \/ \E r \in Subscribers : Unsubscribe(r)
  \/ \E s \in Senders :
       \/ BeginSend(s) \/ ListRecipients(s) \/ MarkSent(s) \/ LoseSender(s)
       \/ \E taken \in BOOLEAN :
            \/ SendBatch(s, taken) \/ BatchThrows(s, taken)
            \/ \E r \in Subscribers : SendOne(s, r, taken)

MailSpec == MailInit /\ [][MailNext]_mailVars

-----------------------------------------------------------------------------
MailTypeOK ==
  /\ {campaignSent, mailRaced} \subseteq BOOLEAN /\ mailFaults \in Nat
  /\ unsubscribed \subseteq Subscribers /\ mailed \in [Subscribers -> Nat]
  /\ \A s \in Senders :
       senders[s].pc \in {"idle", "list", "batch", "each", "mark"} /\ senders[s].to \subseteq Subscribers

(* A subscriber gets a campaign once, and once more for each answer of the mail
   service, request or write that is lost; clicks that do not overlap add none,
   though a batch that throws is sent again one by one. *)
MailedOnce == mailRaced \/ \A r \in Subscribers : mailed[r] <= 1 + mailFaults
=============================================================================
