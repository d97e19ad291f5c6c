---------------------------- MODULE MCOperations ----------------------------
(* The components that work for the agency's staff, side by side.

   Three of them are views of one subject: ManagedDelivery and CalendarAssist of
   the company's profile (its settings and its list of suggestions, one column),
   and CalendarAssist and Drafting of a request that accepts a suggestion.  Each
   has every other writer of that column, or of that budget, among its own
   requests, reduced to what they do to its part of it, and so needs no step of
   the others.  The rest write no row that another one of them reads.  To look at
   the sum of their states instead of the product, a behaviour is given to one. *)
EXTENDS ManagedDelivery, Drafting, CalendarAssist, SocialReplies, PublishingControls,
        ConnectInvites, EmailCampaigns, PublishCeiling, TLC

VARIABLE part   \* the component that moves, for good

allVars == <<part, deliveryVars, draftingVars, assistVars, replyVars, controlVars, inviteVars,
             mailVars, ceilingVars>>

Init ==
  /\ part \in {"delivery", "drafting", "assist", "reply", "controls", "invite", "mail", "ceiling"}
  /\ DeliveryInit /\ DraftingInit /\ AssistInit /\ ReplyInit /\ ControlInit /\ InviteInit
  /\ MailInit /\ CeilingInit
  /\ part # "reply" => reply = "pending_approval"

Next ==
  /\ UNCHANGED part
  /\ \/ part = "delivery" /\ DeliveryNext
        /\ UNCHANGED <<draftingVars, assistVars, replyVars, controlVars, inviteVars, mailVars, ceilingVars>>
     \/ part = "drafting" /\ DraftingNext
        /\ UNCHANGED <<deliveryVars, assistVars, replyVars, controlVars, inviteVars, mailVars, ceilingVars>>
     \/ part = "assist" /\ AssistNext
        /\ UNCHANGED <<deliveryVars, draftingVars, replyVars, controlVars, inviteVars, mailVars, ceilingVars>>
     \/ part = "reply" /\ ReplyNext
        /\ UNCHANGED <<deliveryVars, draftingVars, assistVars, controlVars, inviteVars, mailVars, ceilingVars>>
     \/ part = "controls" /\ ControlNext
        /\ UNCHANGED <<deliveryVars, draftingVars, assistVars, replyVars, inviteVars, mailVars, ceilingVars>>
     \/ part = "invite" /\ InviteNext
        /\ UNCHANGED <<deliveryVars, draftingVars, assistVars, replyVars, controlVars, mailVars, ceilingVars>>
     \/ part = "mail" /\ MailNext
        /\ UNCHANGED <<deliveryVars, draftingVars, assistVars, replyVars, controlVars, inviteVars, ceilingVars>>
     \/ part = "ceiling" /\ CeilingNext
        /\ UNCHANGED <<deliveryVars, draftingVars, assistVars, replyVars, controlVars, inviteVars, mailVars>>

(* Where nothing more is promised - a profile was written by someone who had not
   seen the last of it, or suggestions were both surfaced and settled by two
   requests at a time; changes of the controls overlapped or failed - what comes
   after is not followed. *)
Followed ==
  /\ "profile" \notin assistMishaps /\ ~ {"scan", "accept"} \subseteq assistMishaps
  /\ ~controlHarm

(* A delivery run is waiting in every other part, too, and fairness rules out
   that it waits for ever: DeliveryRests is about the behaviours of "delivery". *)
Spec == Init /\ [][Next]_allVars /\ DeliveryFairness

TypesOK ==
  /\ DeliveryTypeOK /\ DraftingTypeOK /\ AssistTypeOK /\ ReplyTypeOK /\ ControlTypeOK
  /\ InviteTypeOK /\ MailTypeOK /\ CeilingTypeOK
=============================================================================
