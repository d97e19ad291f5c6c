--------------------------- MODULE BillingEvents ---------------------------
(* The plan and one add-on of a workspace, as the signed Stripe webhook keeps
   them (src/app/api/billing/webhook/route.ts) and as the owner changes them
   (billing/actions.ts).

   Stripe emits the events of a subscription in order, but delivers them side
   by side and without waiting; an event whose delivery was killed comes again.
   A delivery reads the tenant (or the entitlement), and writes it later.  A
   patch of undefined reaches the hosted database as no change (toRow). *)
EXTENDS Integers, FiniteSets, Sequences

CONSTANTS
  PlanSubs,       \* subscriptions to a plan
  AddonSubs,      \* subscriptions to the add-on
  NoSub,          \* no subscription on record
  Plans,          \* PlanId
  Deliveries,     \* webhook deliveries and owner requests in flight together
  BillingChanges, \* bound: price changes in the portal
  BillingDisables,\* bound: the owner disables the add-on
  BillingFaults   \* bound: requests killed

ASSUME BillingAssumption ==
  /\ PlanSubs \cap AddonSubs = {} /\ NoSub \notin PlanSubs \cup AddonSubs
  /\ "starter" \in Plans
  /\ {BillingChanges, BillingDisables, BillingFaults} \subseteq Nat

Subs == PlanSubs \cup AddonSubs

VARIABLES
  tenant,         \* tenants: plan and recorded subscription
  addon,          \* company_entitlements: status and recorded subscription
  stripeSubs,     \* Stripe's truth: each subscription's state and price
  outbox,         \* per subscription, the events Stripe has still to deliver
  inFlight,       \* the deliveries: the event, and the write it is about to do
  billingUsed,    \* what the bounds have been used up by
  muddled,        \* history: subscriptions with an event handled out of order,
                  \* or answered without its write
  doubled         \* history: two plan subscriptions lived at a time, or the
                  \* handlers of their events overlapped or changed places

billingVars == <<tenant, addon, stripeSubs, outbox, inFlight, billingUsed, muddled, doubled>>

NoEvent == [kind |-> "none", sub |-> NoSub, plan |-> "starter"]
Free == [event |-> NoEvent, pc |-> "free", plan |-> "starter", sub |-> NoSub]
Event(kind, s, p) == [kind |-> kind, sub |-> s, plan |-> p]

Alive(s) == stripeSubs[s].state = "alive"
Handling(s) == {d \in Deliveries : inFlight[d].event.sub = s /\ inFlight[d].event.kind # "disable"}
Unread(s) == \E i \in DOMAIN outbox[s] : outbox[s][i].kind # "deleted"
EndOutstanding(s) ==
  \/ \E i \in DOMAIN outbox[s] : outbox[s][i].kind = "deleted"
  \/ \E d \in Handling(s) : inFlight[d].event.kind = "deleted"
Backed(s) == s \in Subs /\ (s \in muddled \/ Alive(s) \/ EndOutstanding(s))
Quiet == (\A s \in Subs : outbox[s] = <<>>) /\ \A d \in Deliveries : inFlight[d] = Free

BillingInit ==
  /\ tenant = [plan |-> "starter", sub |-> NoSub]
  /\ addon = [status |-> "none", sub |-> NoSub]
  /\ stripeSubs = [s \in Subs |-> [state |-> "none", plan |-> "starter"]]
  /\ outbox = [s \in Subs |-> <<>>]
  /\ inFlight = [d \in Deliveries |-> Free]
  /\ billingUsed = [changes |-> 0, disables |-> 0, faults |-> 0]
  /\ muddled = {} /\ doubled = FALSE

-----------------------------------------------------------------------------
(* What happens at Stripe.                                                 *)

Emit(e) == outbox' = [outbox EXCEPT ![e.sub] = Append(@, e)]

(* A checkout is paid: the session may have been opened long ago, so nothing
   about the tenant is asked (createCheckoutSession stamps plan and tenant). *)
Buy(s, p) ==
  /\ stripeSubs[s].state = "none"
  /\ s \in AddonSubs => p = "starter"
  /\ stripeSubs' = [stripeSubs EXCEPT ![s] = [state |-> "alive", plan |-> p]]
  /\ Emit(Event("checkout", s, p))
  /\ doubled' = (doubled \/ (s \in PlanSubs /\ \E t \in PlanSubs : Alive(t)))
  /\ UNCHANGED <<tenant, addon, inFlight, billingUsed, muddled>>

ChangePrice(s, p) ==
  /\ Alive(s) /\ s \in PlanSubs /\ p # stripeSubs[s].plan
  /\ billingUsed.changes < BillingChanges
  /\ billingUsed' = [billingUsed EXCEPT !.changes = @ + 1]
  /\ stripeSubs' = [stripeSubs EXCEPT ![s].plan = p]
  /\ Emit(Event("updated", s, p))
  /\ UNCHANGED <<tenant, addon, inFlight, muddled, doubled>>

(* Cancelled in the portal, or unpaid.                                     *)
EndSubscription(s) ==
  /\ Alive(s)
  /\ stripeSubs' = [stripeSubs EXCEPT ![s].state = "ended"]
  /\ Emit(Event("deleted", s, stripeSubs[s].plan))
  /\ UNCHANGED <<tenant, addon, inFlight, billingUsed, muddled, doubled>>

-----------------------------------------------------------------------------
(* The handlers: what each writes after what it read, if anything.         *)

(* onCheckoutCompleted                                                     *)
PlanCheckout(e) ==
  IF tenant = [plan |-> e.plan, sub |-> e.sub] THEN {}
  ELSE {[event |-> e, pc |-> "tenant", plan |-> e.plan, sub |-> e.sub]}

(* Mutant: the plan is synced without recording whose it is.               *)
PlanUpdatedUnrecorded(e) ==
  IF e.plan = tenant.plan THEN {}
  ELSE {[event |-> e, pc |-> "tenant", plan |-> e.plan, sub |-> NoSub]}

(* onSubscriptionUpdated                                                   *)
PlanUpdated(e) ==
  IF e.plan = tenant.plan THEN {}
  ELSE {[event |-> e, pc |-> "tenant", plan |-> e.plan, sub |-> e.sub]}

(* Mutant: the end of any plan subscription ends the plan.                 *)
PlanDeletedAny(e) ==
  IF tenant.plan = "starter" THEN {}
  ELSE {[event |-> e, pc |-> "tenant", plan |-> "starter", sub |-> NoSub]}

(* onSubscriptionDeleted; the recorded subscription is patched with undefined
   and so stays on record. *)
PlanDeleted(e) ==
  IF tenant.plan = "starter" \/ tenant.sub # e.sub THEN {}
  ELSE {[event |-> e, pc |-> "tenant", plan |-> "starter", sub |-> NoSub]}

(* onAddonCheckout                                                         *)
AddonCheckout(e) ==
  IF addon.sub = e.sub THEN {}
  ELSE {[event |-> e, pc |-> "enable", plan |-> "starter", sub |-> e.sub]}

(* onAddonSubscriptionDeleted                                              *)
AddonDeleted(e) ==
  IF addon.status # "active" THEN {}
  ELSE {[event |-> e, pc |-> "cancel", plan |-> "starter", sub |-> NoSub]}

Handled(e) ==
  CASE e.sub \in AddonSubs /\ e.kind = "checkout" -> AddonCheckout(e)
    [] e.sub \in AddonSubs /\ e.kind = "deleted" -> AddonDeleted(e)
    [] e.sub \in PlanSubs /\ e.kind = "checkout" -> PlanCheckout(e)
    [] e.sub \in PlanSubs /\ e.kind = "updated" -> PlanUpdated(e)
    [] e.sub \in PlanSubs /\ e.kind = "deleted" -> PlanDeleted(e)

(* POST: an event arrives, and its handler reads; if it has nothing to write,
   it is answered. *)
Receive(d, s, i) ==
  LET e == outbox[s][i] IN
  /\ inFlight[d] = Free
  /\ outbox' = [outbox EXCEPT ![s] = SubSeq(@, 1, i - 1) \o SubSeq(@, i + 1, Len(@))]
  /\ inFlight' = [inFlight EXCEPT ![d] = CHOOSE x \in Handled(e) \cup {Free} :
                                           Handled(e) # {} => x \in Handled(e)]
  /\ muddled' = IF i > 1 \/ Handling(s) # {} THEN muddled \cup {s} ELSE muddled
  /\ doubled' = (doubled \/ (s \in PlanSubs /\ \E t \in PlanSubs : Handling(t) # {} \/ (t # s /\ Unread(t))))
  /\ UNCHANGED <<tenant, addon, stripeSubs, billingUsed>>

(* updateTenant                                                            *)
WriteTenant(d) ==
  /\ inFlight[d].pc = "tenant"
  /\ tenant' = [plan |-> inFlight[d].plan,
                sub |-> IF inFlight[d].sub = NoSub THEN tenant.sub ELSE inFlight[d].sub]
  /\ inFlight' = [inFlight EXCEPT ![d].pc = "answer"]
  /\ UNCHANGED <<addon, stripeSubs, outbox, billingUsed, muddled, doubled>>

(* upsertCompanyEntitlement                                                *)
WriteAddon(d) ==
  /\ inFlight[d].pc \in {"enable", "cancel"}
  /\ addon' = IF inFlight[d].pc = "enable" THEN [status |-> "active", sub |-> inFlight[d].sub]
              ELSE [addon EXCEPT !.status = "cancelled"]
  /\ inFlight' = [inFlight EXCEPT ![d].pc = "answer"]
  /\ UNCHANGED <<tenant, stripeSubs, outbox, billingUsed, muddled, doubled>>

(* A write fails: an error of updateTenant is not looked at, one of the upsert
   is thrown, and the webhook answers either. *)
WriteFails(d) ==
  LET e == inFlight[d].event IN
  /\ inFlight[d].pc \in {"tenant", "enable", "cancel"} /\ billingUsed.faults < BillingFaults
  /\ billingUsed' = [billingUsed EXCEPT !.faults = @ + 1]
  /\ inFlight' = [inFlight EXCEPT ![d].pc = "answer"]
  /\ muddled' = IF e.kind = "disable" THEN muddled ELSE muddled \cup {e.sub}
  /\ UNCHANGED <<tenant, addon, stripeSubs, outbox, doubled>>

(* The audit row is written and the event answered.                        *)
Answer(d) ==
  /\ inFlight[d].pc = "answer"
  /\ inFlight' = [inFlight EXCEPT ![d] = Free]
  /\ UNCHANGED <<tenant, addon, stripeSubs, outbox, billingUsed, muddled, doubled>>

(* disableAddonAction: the entitlement is read; a recorded subscription must be
   cancelled at Stripe before access is withdrawn. *)
Disable(d) ==
  /\ inFlight[d] = Free /\ addon.status = "active"
  /\ billingUsed.disables < BillingDisables
  /\ billingUsed' = [billingUsed EXCEPT !.disables = @ + 1]
  /\ inFlight' = [inFlight EXCEPT ![d] = [event |-> Event("disable", addon.sub, "starter"),
                    pc |-> "stripe", plan |-> "starter", sub |-> NoSub]]
  /\ UNCHANGED <<tenant, addon, stripeSubs, outbox, muddled, doubled>>

CancelAtStripe(d) ==
  LET s == inFlight[d].event.sub IN
  /\ inFlight[d].pc = "stripe" /\ Alive(s)
  /\ stripeSubs' = [stripeSubs EXCEPT ![s].state = "ended"]
  /\ Emit(Event("deleted", s, "starter"))
  /\ inFlight' = [inFlight EXCEPT ![d].pc = "cancel"]
  /\ UNCHANGED <<tenant, addon, billingUsed, muddled, doubled>>

(* Stripe refuses or cannot be reached: nothing was changed.               *)
CancelRefused(d) ==
  /\ inFlight[d].pc = "stripe"
  /\ inFlight' = [inFlight EXCEPT ![d] = Free]
  /\ UNCHANGED <<tenant, addon, stripeSubs, outbox, billingUsed, muddled, doubled>>

(* A delivery that is killed comes again, the oldest of its subscription; an
   owner's request does not. *)
KillDelivery(d) ==
  LET e == inFlight[d].event IN
  /\ inFlight[d] # Free /\ billingUsed.faults < BillingFaults
  /\ billingUsed' = [billingUsed EXCEPT !.faults = @ + 1]
  /\ inFlight' = [inFlight EXCEPT ![d] = Free]
  /\ outbox' = IF e.kind = "disable" THEN outbox ELSE [outbox EXCEPT ![e.sub] = <<e>> \o @]
  /\ UNCHANGED <<tenant, addon, stripeSubs, muddled, doubled>>

BillingNext ==
  \/ \E s \in Subs : EndSubscription(s) \/ \E p \in Plans : Buy(s, p) \/ ChangePrice(s, p)
  \/ \E d \in Deliveries :
       \/ \E s \in Subs : \E i \in DOMAIN outbox[s] : Receive(d, s, i)
       \/ WriteTenant(d) \/ WriteAddon(d) \/ WriteFails(d) \/ Answer(d)
       \/ Disable(d) \/ CancelAtStripe(d) \/ CancelRefused(d) \/ KillDelivery(d)

BillingSpec == BillingInit /\ [][BillingNext]_billingVars

-----------------------------------------------------------------------------
BillingTypeOK ==
  /\ tenant \in [plan : Plans, sub : Subs \cup {NoSub}]
  /\ addon \in [status : {"none", "active", "cancelled"}, sub : AddonSubs \cup {NoSub}]
  /\ stripeSubs \in [Subs -> [state : {"none", "alive", "ended"}, plan : Plans]]
  /\ \A s \in Subs : \A i \in DOMAIN outbox[s] :
       outbox[s][i] \in [kind : {"checkout", "updated", "deleted"}, sub : {s}, plan : Plans]
  /\ \A d \in Deliveries : inFlight[d].pc \in {"free", "tenant", "enable", "cancel", "stripe", "answer"}

(* Nobody keeps a paid plan, or the add-on, for a subscription that ended: it
   lives, or its end is still to be handled.  Only events of one subscription
   handled out of order, or without their write, escape this; those of different subscriptions, kills
   and the owner's own cancellation do not (onSubscriptionUpdated records whose
   plan it synced; disableAddonAction cancels before it writes). *)
NoFreeRide ==
  /\ tenant.plan # "starter" => Backed(tenant.sub)
  /\ addon.status = "active" => Backed(addon.sub)

(* Once all events are handled, a plan subscription that lives is the one on
   record and sets the plan: in particular the late end of an earlier one takes
   nothing away (the comparison in onSubscriptionDeleted).  Excepted are plan
   subscriptions that lived at a time, or whose events overlapped. *)
PlanFollowsSubscription ==
  Quiet /\ ~doubled /\ muddled = {} =>
    \A s \in PlanSubs : Alive(s) => tenant = [plan |-> stripeSubs[s].plan, sub |-> s]
=============================================================================
