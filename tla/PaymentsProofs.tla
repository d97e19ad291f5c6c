-------------------------- MODULE PaymentsProofs ---------------------------
(* Theorems about BillingEvents, for any subscriptions, plans, deliveries in
   flight, and any number of price changes, cancellations and kills; about
   Storefront, for any orders, tables, requests and parties; and, at the end,
   about the components that take payments, side by side. *)
EXTENDS MCPayments, CreditWalletProofs, SequenceTheorems

(* The events of a subscription, and what a delivery holds of one.         *)
EventsOf(s) ==
  [kind : {"checkout", "deleted"} \cup (IF s \in PlanSubs THEN {"updated"} ELSE {}), sub : {s}, plan : Plans]
Delivery ==
  [event : [kind : {"none", "checkout", "updated", "deleted", "disable"}, sub : Subs \cup {NoSub}, plan : Plans],
   pc : {"free", "tenant", "enable", "cancel", "stripe", "answer"}, plan : Plans, sub : Subs \cup {NoSub}]

(* What a delivery is about to write, by the event it handles.             *)
DeliveryOK(x) ==
  LET e == x.event IN
  /\ x.pc = "free" => x = Free
  /\ x.pc # "free" => \/ e.kind = "disable" /\ e.sub \in AddonSubs
                      \/ e.sub \in Subs /\ e \in EventsOf(e.sub)
  /\ x.pc = "tenant" =>
       /\ e.sub \in PlanSubs
       /\ \/ e.kind \in {"checkout", "updated"} /\ x.sub = e.sub /\ x.plan = e.plan
          \/ e.kind = "deleted" /\ x.sub = NoSub /\ x.plan = "starter"
  /\ x.pc = "enable" => e.kind = "checkout" /\ e.sub \in AddonSubs /\ x.sub = e.sub
  /\ x.pc = "cancel" => e.kind \in {"deleted", "disable"} /\ e.sub \in AddonSubs
  /\ x.pc = "stripe" => e.kind = "disable"

RecordType ==
  /\ tenant \in [plan : Plans, sub : Subs \cup {NoSub}]
  /\ addon \in [status : {"none", "active", "cancelled"}, sub : AddonSubs \cup {NoSub}]
StripeType == stripeSubs \in [Subs -> [state : {"none", "alive", "ended"}, plan : Plans]]
OutboxType == outbox = [s \in Subs |-> outbox[s]] /\ \A s \in Subs : outbox[s] \in Seq(EventsOf(s))
FlightType == inFlight \in [Deliveries -> Delivery] /\ \A d \in Deliveries : DeliveryOK(inFlight[d])

(* A paid plan names a plan subscription, an active add-on one of its own. *)
RecordOK ==
  /\ tenant.plan # "starter" => tenant.sub \in PlanSubs
  /\ addon.status = "active" => addon.sub \in AddonSubs

BillingShape == RecordType /\ StripeType /\ OutboxType /\ FlightType /\ RecordOK

(* The end of a subscription comes after its other events and once.        *)
Ending(s) == \E d \in Handling(s) : inFlight[d].event.kind = "deleted"
EndIsLast(s) ==
  /\ stripeSubs[s].state = "none" => outbox[s] = <<>> /\ Handling(s) = {}
  /\ stripeSubs[s].state = "alive" => ~Ending(s) /\ \A i \in DOMAIN outbox[s] : outbox[s][i].kind # "deleted"
  /\ stripeSubs[s].state = "ended" =>
       /\ outbox[s] # <<>> =>
            /\ ~Ending(s)
            /\ \A i \in DOMAIN outbox[s] : outbox[s][i].kind = "deleted" <=> i = Len(outbox[s])
       /\ outbox[s] = <<>> => \A d \in Handling(s) : inFlight[d].event.kind = "deleted"

(* Nothing of the subscription is left to write, and no record lives on it. *)
Closed(s) ==
  \/ stripeSubs[s].state = "none"
  \/ stripeSubs[s].state = "ended" /\ outbox[s] = <<>> /\ \A d \in Handling(s) : inFlight[d].pc = "answer"
Released(s) ==
  /\ tenant.plan = "starter" \/ tenant.sub # s
  /\ addon.status # "active" \/ addon.sub # s

InOrder(s) ==
  /\ \A c, d \in Handling(s) : c = d
  /\ EndIsLast(s)
  /\ Closed(s) => Released(s)

(* Unless its events were handled out of order, what Stripe and the webhook
   hold of a subscription is in order, and one that is over backs nothing. *)
RideInv == BillingShape /\ \A s \in Subs : s \in muddled \/ InOrder(s)

-----------------------------------------------------------------------------
(* The queues of events.                                                   *)
Without(q, i) == SubSeq(q, 1, i - 1) \o SubSeq(q, i + 1, Len(q))

LEMMA Enqueued ==
  ASSUME NEW T, NEW q \in Seq(T), NEW e \in T
  PROVE  /\ Append(q, e) \in Seq(T) /\ Append(q, e) # <<>>
         /\ Len(q) \in Nat /\ Len(Append(q, e)) = Len(q) + 1
         /\ DOMAIN q = 1..Len(q) /\ DOMAIN Append(q, e) = 1..(Len(q) + 1)
         /\ \A i \in DOMAIN q : Append(q, e)[i] = q[i]
         /\ Append(q, e)[Len(q) + 1] = e
OBVIOUS

LEMMA Prepended ==
  ASSUME NEW T, NEW q \in Seq(T), NEW e \in T
  PROVE  /\ <<e>> \o q \in Seq(T) /\ <<e>> \o q # <<>>
         /\ Len(q) \in Nat /\ Len(<<e>> \o q) = Len(q) + 1
         /\ DOMAIN q = 1..Len(q) /\ DOMAIN (<<e>> \o q) = 1..(Len(q) + 1)
         /\ (<<e>> \o q)[1] = e
         /\ \A i \in 2..(Len(q) + 1) : i - 1 \in DOMAIN q /\ (<<e>> \o q)[i] = q[i - 1]
<1>1. <<e>> \in Seq(T) /\ Len(<<e>>) = 1 /\ <<e>>[1] = e  OBVIOUS
<1>2. /\ <<e>> \o q \in Seq(T) /\ Len(<<e>> \o q) = 1 + Len(q) /\ Len(q) \in Nat
      /\ \A i \in 1..(1 + Len(q)) : (<<e>> \o q)[i] = IF i <= 1 THEN <<e>>[i] ELSE q[i - 1]
  BY <1>1, ConcatProperties
<1>3. DOMAIN q = 1..Len(q) /\ DOMAIN (<<e>> \o q) = 1..(Len(q) + 1)
  BY <1>2, LenProperties
<1>4. \A i \in 2..(Len(q) + 1) : i - 1 \in DOMAIN q /\ (<<e>> \o q)[i] = q[i - 1]
  BY <1>2, <1>3
<1>5. (<<e>> \o q)[1] = e  BY <1>1, <1>2
<1>6. <<e>> \o q # <<>>  BY <1>2, EmptySeq
<1> QED  BY <1>2, <1>3, <1>4, <1>5, <1>6

LEMMA Removed ==
  ASSUME NEW T, NEW q \in Seq(T), NEW i \in DOMAIN q
  PROVE  /\ Without(q, i) \in Seq(T) /\ q # <<>>
         /\ Len(q) \in Nat /\ Len(Without(q, i)) = Len(q) - 1
         /\ DOMAIN q = 1..Len(q) /\ DOMAIN Without(q, i) = 1..(Len(q) - 1)
         /\ i = 1 => \A j \in 1..(Len(q) - 1) : j + 1 \in DOMAIN q /\ Without(q, i)[j] = q[j + 1]
         /\ Without(q, i) = <<>> <=> Len(q) = 1
<1>1. Len(q) \in Nat /\ DOMAIN q = 1..Len(q) /\ i \in 1..Len(q)  BY LenProperties
<1>2. \A j \in 1..Len(q) : q[j] \in T  BY ElementOfSeq
<1>3. /\ SubSeq(q, 1, i - 1) \in Seq(T) /\ Len(SubSeq(q, 1, i - 1)) = i - 1
  BY <1>1, <1>2, SubSeqProperties
<1>4. /\ SubSeq(q, i + 1, Len(q)) \in Seq(T) /\ Len(SubSeq(q, i + 1, Len(q))) = Len(q) - i
      /\ \A j \in 1..(Len(q) - i) : SubSeq(q, i + 1, Len(q))[j] = q[i + j]
  <2>1. i + 1 \in Int /\ Len(q) \in Int /\ \A j \in (i + 1)..Len(q) : q[j] \in T  BY <1>1, <1>2
  <2>2. /\ SubSeq(q, i + 1, Len(q)) \in Seq(T)
        /\ Len(SubSeq(q, i + 1, Len(q))) = IF i + 1 <= Len(q) THEN Len(q) - (i + 1) + 1 ELSE 0
        /\ \A j \in 1..(Len(q) - (i + 1) + 1) : SubSeq(q, i + 1, Len(q))[j] = q[i + 1 + j - 1]
    BY <2>1, SubSeqProperties
  <2>3. Len(q) - (i + 1) + 1 = Len(q) - i /\ \A j \in 1..(Len(q) - i) : i + 1 + j - 1 = i + j  BY <1>1
  <2>4. (IF i + 1 <= Len(q) THEN Len(q) - (i + 1) + 1 ELSE 0) = Len(q) - i  BY <1>1
  <2>5. \A j \in 1..(Len(q) - i) : SubSeq(q, i + 1, Len(q))[j] = q[i + j]  BY <2>2, <2>3
  <2> QED  BY <2>2, <2>4, <2>5
<1>5. /\ Without(q, i) \in Seq(T) /\ Len(Without(q, i)) = Len(q) - 1
      /\ \A j \in 1..(Len(q) - 1) :
           Without(q, i)[j] = IF j <= i - 1 THEN SubSeq(q, 1, i - 1)[j] ELSE SubSeq(q, i + 1, Len(q))[j - (i - 1)]
  <2> DEFINE l == SubSeq(q, 1, i - 1)
             r == SubSeq(q, i + 1, Len(q))
  <2>1. Without(q, i) = l \o r  BY DEF Without
  <2>2. l \in Seq(T) /\ r \in Seq(T) /\ Len(l) = i - 1 /\ Len(r) = Len(q) - i  BY <1>3, <1>4
  <2> HIDE DEF l, r
  <2>3. /\ l \o r \in Seq(T) /\ Len(l \o r) = Len(l) + Len(r)
        /\ \A j \in 1..(Len(l) + Len(r)) : (l \o r)[j] = IF j <= Len(l) THEN l[j] ELSE r[j - Len(l)]
    BY <2>2, ConcatProperties
  <2>4. Len(l) + Len(r) = Len(q) - 1  BY <1>1, <2>2
  <2>5. /\ Without(q, i) \in Seq(T) /\ Len(Without(q, i)) = Len(q) - 1
        /\ \A j \in 1..(Len(q) - 1) : Without(q, i)[j] = IF j <= i - 1 THEN l[j] ELSE r[j - (i - 1)]
    BY <2>1, <2>2, <2>3, <2>4
  <2> QED  BY <2>5 DEF l, r
<1>6. DOMAIN Without(q, i) = 1..(Len(q) - 1)  BY <1>5, LenProperties
<1>7. i = 1 => \A j \in 1..(Len(q) - 1) : j + 1 \in DOMAIN q /\ Without(q, i)[j] = q[j + 1]
  <2> SUFFICES ASSUME i = 1, NEW j \in 1..(Len(q) - 1)
               PROVE  j + 1 \in DOMAIN q /\ Without(q, i)[j] = q[j + 1]
    OBVIOUS
  <2>1. j + 1 \in DOMAIN q /\ ~(j <= i - 1) /\ j - (i - 1) = j /\ i + j = j + 1  BY <1>1
  <2>2. Without(q, i)[j] = SubSeq(q, i + 1, Len(q))[j]  BY <1>5, <2>1
  <2>3. SubSeq(q, i + 1, Len(q))[j] = q[i + j]  BY <1>4
  <2> QED  BY <2>1, <2>2, <2>3
<1>8. Without(q, i) = <<>> <=> Len(q) = 1  BY <1>1, <1>5, EmptySeq
<1>9. q # <<>>  BY <1>1, EmptySeq
<1> QED  BY <1>1, <1>5, <1>6, <1>7, <1>8, <1>9

-----------------------------------------------------------------------------
(* The ways a delivery and a queue move on.                                *)
LEMMA Flown ==
  ASSUME FlightType, NEW d \in Deliveries, NEW x \in Delivery, DeliveryOK(x),
         inFlight' = [inFlight EXCEPT ![d] = x]
  PROVE  FlightType' /\ \A c \in Deliveries : inFlight'[c] = IF c = d THEN x ELSE inFlight[c]
<1>1. inFlight \in [Deliveries -> Delivery] /\ \A c \in Deliveries : DeliveryOK(inFlight[c])
  BY DEF FlightType
<1>2. \A c \in Deliveries : inFlight'[c] = IF c = d THEN x ELSE inFlight[c]  BY <1>1
<1>3. inFlight' \in [Deliveries -> Delivery]  BY <1>1
<1>4. \A c \in Deliveries : DeliveryOK(inFlight'[c])  BY <1>1, <1>2
<1> QED  BY <1>2, <1>3, <1>4 DEF FlightType, DeliveryOK, Delivery, EventsOf, Subs, Free, NoEvent

LEMMA Queued ==
  ASSUME OutboxType, NEW s \in Subs, NEW q \in Seq(EventsOf(s)), outbox' = [outbox EXCEPT ![s] = q]
  PROVE  OutboxType' /\ \A t \in Subs : outbox'[t] = IF t = s THEN q ELSE outbox[t]
<1>1. outbox = [t \in Subs |-> outbox[t]] /\ \A t \in Subs : outbox[t] \in Seq(EventsOf(t))
  BY DEF OutboxType
<1>2. \A t \in Subs : outbox'[t] = IF t = s THEN q ELSE outbox[t]  BY <1>1
<1>3. outbox' = [t \in Subs |-> outbox'[t]]  BY <1>1
<1>4. \A t \in Subs : outbox'[t] \in Seq(EventsOf(t))  BY <1>1, <1>2
<1> QED  BY <1>2, <1>3, <1>4 DEF OutboxType, EventsOf, Subs

(* What is known of a delivery at each point.                              *)
LEMMA Aboard ==
  ASSUME BillingShape, NEW d \in Deliveries
  PROVE  /\ inFlight[d] \in Delivery /\ DeliveryOK(inFlight[d]) /\ NoSub \notin Subs
         /\ inFlight[d] = Free \/ inFlight[d].event.kind = "disable" =>
              \A s \in Subs : d \notin Handling(s)
         /\ inFlight[d] # Free /\ inFlight[d].event.kind # "disable" =>
              /\ inFlight[d].event.sub \in Subs /\ inFlight[d].event \in EventsOf(inFlight[d].event.sub)
              /\ \A s \in Subs : d \in Handling(s) <=> s = inFlight[d].event.sub
<1>1. inFlight[d] \in Delivery /\ DeliveryOK(inFlight[d])  BY DEF BillingShape, FlightType
<1>2. NoSub \notin Subs  BY BillingAssumption DEF Subs
<1>3. inFlight[d] = Free \/ inFlight[d].event.kind = "disable" => \A s \in Subs : d \notin Handling(s)
  BY <1>2 DEF Handling, Free, NoEvent
<1>4. inFlight[d] # Free => inFlight[d].pc # "free"  BY <1>1 DEF DeliveryOK
<1> QED  BY <1>1, <1>2, <1>3, <1>4 DEF DeliveryOK, Handling

(* What a handler finds to write, or that it finds nothing.                *)
LEMMA Chosen ==
  ASSUME BillingShape, NEW s \in Subs, NEW e \in EventsOf(s)
  PROVE  \E x \in Delivery :
           /\ x = CHOOSE y \in Handled(e) \cup {Free} : Handled(e) # {} => y \in Handled(e)
           /\ DeliveryOK(x)
           /\ \/ x = Free /\ Handled(e) = {}
              \/ x # Free /\ x \in Handled(e) /\ x.event = e /\ x.pc \in {"tenant", "enable", "cancel"}
<1> DEFINE x == CHOOSE y \in Handled(e) \cup {Free} : Handled(e) # {} => y \in Handled(e)
<1>1. x \in Handled(e) \cup {Free} /\ (Handled(e) # {} => x \in Handled(e))
  <2>1. \E y \in Handled(e) \cup {Free} : Handled(e) # {} => y \in Handled(e)  OBVIOUS
  <2> QED  BY <2>1
<1> HIDE DEF x
<1>2. /\ e.kind \in {"checkout", "updated", "deleted"} /\ e.sub = s /\ e.plan \in Plans
      /\ e.kind = "updated" => s \in PlanSubs
  BY DEF EventsOf
<1>3. e \in [kind : {"none", "checkout", "updated", "deleted", "disable"}, sub : Subs \cup {NoSub}, plan : Plans]
  BY DEF EventsOf
<1>4. "starter" \in Plans /\ NoSub \notin Subs /\ Subs = PlanSubs \cup AddonSubs /\ PlanSubs \cap AddonSubs = {}
  BY BillingAssumption DEF Subs
<1>5. Free \in Delivery /\ DeliveryOK(Free)
  BY <1>4 DEF Free, NoEvent, Delivery, DeliveryOK
<1>6. ASSUME x \in Handled(e)
      PROVE  x \in Delivery /\ DeliveryOK(x) /\ x # Free /\ x.event = e /\ x.pc \in {"tenant", "enable", "cancel"}
  <2> DEFINE to(pc, p, t) == [event |-> e, pc |-> pc, plan |-> p, sub |-> t]
  <2>1. CASE s \in AddonSubs
    <3>1. \/ e.kind = "checkout" /\ Handled(e) = AddonCheckout(e)
          \/ e.kind = "deleted" /\ Handled(e) = AddonDeleted(e)
      BY <1>2, <1>4, <2>1 DEF Handled
    <3>2. \/ e.kind = "checkout" /\ x = to("enable", "starter", s)
          \/ e.kind = "deleted" /\ x = to("cancel", "starter", NoSub)
      BY <1>6, <1>2, <3>1 DEF AddonCheckout, AddonDeleted
    <3>3. /\ x.event = e /\ x.pc \in {"enable", "cancel"} /\ x.plan = "starter" /\ x \in Delivery
          /\ x.pc = "enable" => e.kind = "checkout" /\ x.sub = s
          /\ x.pc = "cancel" => e.kind = "deleted"
      BY <1>3, <1>4, <2>1, <3>2 DEF Delivery
    <3>4. x # Free  BY <3>3 DEF Free
    <3>5. DeliveryOK(x)  BY <1>2, <1>4, <2>1, <3>3 DEF DeliveryOK
    <3> QED  BY <3>3, <3>4, <3>5
  <2>2. CASE s \in PlanSubs
    <3>1. \/ e.kind = "checkout" /\ Handled(e) = PlanCheckout(e)
          \/ e.kind = "updated" /\ Handled(e) = PlanUpdated(e)
          \/ e.kind = "deleted" /\ Handled(e) = PlanDeleted(e)
      BY <1>2, <1>4, <2>2 DEF Handled
    <3>2. \/ e.kind \in {"checkout", "updated"} /\ x = to("tenant", e.plan, s)
          \/ e.kind = "deleted" /\ x = to("tenant", "starter", NoSub)
      BY <1>6, <1>2, <3>1 DEF PlanCheckout, PlanUpdated, PlanDeleted
    <3>3. /\ x.event = e /\ x.pc = "tenant" /\ x \in Delivery
          /\ \/ e.kind \in {"checkout", "updated"} /\ x.sub = s /\ x.plan = e.plan
             \/ e.kind = "deleted" /\ x.sub = NoSub /\ x.plan = "starter"
      BY <1>2, <1>3, <1>4, <2>2, <3>2 DEF Delivery
    <3>4. x # Free  BY <3>3 DEF Free
    <3>5. DeliveryOK(x)  BY <1>2, <1>4, <2>2, <3>3 DEF DeliveryOK
    <3> QED  BY <3>3, <3>4, <3>5
  <2> QED  BY <2>1, <2>2, <1>4
<1>7. (x = Free /\ Handled(e) = {}) \/ x \in Handled(e)  BY <1>1
<1> QED  BY <1>5, <1>6, <1>7 DEF x

(* A step that concerns another subscription leaves this one in order.     *)
FlightKept(t) == Handling(t)' = Handling(t) /\ \A c \in Handling(t) : inFlight'[c] = inFlight[c]
LeftAlone(t) == stripeSubs'[t] = stripeSubs[t] /\ outbox'[t] = outbox[t] /\ FlightKept(t)

LEMMA FlightApart ==
  ASSUME BillingShape, NEW d \in Deliveries, NEW x,
         \A c \in Deliveries : inFlight'[c] = IF c = d THEN x ELSE inFlight[c],
         NEW t \in Subs, d \notin Handling(t), x.event.sub # t \/ x.event.kind = "disable"
  PROVE  FlightKept(t)
<1>1. \A c \in Deliveries : c \in Handling(t)' <=> c \in Handling(t)  BY DEF Handling
<1>2. Handling(t)' = Handling(t)  BY <1>1 DEF Handling
<1>3. \A c \in Handling(t) : inFlight'[c] = inFlight[c]  BY DEF Handling
<1> QED  BY <1>2, <1>3 DEF FlightKept

LEMMA Apart ==
  ASSUME NEW t \in Subs, InOrder(t), LeftAlone(t), Closed(t) /\ Released(t) => Released(t)'
  PROVE  InOrder(t)'
<1>1. /\ stripeSubs'[t] = stripeSubs[t] /\ outbox'[t] = outbox[t] /\ Handling(t)' = Handling(t)
      /\ \A c \in Handling(t) : inFlight'[c] = inFlight[c]
  BY DEF LeftAlone, FlightKept
<1>2. Ending(t)' <=> Ending(t)  BY <1>1 DEF Ending
<1>3. EndIsLast(t)'
  <2>1. EndIsLast(t)  BY DEF InOrder
  <2> QED  BY <2>1, <1>1, <1>2 DEF EndIsLast
<1>4. Closed(t)' <=> Closed(t)  BY <1>1 DEF Closed
<1>5. \A c, d \in Handling(t)' : c = d  BY <1>1 DEF InOrder
<1>6. Closed(t)' => Released(t)'  BY <1>4 DEF InOrder
<1> QED  BY <1>3, <1>5, <1>6 DEF InOrder

(* What happens at Stripe: a subscription moves on and an event is emitted. *)
Ages(s, kind) ==
  \/ stripeSubs[s].state = "none" /\ stripeSubs'[s].state = "alive" /\ kind = "checkout"
  \/ stripeSubs[s].state = "alive" /\ stripeSubs'[s].state = "alive" /\ kind = "updated"
  \/ stripeSubs[s].state = "alive" /\ stripeSubs'[s].state = "ended" /\ kind = "deleted"

LEMMA Emitted ==
  ASSUME RideInv, NEW s \in Subs, NEW e \in EventsOf(s), Emit(e), Ages(s, e.kind),
         StripeType', \A t \in Subs \ {s} : stripeSubs'[t] = stripeSubs[t],
         FlightType', \A t \in Subs : FlightKept(t), tenant' = tenant, addon' = addon, muddled' = muddled
  PROVE  RideInv'
<1>0. BillingShape /\ e.sub = s  BY DEF RideInv, EventsOf
<1>1. outbox[s] \in Seq(EventsOf(s)) /\ OutboxType  BY <1>0 DEF BillingShape, OutboxType
<1>2. /\ Append(outbox[s], e) \in Seq(EventsOf(s)) /\ Append(outbox[s], e) # <<>>
      /\ Len(outbox[s]) \in Nat /\ Len(Append(outbox[s], e)) = Len(outbox[s]) + 1
      /\ DOMAIN outbox[s] = 1..Len(outbox[s]) /\ DOMAIN Append(outbox[s], e) = 1..(Len(outbox[s]) + 1)
      /\ \A i \in DOMAIN outbox[s] : Append(outbox[s], e)[i] = outbox[s][i]
      /\ Append(outbox[s], e)[Len(outbox[s]) + 1] = e
  BY <1>1, Enqueued
<1>3. outbox' = [outbox EXCEPT ![s] = Append(outbox[s], e)]  BY <1>0 DEF Emit
<1>4. OutboxType' /\ \A t \in Subs : outbox'[t] = IF t = s THEN Append(outbox[s], e) ELSE outbox[t]
  BY <1>1, <1>2, <1>3, Queued
<1>5. BillingShape'
  BY <1>0, <1>4 DEF BillingShape, RecordType, RecordOK
<1>6. \A t \in Subs : Released(t)' <=> Released(t)  BY DEF Released
<1>7. ASSUME NEW t \in Subs, t # s, InOrder(t)  PROVE InOrder(t)'
  BY <1>4, <1>6, <1>7, Apart DEF LeftAlone
<1>8. ASSUME InOrder(s)  PROVE InOrder(s)'
  <2> DEFINE n == Len(outbox[s])
  <2>1. /\ outbox'[s] # <<>> /\ Len(outbox'[s]) = n + 1 /\ DOMAIN outbox'[s] = 1..(n + 1)
        /\ DOMAIN outbox[s] = 1..n /\ n \in Nat
        /\ \A i \in 1..n : outbox'[s][i] = outbox[s][i]
        /\ outbox'[s][n + 1] = e
    BY <1>2, <1>4
  <2> HIDE DEF n
  <2>2. Handling(s)' = Handling(s) /\ \A c \in Handling(s) : inFlight'[c] = inFlight[c]  BY DEF FlightKept
  <2>3. Ending(s)' <=> Ending(s)  BY <2>2 DEF Ending
  <2>4. EndIsLast(s) /\ \A c, d \in Handling(s) : c = d  BY <1>8 DEF InOrder
  <2>5. EndIsLast(s)'
    <3>1. CASE stripeSubs'[s].state = "alive"
      <4>1. ~Ending(s)  BY <3>1, <2>4 DEF Ages, EndIsLast, Ending
      <4>2. e.kind # "deleted" /\ \A i \in 1..n : outbox[s][i].kind # "deleted"
        BY <3>1, <2>1, <2>4, EmptySeq DEF Ages, EndIsLast
      <4>3. \A i \in DOMAIN outbox'[s] : outbox'[s][i].kind # "deleted"
        <5>1. \A i \in DOMAIN outbox'[s] : i \in 1..n \/ i = n + 1  BY <2>1
        <5> QED  BY <4>2, <5>1, <2>1
      <4> QED  BY <3>1, <4>1, <4>3, <2>3 DEF EndIsLast
    <3>2. CASE stripeSubs'[s].state = "ended"
      <4>1. ~Ending(s) /\ e.kind = "deleted" /\ \A i \in 1..n : outbox[s][i].kind # "deleted"
        BY <3>2, <2>1, <2>4 DEF Ages, EndIsLast
      <4>2. \A i \in DOMAIN outbox'[s] : outbox'[s][i].kind = "deleted" <=> i = Len(outbox'[s])
        BY <4>1, <2>1
      <4> QED  BY <3>2, <4>1, <4>2, <2>1, <2>3 DEF EndIsLast
    <3> QED  BY <3>1, <3>2 DEF Ages
  <2>6. ~Closed(s)'  BY <2>1 DEF Closed, Ages
  <2> QED  BY <2>2, <2>4, <2>5, <2>6 DEF InOrder
<1> QED  BY <1>5, <1>7, <1>8 DEF RideInv

LEMMA RideBuy ==
  ASSUME RideInv, NEW s \in Subs, NEW p \in Plans, Buy(s, p) \/ ChangePrice(s, p)
  PROVE  RideInv'
<1> DEFINE e == Event(IF Buy(s, p) THEN "checkout" ELSE "updated", s, p)
<1>0. BillingShape /\ StripeType /\ FlightType  BY DEF RideInv, BillingShape
<1>1. /\ tenant' = tenant /\ addon' = addon /\ muddled' = muddled /\ inFlight' = inFlight
      /\ \/ Buy(s, p) /\ stripeSubs[s].state = "none" /\ stripeSubs' = [stripeSubs EXCEPT ![s] = [state |-> "alive", plan |-> p]]
         \/ ~Buy(s, p) /\ stripeSubs[s].state = "alive" /\ s \in PlanSubs /\ stripeSubs' = [stripeSubs EXCEPT ![s].plan = p]
  BY DEF Buy, ChangePrice, Alive
<1>2. Emit(e)
  BY DEF Buy, ChangePrice
<1>3. e \in EventsOf(s) /\ e.kind = IF Buy(s, p) THEN "checkout" ELSE "updated"
  BY <1>1 DEF EventsOf, Event
<1>4. StripeType' /\ Ages(s, e.kind) /\ \A t \in Subs \ {s} : stripeSubs'[t] = stripeSubs[t]
  BY <1>0, <1>1, <1>3 DEF StripeType, Ages
<1>5. FlightType' /\ \A t \in Subs : FlightKept(t)
  BY <1>0, <1>1 DEF FlightType, FlightKept, Handling
<1> HIDE DEF e
<1> QED  BY <1>1, <1>2, <1>3, <1>4, <1>5, Emitted

LEMMA RideEnd ==
  ASSUME RideInv, NEW s \in Subs, EndSubscription(s)
  PROVE  RideInv'
<1>0. BillingShape /\ StripeType /\ FlightType  BY DEF RideInv, BillingShape
<1> DEFINE e == Event("deleted", s, stripeSubs[s].plan)
<1>1. /\ tenant' = tenant /\ addon' = addon /\ muddled' = muddled /\ inFlight' = inFlight
      /\ stripeSubs[s].state = "alive" /\ stripeSubs' = [stripeSubs EXCEPT ![s].state = "ended"]
      /\ Emit(e)
  BY DEF EndSubscription, Alive
<1>2. e \in EventsOf(s) /\ e.kind = "deleted"
  BY <1>0 DEF EventsOf, Event, StripeType
<1>3. StripeType' /\ Ages(s, e.kind) /\ \A t \in Subs \ {s} : stripeSubs'[t] = stripeSubs[t]
  BY <1>0, <1>1, <1>2 DEF StripeType, Ages
<1>4. FlightType' /\ \A t \in Subs : FlightKept(t)
  BY <1>0, <1>1 DEF FlightType, FlightKept, Handling
<1> HIDE DEF e
<1> QED  BY <1>1, <1>2, <1>3, <1>4, Emitted

LEMMA RideCancelAtStripe ==
  ASSUME RideInv, NEW d \in Deliveries, CancelAtStripe(d)
  PROVE  RideInv'
<1>0. BillingShape /\ StripeType /\ FlightType  BY DEF RideInv, BillingShape
<1>s. PICK s : s = inFlight[d].event.sub  OBVIOUS
<1> DEFINE e == Event("deleted", s, "starter")
           x == [inFlight[d] EXCEPT !.pc = "cancel"]
<1>1. /\ tenant' = tenant /\ addon' = addon /\ muddled' = muddled /\ inFlight' = [inFlight EXCEPT ![d] = x]
      /\ inFlight[d].pc = "stripe"
      /\ stripeSubs[s].state = "alive" /\ stripeSubs' = [stripeSubs EXCEPT ![s].state = "ended"]
      /\ Emit(e)
  BY <1>s DEF CancelAtStripe, Alive
<1>2. /\ inFlight[d] \in Delivery /\ inFlight[d].event.kind = "disable" /\ s \in AddonSubs /\ s \in Subs
      /\ \A t \in Subs : d \notin Handling(t)
  BY <1>0, <1>1, <1>s, Aboard DEF DeliveryOK, EventsOf, Subs
<1>3. x \in Delivery /\ x.pc = "cancel" /\ x.event = inFlight[d].event
  BY <1>2 DEF Delivery
<1>4. DeliveryOK(x)  BY <1>2, <1>3, <1>s DEF DeliveryOK
<1>5. e \in EventsOf(s) /\ e.kind = "deleted"
  BY BillingAssumption DEF EventsOf, Event
<1>6. StripeType' /\ Ages(s, e.kind) /\ \A t \in Subs \ {s} : stripeSubs'[t] = stripeSubs[t]
  BY <1>0, <1>1, <1>2, <1>5 DEF StripeType, Ages
<1> HIDE DEF e, x
<1>7. FlightType' /\ \A c \in Deliveries : inFlight'[c] = IF c = d THEN x ELSE inFlight[c]
  BY <1>0, <1>1, <1>3, <1>4, Flown
<1>8. \A t \in Subs : FlightKept(t)
  BY <1>0, <1>2, <1>3, <1>7, FlightApart
<1> QED  BY <1>1, <1>2, <1>5, <1>6, <1>7, <1>8, Emitted

(* What a write changes: the records and the place of one delivery.        *)
SameFlights == \A t \in Subs : Handling(t)' = Handling(t) /\ \A c \in Handling(t) : inFlight'[c].event = inFlight[c].event

LEMMA Written ==
  ASSUME RideInv, BillingShape', stripeSubs' = stripeSubs, outbox' = outbox, SameFlights,
         \A t \in Subs : t \in muddled => t \in muddled',
         \A t \in Subs \ muddled' : InOrder(t) /\ Closed(t)' => Released(t)'
  PROVE  RideInv'
<1>1. SUFFICES ASSUME NEW t \in Subs, t \notin muddled'  PROVE InOrder(t)'
  BY DEF RideInv
<1>2. InOrder(t)  BY <1>1 DEF RideInv
<1>3. Handling(t)' = Handling(t) /\ \A c \in Handling(t) : inFlight'[c].event = inFlight[c].event
  BY DEF SameFlights
<1>4. Ending(t)' <=> Ending(t)  BY <1>3 DEF Ending
<1>5. EndIsLast(t)'
  <2>1. EndIsLast(t)  BY <1>2 DEF InOrder
  <2> QED  BY <2>1, <1>3, <1>4 DEF EndIsLast
<1>6. Closed(t)' => Released(t)'  BY <1>1, <1>2
<1>7. \A c, b \in Handling(t)' : c = b  BY <1>2, <1>3 DEF InOrder
<1> QED  BY <1>5, <1>6, <1>7 DEF InOrder

LEMMA Answering ==
  ASSUME BillingShape, NEW d \in Deliveries, inFlight[d].pc # "free",
         inFlight' = [inFlight EXCEPT ![d].pc = "answer"]
  PROVE  /\ FlightType' /\ SameFlights /\ inFlight'[d].pc = "answer"
         /\ \A c \in Deliveries : c # d => inFlight'[c] = inFlight[c]
<1> DEFINE x == [inFlight[d] EXCEPT !.pc = "answer"]
<1>1. inFlight[d] \in Delivery /\ DeliveryOK(inFlight[d]) /\ FlightType
  BY Aboard DEF BillingShape
<1>2. x \in Delivery /\ x.pc = "answer" /\ x.event = inFlight[d].event
  BY <1>1 DEF Delivery
<1>3. DeliveryOK(x)  BY <1>1, <1>2 DEF DeliveryOK
<1>4. inFlight' = [inFlight EXCEPT ![d] = x]  OBVIOUS
<1> HIDE DEF x
<1>5. FlightType' /\ \A c \in Deliveries : inFlight'[c] = IF c = d THEN x ELSE inFlight[c]
  BY <1>1, <1>2, <1>3, <1>4, Flown
<1>6. \A c \in Deliveries : inFlight'[c].event = inFlight[c].event  BY <1>2, <1>5
<1>7. SameFlights
  <2>1. \A t \in Subs : \A c \in Deliveries : c \in Handling(t)' <=> c \in Handling(t)
    BY <1>6 DEF Handling
  <2>2. \A t \in Subs : Handling(t)' = Handling(t)  BY <2>1 DEF Handling
  <2> QED  BY <1>6, <2>2 DEF SameFlights, Handling
<1> QED  BY <1>2, <1>5, <1>7

(* Where nothing of the subscription changed, it is over if it was.        *)
LEMMA OverElsewhere ==
  ASSUME NEW t \in Subs, NEW d \in Deliveries, d \notin Handling(t), SameFlights,
         \A c \in Deliveries : c # d => inFlight'[c] = inFlight[c],
         stripeSubs' = stripeSubs, outbox' = outbox
  PROVE  Closed(t)' <=> Closed(t)
<1>1. Handling(t)' = Handling(t) /\ \A c \in Handling(t) : inFlight'[c] = inFlight[c]
  BY DEF SameFlights, Handling
<1> QED  BY <1>1 DEF Closed

(* A subscription that is over has no event in hand but its end.           *)
LEMMA OverEnds ==
  ASSUME NEW t \in Subs, InOrder(t), NEW d \in Handling(t), SameFlights,
         stripeSubs' = stripeSubs, outbox' = outbox, Closed(t)'
  PROVE  inFlight[d].event.kind = "deleted"
<1>1. EndIsLast(t)  BY DEF InOrder
<1>2. stripeSubs[t].state # "none"  BY <1>1 DEF EndIsLast
<1>3. stripeSubs[t].state = "ended" /\ outbox[t] = <<>>  BY <1>2 DEF Closed
<1> QED  BY <1>1, <1>3 DEF EndIsLast

LEMMA RideWriteTenant ==
  ASSUME RideInv, NEW d \in Deliveries, WriteTenant(d)
  PROVE  RideInv'
<1>0. BillingShape /\ RecordType /\ StripeType /\ OutboxType /\ FlightType /\ RecordOK  BY DEF RideInv, BillingShape
<1>e. PICK e : e = inFlight[d].event  OBVIOUS
<1>1. /\ addon' = addon /\ stripeSubs' = stripeSubs /\ outbox' = outbox /\ muddled' = muddled
      /\ inFlight[d].pc = "tenant" /\ inFlight' = [inFlight EXCEPT ![d].pc = "answer"]
      /\ tenant' = [plan |-> inFlight[d].plan,
                    sub |-> IF inFlight[d].sub = NoSub THEN tenant.sub ELSE inFlight[d].sub]
  BY DEF WriteTenant
<1>2. /\ FlightType' /\ SameFlights
      /\ \A c \in Deliveries : c # d => inFlight'[c] = inFlight[c]
  BY <1>0, <1>1, Answering
<1>3. /\ e.sub \in PlanSubs /\ e.sub \in Subs /\ NoSub \notin Subs
      /\ \/ e.kind \in {"checkout", "updated"} /\ inFlight[d].sub = e.sub /\ inFlight[d].plan = e.plan
         \/ e.kind = "deleted" /\ inFlight[d].sub = NoSub /\ inFlight[d].plan = "starter"
      /\ inFlight[d] \in Delivery
      /\ \A t \in Subs : d \in Handling(t) <=> t = e.sub
  <2>1. /\ NoSub \notin Subs /\ inFlight[d] \in Delivery /\ DeliveryOK(inFlight[d])
        /\ e.sub \in PlanSubs /\ e.sub \in Subs /\ e.kind # "disable" /\ inFlight[d] # Free
    BY <1>0, <1>1, <1>e, Aboard DEF DeliveryOK, Free, Subs
  <2> QED  BY <1>0, <1>1, <1>e, <2>1, Aboard DEF DeliveryOK
<1>4. /\ tenant'.plan \in Plans /\ tenant' \in [plan : Plans, sub : Subs \cup {NoSub}]
      /\ e.kind # "deleted" => tenant'.sub = e.sub
      /\ e.kind = "deleted" => tenant'.plan = "starter"
  BY <1>0, <1>1, <1>3 DEF RecordType, Delivery
<1>5. BillingShape'
  BY <1>0, <1>1, <1>2, <1>3, <1>4 DEF BillingShape, RecordType, RecordOK, StripeType, OutboxType
<1>6. ASSUME NEW t \in Subs \ muddled', InOrder(t), Closed(t)'  PROVE Released(t)'
  <2>1. CASE t = e.sub
    <3>1. e.kind = "deleted"  BY <1>1, <1>2, <1>3, <1>6, <1>e, <2>1, OverEnds
    <3>2. addon.status # "active" \/ addon.sub # t
      BY <1>0, <1>3, <2>1, BillingAssumption DEF RecordOK
    <3> QED  BY <1>1, <1>4, <3>1, <3>2 DEF Released
  <2>2. CASE t # e.sub
    <3>1. Released(t)  BY <1>1, <1>2, <1>3, <1>6, <2>2, OverElsewhere DEF InOrder
    <3>2. tenant'.plan = "starter" \/ tenant'.sub # t  BY <1>3, <1>4, <2>2
    <3> QED  BY <1>1, <3>1, <3>2 DEF Released
  <2> QED  BY <2>1, <2>2
<1> QED  BY <1>1, <1>2, <1>5, <1>6, Written

LEMMA RideWriteAddon ==
  ASSUME RideInv, NEW d \in Deliveries, WriteAddon(d)
  PROVE  RideInv'
<1>0. BillingShape /\ RecordType /\ StripeType /\ OutboxType /\ FlightType /\ RecordOK  BY DEF RideInv, BillingShape
<1>e. PICK e : e = inFlight[d].event  OBVIOUS
<1>1. /\ tenant' = tenant /\ stripeSubs' = stripeSubs /\ outbox' = outbox /\ muddled' = muddled
      /\ inFlight[d].pc \in {"enable", "cancel"} /\ inFlight' = [inFlight EXCEPT ![d].pc = "answer"]
      /\ addon' = IF inFlight[d].pc = "enable" THEN [status |-> "active", sub |-> inFlight[d].sub]
                  ELSE [addon EXCEPT !.status = "cancelled"]
  BY DEF WriteAddon
<1>2. /\ FlightType' /\ SameFlights
      /\ \A c \in Deliveries : c # d => inFlight'[c] = inFlight[c]
  BY <1>0, <1>1, Answering
<1>3. /\ e.sub \in AddonSubs /\ e.sub \in Subs
      /\ inFlight[d].pc = "enable" => e.kind = "checkout" /\ inFlight[d].sub = e.sub
      /\ \A t \in Subs : d \in Handling(t) => t = e.sub
      /\ inFlight[d].pc = "enable" => d \in Handling(e.sub)
  <2>1. /\ DeliveryOK(inFlight[d]) /\ e.sub \in AddonSubs /\ e.sub \in Subs /\ inFlight[d] # Free
        /\ inFlight[d].pc = "enable" => e.kind = "checkout" /\ inFlight[d].sub = e.sub
    BY <1>0, <1>1, <1>e, Aboard DEF DeliveryOK, Free, Subs
  <2> QED  BY <1>e, <2>1 DEF Handling
<1>4. /\ addon' \in [status : {"none", "active", "cancelled"}, sub : AddonSubs \cup {NoSub}]
      /\ inFlight[d].pc = "enable" => addon'.sub = e.sub
      /\ inFlight[d].pc # "enable" => addon'.status = "cancelled"
  BY <1>0, <1>1, <1>3 DEF RecordType
<1>5. BillingShape'
  BY <1>0, <1>1, <1>2, <1>3, <1>4 DEF BillingShape, RecordType, RecordOK, StripeType, OutboxType
<1>6. ASSUME NEW t \in Subs \ muddled', InOrder(t), Closed(t)'  PROVE Released(t)'
  <2>1. CASE t = e.sub
    <3>1. inFlight[d].pc # "enable"  BY <1>1, <1>2, <1>3, <1>6, <1>e, <2>1, OverEnds
    <3>2. tenant.plan = "starter" \/ tenant.sub # t
      BY <1>0, <1>3, <2>1, BillingAssumption DEF RecordOK
    <3> QED  BY <1>1, <1>4, <3>1, <3>2 DEF Released
  <2>2. CASE t # e.sub
    <3>1. Released(t)  BY <1>1, <1>2, <1>3, <1>6, <2>2, OverElsewhere DEF InOrder
    <3>2. addon'.status # "active" \/ addon'.sub # t  BY <1>3, <1>4, <2>2
    <3> QED  BY <1>1, <3>1, <3>2 DEF Released
  <2> QED  BY <2>1, <2>2
<1> QED  BY <1>1, <1>2, <1>5, <1>6, Written

LEMMA RideWriteFails ==
  ASSUME RideInv, NEW d \in Deliveries, WriteFails(d)
  PROVE  RideInv'
<1>0. BillingShape /\ RecordType /\ StripeType /\ OutboxType /\ FlightType /\ RecordOK  BY DEF RideInv, BillingShape
<1>1. /\ tenant' = tenant /\ addon' = addon /\ stripeSubs' = stripeSubs /\ outbox' = outbox
      /\ inFlight[d].pc # "free" /\ inFlight' = [inFlight EXCEPT ![d].pc = "answer"]
      /\ muddled' = IF inFlight[d].event.kind = "disable" THEN muddled ELSE muddled \cup {inFlight[d].event.sub}
  BY DEF WriteFails
<1>2. /\ FlightType' /\ SameFlights
      /\ \A c \in Deliveries : c # d => inFlight'[c] = inFlight[c]
  BY <1>0, <1>1, Answering
<1>3. BillingShape'
  BY <1>0, <1>1, <1>2 DEF BillingShape, RecordType, RecordOK, StripeType, OutboxType
<1>4. ASSUME NEW t \in Subs \ muddled', InOrder(t), Closed(t)'  PROVE Released(t)'
  <2>1. d \notin Handling(t)  BY <1>1 DEF Handling
  <2>2. Released(t)  BY <1>1, <1>2, <1>4, <2>1, OverElsewhere DEF InOrder
  <2> QED  BY <1>1, <2>2 DEF Released
<1> QED  BY <1>1, <1>2, <1>3, <1>4, Written

(* A delivery that ends, or is killed, handles nothing any more.           *)
LEMMA Landed ==
  ASSUME BillingShape, NEW d \in Deliveries, inFlight' = [inFlight EXCEPT ![d] = Free]
  PROVE  /\ FlightType' /\ \A c \in Deliveries : inFlight'[c] = IF c = d THEN Free ELSE inFlight[c]
         /\ \A t \in Subs : /\ Handling(t)' = Handling(t) \ {d}
                            /\ \A c \in Handling(t)' : inFlight'[c] = inFlight[c]
         /\ \A t \in Subs : d \notin Handling(t) => FlightKept(t)
<1>0. FlightType /\ NoSub \notin Subs  BY Aboard DEF BillingShape
<1>1. Free \in Delivery /\ DeliveryOK(Free)
  BY BillingAssumption DEF Free, NoEvent, Delivery, DeliveryOK
<1>2. FlightType' /\ \A c \in Deliveries : inFlight'[c] = IF c = d THEN Free ELSE inFlight[c]
  BY <1>0, <1>1, Flown
<1>3. ASSUME NEW t \in Subs
      PROVE  /\ Handling(t)' = Handling(t) \ {d} /\ \A c \in Handling(t)' : inFlight'[c] = inFlight[c]
             /\ d \notin Handling(t) => FlightKept(t)
  <2>0. Free.event.sub # t  BY <1>0 DEF Free, NoEvent
  <2>1. \A c \in Deliveries : c \in Handling(t)' <=> c \in Handling(t) /\ c # d
    BY <1>2, <2>0 DEF Handling
  <2>2. Handling(t)' = Handling(t) \ {d}  BY <2>1 DEF Handling
  <2>3. \A c \in Handling(t)' : inFlight'[c] = inFlight[c]  BY <1>2, <2>2 DEF Handling
  <2> QED  BY <2>2, <2>3 DEF FlightKept
<1> QED  BY <1>2, <1>3

LEMMA RideAnswer ==
  ASSUME RideInv, NEW d \in Deliveries, Answer(d) \/ CancelRefused(d)
  PROVE  RideInv'
<1>0. BillingShape /\ RecordType /\ StripeType /\ OutboxType /\ FlightType /\ RecordOK  BY DEF RideInv, BillingShape
<1>1. /\ tenant' = tenant /\ addon' = addon /\ stripeSubs' = stripeSubs /\ outbox' = outbox /\ muddled' = muddled
      /\ inFlight' = [inFlight EXCEPT ![d] = Free]
      /\ inFlight[d].pc \in {"answer", "stripe"}
  BY DEF Answer, CancelRefused
<1>2. /\ FlightType'
      /\ \A t \in Subs : /\ Handling(t)' = Handling(t) \ {d}
                         /\ \A c \in Handling(t)' : inFlight'[c] = inFlight[c]
      /\ \A t \in Subs : d \notin Handling(t) => FlightKept(t)
  BY <1>0, <1>1, Landed
<1>3. BillingShape'
  BY <1>0, <1>1, <1>2 DEF BillingShape, RecordType, RecordOK, StripeType, OutboxType
<1>4. \A t \in Subs : Released(t)' <=> Released(t)  BY <1>1 DEF Released
<1>5. ASSUME NEW t \in Subs, InOrder(t), d \notin Handling(t)  PROVE InOrder(t)'
  BY <1>1, <1>2, <1>4, <1>5, Apart DEF LeftAlone
<1>6. ASSUME NEW t \in Subs, InOrder(t), d \in Handling(t)  PROVE InOrder(t)'
  <2>1. inFlight[d].pc = "answer"
    BY <1>0, <1>1, <1>6, Aboard DEF DeliveryOK, Handling
  <2>2. Handling(t)' = {} /\ \A c \in Handling(t) : c = d  BY <1>2, <1>6 DEF InOrder
  <2>3. EndIsLast(t)'
    <3>1. EndIsLast(t)  BY <1>6 DEF InOrder
    <3>2. ~Ending(t)'  BY <2>2 DEF Ending
    <3> QED  BY <1>1, <2>2, <3>1, <3>2 DEF EndIsLast
  <2>4. Closed(t)' => Closed(t)  BY <1>1, <2>1, <2>2 DEF Closed
  <2> QED  BY <1>4, <1>6, <2>2, <2>3, <2>4 DEF InOrder
<1> QED  BY <1>1, <1>3, <1>5, <1>6 DEF RideInv

LEMMA RideDisable ==
  ASSUME RideInv, NEW d \in Deliveries, Disable(d)
  PROVE  RideInv'
<1>0. BillingShape /\ RecordType /\ StripeType /\ OutboxType /\ FlightType /\ RecordOK  BY DEF RideInv, BillingShape
<1> DEFINE x == [event |-> Event("disable", addon.sub, "starter"), pc |-> "stripe", plan |-> "starter", sub |-> NoSub]
<1>1. /\ tenant' = tenant /\ addon' = addon /\ stripeSubs' = stripeSubs /\ outbox' = outbox /\ muddled' = muddled
      /\ inFlight' = [inFlight EXCEPT ![d] = x] /\ inFlight[d] = Free /\ addon.status = "active"
  BY DEF Disable
<1>2. addon.sub \in AddonSubs /\ addon.sub \in Subs  BY <1>0, <1>1 DEF RecordOK, Subs
<1>3. x \in Delivery /\ x.event.kind = "disable" /\ x.pc = "stripe" /\ x.event.sub = addon.sub
  BY <1>2, BillingAssumption DEF Delivery, Event
<1> HIDE DEF x
<1>4. DeliveryOK(x)  BY <1>2, <1>3 DEF DeliveryOK
<1>5. FlightType' /\ \A c \in Deliveries : inFlight'[c] = IF c = d THEN x ELSE inFlight[c]
  BY <1>0, <1>1, <1>3, <1>4, Flown
<1>6. \A t \in Subs : d \notin Handling(t)  BY <1>0, <1>1, Aboard
<1>7. \A t \in Subs : FlightKept(t)  BY <1>0, <1>3, <1>5, <1>6, FlightApart
<1>8. BillingShape'
  BY <1>0, <1>1, <1>5 DEF BillingShape, RecordType, RecordOK, StripeType, OutboxType
<1>9. ASSUME NEW t \in Subs, InOrder(t)  PROVE InOrder(t)'
  BY <1>1, <1>7, <1>9, Apart DEF LeftAlone, Released
<1> QED  BY <1>1, <1>8, <1>9 DEF RideInv

LEMMA RideKill ==
  ASSUME RideInv, NEW d \in Deliveries, KillDelivery(d)
  PROVE  RideInv'
<1>0. BillingShape /\ RecordType /\ StripeType /\ OutboxType /\ FlightType /\ RecordOK  BY DEF RideInv, BillingShape
<1>e. PICK e : e = inFlight[d].event  OBVIOUS
<1>1. /\ tenant' = tenant /\ addon' = addon /\ stripeSubs' = stripeSubs /\ muddled' = muddled
      /\ inFlight' = [inFlight EXCEPT ![d] = Free] /\ inFlight[d] # Free
      /\ outbox' = IF e.kind = "disable" THEN outbox ELSE [outbox EXCEPT ![e.sub] = <<e>> \o outbox[e.sub]]
  BY <1>e DEF KillDelivery
<1>2. /\ FlightType'
      /\ \A t \in Subs : /\ Handling(t)' = Handling(t) \ {d}
                         /\ \A c \in Handling(t)' : inFlight'[c] = inFlight[c]
      /\ \A t \in Subs : d \notin Handling(t) => FlightKept(t)
  BY <1>0, <1>1, Landed
<1>3. \A t \in Subs : Released(t)' <=> Released(t)  BY <1>1 DEF Released
<1>4. CASE e.kind = "disable"
  <2>1. BillingShape'
    BY <1>0, <1>1, <1>2, <1>4 DEF BillingShape, RecordType, RecordOK, StripeType, OutboxType
  <2>2. \A t \in Subs : FlightKept(t)  BY <1>0, <1>2, <1>4, <1>e, Aboard
  <2>3. ASSUME NEW t \in Subs, InOrder(t)  PROVE InOrder(t)'
    BY <1>1, <1>3, <1>4, <2>2, <2>3, Apart DEF LeftAlone
  <2> QED  BY <1>1, <2>1, <2>3 DEF RideInv
<1>5. CASE e.kind # "disable"
  <2> DEFINE q == outbox[e.sub]
             r == <<e>> \o q
             n == Len(q)
  <2>1. /\ e.sub \in Subs /\ e \in EventsOf(e.sub) /\ \A t \in Subs : d \in Handling(t) <=> t = e.sub
    BY <1>0, <1>1, <1>5, <1>e, Aboard
  <2>2. q \in Seq(EventsOf(e.sub))  BY <1>0, <2>1 DEF OutboxType
  <2> HIDE DEF q
  <2>3. /\ r \in Seq(EventsOf(e.sub)) /\ r # <<>> /\ n \in Nat /\ Len(r) = n + 1
        /\ DOMAIN q = 1..n /\ DOMAIN r = 1..(n + 1) /\ r[1] = e
        /\ \A i \in 2..(n + 1) : i - 1 \in DOMAIN q /\ r[i] = q[i - 1]
    BY <2>1, <2>2, Prepended
  <2>4. outbox' = [outbox EXCEPT ![e.sub] = r]  BY <1>1, <1>5 DEF q
  <2> HIDE DEF r, n
  <2>5. OutboxType' /\ \A t \in Subs : outbox'[t] = IF t = e.sub THEN r ELSE outbox[t]
    BY <1>0, <2>1, <2>3, <2>4, Queued
  <2>6. BillingShape'
    BY <1>0, <1>1, <1>2, <2>5 DEF BillingShape, RecordType, RecordOK, StripeType
  <2>7. ASSUME NEW t \in Subs, InOrder(t), t # e.sub  PROVE InOrder(t)'
    BY <1>1, <1>2, <1>3, <2>1, <2>5, <2>7, Apart DEF LeftAlone
  <2>8. ASSUME InOrder(e.sub)  PROVE InOrder(e.sub)'
    <3> DEFINE s == e.sub
    <3>1. Handling(s)' = {} /\ d \in Handling(s) /\ \A c \in Handling(s) : c = d
      BY <1>2, <2>1, <2>8 DEF InOrder
    <3>2. ~Ending(s)'  BY <3>1 DEF Ending
    <3>3. EndIsLast(s)  BY <2>8 DEF InOrder
    <3>4. outbox'[s] = r /\ outbox[s] = q  BY <2>1, <2>5 DEF q
    <3>5. Ending(s) <=> e.kind = "deleted"  BY <3>1, <1>e DEF Ending
    <3>6. CASE stripeSubs[s].state = "none"  BY <3>1, <3>3, <3>6 DEF EndIsLast
    <3>7. CASE stripeSubs[s].state = "alive"
      <4>1. \A i \in DOMAIN r : r[i].kind # "deleted"
        <5>1. e.kind # "deleted" /\ \A i \in DOMAIN q : q[i].kind # "deleted"
          BY <3>3, <3>4, <3>5, <3>7 DEF EndIsLast
        <5>2. \A i \in DOMAIN r : i = 1 \/ i \in 2..(n + 1)  BY <2>3
        <5> QED  BY <5>1, <5>2, <2>3
      <4> QED  BY <1>1, <3>1, <3>2, <3>4, <3>7, <4>1 DEF InOrder, EndIsLast, Closed
    <3>8. CASE stripeSubs[s].state = "ended"
      <4>1. \A i \in DOMAIN r : r[i].kind = "deleted" <=> i = n + 1
        <5>1. CASE q = <<>>
          <6>1. e.kind = "deleted"  BY <3>1, <3>3, <3>4, <3>8, <5>1, <1>e DEF EndIsLast
          <6>2. n = 0  BY <5>1 DEF n
          <6> QED  BY <6>1, <6>2, <2>3
        <5>2. CASE q # <<>>
          <6>1. e.kind # "deleted" /\ \A i \in DOMAIN q : q[i].kind = "deleted" <=> i = n
            BY <3>3, <3>4, <3>5, <3>8, <5>2 DEF EndIsLast, n
          <6>2. n > 0  BY <2>2, <5>2, EmptySeq DEF n
          <6> QED  BY <6>1, <6>2, <2>3
        <5> QED  BY <5>1, <5>2
      <4>2. EndIsLast(s)'
        BY <1>1, <2>3, <3>1, <3>2, <3>4, <3>8, <4>1 DEF EndIsLast
      <4>3. ~Closed(s)'  BY <1>1, <2>3, <3>4, <3>8 DEF Closed
      <4> QED  BY <3>1, <4>2, <4>3 DEF InOrder
    <3>9. stripeSubs[s].state \in {"none", "alive", "ended"}  BY <1>0, <2>1 DEF StripeType
    <3> QED  BY <3>6, <3>7, <3>8, <3>9
  <2> QED  BY <1>1, <2>6, <2>7, <2>8 DEF RideInv
<1> QED  BY <1>4, <1>5

LEMMA RideReceive ==
  ASSUME RideInv, NEW d \in Deliveries, NEW s \in Subs, NEW i \in DOMAIN outbox[s], Receive(d, s, i)
  PROVE  RideInv'
<1>0. BillingShape /\ RecordType /\ StripeType /\ OutboxType /\ FlightType /\ RecordOK  BY DEF RideInv, BillingShape
<1>q. PICK q : q = outbox[s]  OBVIOUS
<1> DEFINE e == q[i]
           r == Without(q, i)
           n == Len(q)
<1>1. /\ tenant' = tenant /\ addon' = addon /\ stripeSubs' = stripeSubs
      /\ inFlight[d] = Free
      /\ outbox' = [outbox EXCEPT ![s] = r]
      /\ inFlight' = [inFlight EXCEPT ![d] = CHOOSE y \in Handled(e) \cup {Free} : Handled(e) # {} => y \in Handled(e)]
      /\ muddled' = IF i > 1 \/ Handling(s) # {} THEN muddled \cup {s} ELSE muddled
  BY <1>q DEF Receive, Without
<1>2. q \in Seq(EventsOf(s)) /\ i \in DOMAIN q  BY <1>0, <1>q DEF OutboxType
<1>3. /\ r \in Seq(EventsOf(s)) /\ q # <<>> /\ n \in Nat /\ Len(r) = n - 1
      /\ DOMAIN q = 1..n /\ DOMAIN r = 1..(n - 1)
      /\ i = 1 => \A j \in 1..(n - 1) : j + 1 \in DOMAIN q /\ r[j] = q[j + 1]
      /\ r = <<>> <=> n = 1
  BY <1>2, Removed
<1>4. e \in EventsOf(s)  BY <1>2, <1>3, ElementOfSeq
<1> HIDE DEF r, n, e
<1>5. PICK x \in Delivery :
        /\ x = CHOOSE y \in Handled(e) \cup {Free} : Handled(e) # {} => y \in Handled(e)
        /\ DeliveryOK(x)
        /\ \/ x = Free /\ Handled(e) = {}
           \/ x # Free /\ x \in Handled(e) /\ x.event = e /\ x.pc \in {"tenant", "enable", "cancel"}
  BY <1>0, <1>4, Chosen
<1>6. FlightType' /\ \A c \in Deliveries : inFlight'[c] = IF c = d THEN x ELSE inFlight[c]
  BY <1>0, <1>1, <1>5, Flown
<1>7. OutboxType' /\ \A t \in Subs : outbox'[t] = IF t = s THEN r ELSE outbox[t]
  BY <1>0, <1>1, <1>3, Queued
<1>8. BillingShape'
  BY <1>0, <1>1, <1>6, <1>7 DEF BillingShape, RecordType, RecordOK, StripeType
<1>9. \A t \in Subs : (Released(t)' <=> Released(t)) /\ d \notin Handling(t)
  BY <1>0, <1>1, Aboard DEF Released
<1>10. e.sub = s /\ e.kind \in {"checkout", "updated", "deleted"} /\ NoSub \notin Subs
  BY <1>0, <1>4, Aboard DEF EventsOf
<1>11. ASSUME NEW t \in Subs, InOrder(t), t # s  PROVE InOrder(t)'
  <2>1. x.event.sub # t  BY <1>5, <1>10, <1>11 DEF Free, NoEvent
  <2>2. FlightKept(t)  BY <1>0, <1>6, <1>9, <2>1, FlightApart
  <2> QED  BY <1>1, <1>7, <1>9, <1>11, <2>2, Apart DEF LeftAlone
<1>12. ASSUME s \notin muddled', InOrder(s)  PROVE InOrder(s)'
  <2>1. i = 1 /\ Handling(s) = {}  BY <1>1, <1>2, <1>3, <1>12
  <2>2. \A c \in Deliveries : c \in Handling(s)' <=> c = d /\ x # Free
    <3>1. \A c \in Deliveries : c # d => (c \in Handling(s)' <=> c \in Handling(s))
      BY <1>6 DEF Handling
    <3>2. d \in Handling(s)' <=> x # Free  BY <1>5, <1>6, <1>10 DEF Handling, Free, NoEvent
    <3> QED  BY <2>1, <3>1, <3>2
  <2>3. \A c \in Handling(s)' : c = d /\ x # Free /\ inFlight'[c] = x /\ x.event = e
    BY <1>5, <1>6, <2>2 DEF Handling
  <2>4. EndIsLast(s) /\ stripeSubs[s].state \in {"none", "alive", "ended"} /\ outbox[s] = q /\ outbox'[s] = r
    BY <1>0, <1>12, <1>7, <1>q DEF InOrder, StripeType
  <2>5. CASE stripeSubs[s].state = "none"  BY <1>3, <2>4, <2>5 DEF EndIsLast
  <2>6. CASE stripeSubs[s].state = "alive"
    <3>1. \A j \in DOMAIN q : q[j].kind # "deleted"  BY <2>4, <2>6 DEF EndIsLast
    <3>2. e.kind # "deleted"  BY <1>2, <3>1 DEF e
    <3>3. \A j \in DOMAIN r : r[j].kind # "deleted"  BY <1>3, <2>1, <3>1
    <3>4. ~Ending(s)'  BY <2>3, <3>2 DEF Ending
    <3> QED  BY <1>1, <2>3, <2>4, <2>6, <3>3, <3>4 DEF InOrder, EndIsLast, Closed
  <2>7. CASE stripeSubs[s].state = "ended"
    <3>1. \A j \in DOMAIN q : q[j].kind = "deleted" <=> j = n  BY <1>3, <2>4, <2>7 DEF EndIsLast, n
    <3>2. e.kind = "deleted" <=> n = 1  BY <1>2, <2>1, <3>1 DEF e
    <3>3. r # <<>> => ~Ending(s)'  BY <1>3, <2>3, <3>2 DEF Ending
    <3>4. \A j \in DOMAIN r : r[j].kind = "deleted" <=> j = n - 1
      <4>1. \A j \in DOMAIN r : j \in Int /\ j + 1 \in DOMAIN q /\ r[j] = q[j + 1]  BY <1>3, <2>1
      <4>2. \A j \in DOMAIN r : j + 1 = n <=> j = n - 1  BY <1>3, <4>1
      <4> QED  BY <3>1, <4>1, <4>2
    <3>5. r = <<>> => \A c \in Handling(s)' : inFlight'[c].event.kind = "deleted"
      BY <1>3, <2>3, <3>2
    <3>6. EndIsLast(s)'
      BY <1>1, <1>3, <2>4, <2>7, <3>3, <3>4, <3>5 DEF EndIsLast
    <3>7. Closed(s)' => Released(s)
      <4>1. SUFFICES ASSUME Closed(s)'  PROVE Released(s)
        OBVIOUS
      <4>2. r = <<>> /\ \A c \in Handling(s)' : inFlight'[c].pc = "answer"
        BY <1>1, <2>4, <2>7, <4>1 DEF Closed
      <4>3. Handled(e) = {} /\ e.kind = "deleted"
        BY <1>3, <1>5, <1>6, <2>2, <3>2, <4>2 DEF Handling
      <4>4. CASE s \in PlanSubs
        <5>1. tenant.plan = "starter" \/ tenant.sub # s
          BY <4>3, <4>4, <1>10, BillingAssumption DEF Handled, PlanDeleted
        <5>2. addon.status # "active" \/ addon.sub # s
          BY <1>0, <4>4, BillingAssumption DEF RecordOK
        <5> QED  BY <5>1, <5>2 DEF Released
      <4>5. CASE s \in AddonSubs
        <5>1. addon.status # "active"
          BY <4>3, <4>5, <1>10, BillingAssumption DEF Handled, AddonDeleted
        <5>2. tenant.plan = "starter" \/ tenant.sub # s
          BY <1>0, <4>5, BillingAssumption DEF RecordOK
        <5> QED  BY <5>1, <5>2 DEF Released
      <4> QED  BY <4>4, <4>5 DEF Subs
    <3> QED  BY <1>9, <2>3, <3>6, <3>7 DEF InOrder
  <2> QED  BY <2>4, <2>5, <2>6, <2>7
<1>13. \A t \in Subs : t \in muddled => t \in muddled'  BY <1>1
<1> QED  BY <1>8, <1>11, <1>12, <1>13 DEF RideInv

LEMMA RideInit == ASSUME BillingInit  PROVE RideInv
<1>1. "starter" \in Plans /\ NoSub \notin Subs  BY BillingAssumption DEF Subs
<1>2. RecordType /\ RecordOK  BY <1>1 DEF BillingInit, RecordType, RecordOK
<1>3. StripeType  BY <1>1 DEF BillingInit, StripeType
<1>4. OutboxType /\ \A s \in Subs : outbox[s] = <<>>  BY DEF BillingInit, OutboxType
<1>5. FlightType
  <2>1. Free \in Delivery /\ DeliveryOK(Free)
    BY <1>1 DEF Free, NoEvent, Delivery, DeliveryOK
  <2> QED  BY <2>1 DEF BillingInit, FlightType
<1>6. \A s \in Subs : Handling(s) = {} /\ stripeSubs[s].state = "none"
  BY <1>1 DEF BillingInit, Handling, Free, NoEvent
<1>7. \A s \in Subs : Released(s)  BY <1>1 DEF BillingInit, Released
<1>8. \A s \in Subs : InOrder(s)  BY <1>4, <1>6, <1>7 DEF InOrder, EndIsLast
<1> QED  BY <1>2, <1>3, <1>4, <1>5, <1>8 DEF RideInv, BillingShape

LEMMA RideStutters == ASSUME RideInv, UNCHANGED billingVars  PROVE RideInv'
<1>1. /\ tenant' = tenant /\ addon' = addon /\ stripeSubs' = stripeSubs /\ outbox' = outbox
      /\ inFlight' = inFlight /\ muddled' = muddled
  BY DEF billingVars
<1>2. BillingShape'
  BY <1>1 DEF RideInv, BillingShape, RecordType, RecordOK, StripeType, OutboxType, FlightType
<1>3. \A t \in Subs : Handling(t)' = Handling(t)  BY <1>1 DEF Handling
<1>4. ASSUME NEW t \in Subs, InOrder(t)  PROVE InOrder(t)'
  BY <1>1, <1>3, <1>4, Apart DEF LeftAlone, FlightKept, Released
<1> QED  BY <1>1, <1>2, <1>4 DEF RideInv

LEMMA RideNext == ASSUME RideInv, [BillingNext]_billingVars  PROVE RideInv'
<1>1. ASSUME NEW s \in Subs, EndSubscription(s)  PROVE RideInv'  BY <1>1, RideEnd
<1>2. ASSUME NEW s \in Subs, NEW p \in Plans, Buy(s, p) \/ ChangePrice(s, p)  PROVE RideInv'
  BY <1>2, RideBuy
<1>3. ASSUME NEW d \in Deliveries, NEW s \in Subs, NEW i \in DOMAIN outbox[s], Receive(d, s, i)
      PROVE  RideInv'
  BY <1>3, RideReceive
<1>4. ASSUME NEW d \in Deliveries, WriteTenant(d)  PROVE RideInv'  BY <1>4, RideWriteTenant
<1>5. ASSUME NEW d \in Deliveries, WriteAddon(d)  PROVE RideInv'  BY <1>5, RideWriteAddon
<1>6. ASSUME NEW d \in Deliveries, WriteFails(d)  PROVE RideInv'  BY <1>6, RideWriteFails
<1>7. ASSUME NEW d \in Deliveries, Answer(d) \/ CancelRefused(d)  PROVE RideInv'  BY <1>7, RideAnswer
<1>8. ASSUME NEW d \in Deliveries, Disable(d)  PROVE RideInv'  BY <1>8, RideDisable
<1>9. ASSUME NEW d \in Deliveries, CancelAtStripe(d)  PROVE RideInv'  BY <1>9, RideCancelAtStripe
<1>10. ASSUME NEW d \in Deliveries, KillDelivery(d)  PROVE RideInv'  BY <1>10, RideKill
<1> QED
  BY <1>1, <1>2, <1>3, <1>4, <1>5, <1>6, <1>7, <1>8, <1>9, <1>10, RideStutters DEF BillingNext

(* What is in order backs the record that names it.                        *)
LEMMA RideIsBacked == ASSUME RideInv  PROVE NoFreeRide
<1>0. BillingShape /\ RecordOK /\ StripeType /\ OutboxType  BY DEF RideInv, BillingShape
<1>1. ASSUME NEW s \in Subs, ~Released(s)  PROVE Backed(s)
  <2>1. CASE s \in muddled  BY <2>1 DEF Backed
  <2>2. CASE InOrder(s) /\ s \notin muddled
    <3>1. ~Closed(s) /\ EndIsLast(s)  BY <1>1, <2>2 DEF InOrder
    <3>2. CASE stripeSubs[s].state = "alive"  BY <3>2 DEF Backed, Alive
    <3>3. CASE stripeSubs[s].state = "ended" /\ outbox[s] = <<>>
      BY <3>1, <3>3 DEF Closed, EndIsLast, Backed, EndOutstanding
    <3>4. CASE stripeSubs[s].state = "ended" /\ outbox[s] # <<>>
      <4>1. Len(outbox[s]) \in DOMAIN outbox[s]
        <5>1. outbox[s] \in Seq(EventsOf(s))  BY <1>0 DEF OutboxType
        <5>2. Len(outbox[s]) \in Nat \ {0} /\ DOMAIN outbox[s] = 1..Len(outbox[s])
          BY <5>1, <3>4, EmptySeq, LenProperties
        <5> QED  BY <5>2
      <4>2. outbox[s][Len(outbox[s])].kind = "deleted"  BY <3>1, <3>4, <4>1 DEF EndIsLast
      <4> QED  BY <4>1, <4>2 DEF Backed, EndOutstanding
    <3> QED  BY <1>0, <3>1, <3>2, <3>3, <3>4 DEF StripeType, Closed
  <2> QED  BY <2>1, <2>2 DEF RideInv
<1>2. tenant.plan # "starter" => tenant.sub \in Subs /\ ~Released(tenant.sub)
  BY <1>0 DEF RecordOK, Released, Subs
<1>3. addon.status = "active" => addon.sub \in Subs /\ ~Released(addon.sub)
  BY <1>0 DEF RecordOK, Released, Subs
<1> QED  BY <1>1, <1>2, <1>3 DEF NoFreeRide

(* For any subscriptions and deliveries: nobody keeps a paid plan or the add-on
   for a subscription that ended, whatever the order in which the events of
   different subscriptions are handled, killed and handled again (the handlers
   of route.ts and disableAddonAction). *)
THEOREM RidesArePaid == BillingSpec => []NoFreeRide
<1>1. BillingInit => RideInv  BY RideInit
<1>2. RideInv /\ [BillingNext]_billingVars => RideInv'  BY RideNext
<1>3. RideInv => NoFreeRide  BY RideIsBacked
<1> QED  BY <1>1, <1>2, <1>3, PTL DEF BillingSpec

-----------------------------------------------------------------------------
(* Until plan subscriptions live at a time or their events overlap, the plan
   subscription that lives is the only one whose events may still change the
   tenant, once its checkout was received; then it is on record, or about to
   be, and its last event carries its price. *)
OutOfCheckout(s) == \A i \in DOMAIN outbox[s] : outbox[s][i].kind # "checkout"
Owes(s, kinds) == \E d \in Handling(s) : inFlight[d].pc = "tenant" /\ inFlight[d].event.kind \in kinds
Alone(s) == \A t \in PlanSubs \ {s} : ~Unread(t) /\ Handling(t) = {}

CheckoutFirst(s) == \A i \in DOMAIN outbox[s] : outbox[s][i].kind = "checkout" => i = 1 /\ Handling(s) = {}
LastPrice(s) == outbox[s] # <<>> => outbox[s][Len(outbox[s])].plan = stripeSubs[s].plan
OnRecord(s) == OutOfCheckout(s) => Alone(s) /\ (tenant.sub = s \/ Owes(s, {"checkout"}))
Priced(s) ==
  outbox[s] = <<>> =>
    /\ \A d \in Handling(s) : inFlight[d].event.plan = stripeSubs[s].plan
    /\ tenant.plan = stripeSubs[s].plan \/ Owes(s, {"checkout", "updated"})

Settled(s) ==
  /\ \A t \in PlanSubs : Alive(t) => t = s
  /\ CheckoutFirst(s) /\ LastPrice(s) /\ OnRecord(s) /\ Priced(s)

FollowInv == doubled \/ muddled # {} \/ \A s \in PlanSubs : Alive(s) => Settled(s)

(* A step about something else leaves the plan subscriptions settled.      *)
LEMMA SettledApart ==
  ASSUME NEW s \in PlanSubs, Settled(s), tenant' = tenant, stripeSubs'[s] = stripeSubs[s],
         \A t \in PlanSubs : Alive(t)' => Alive(t),
         \A t \in PlanSubs : outbox'[t] = outbox[t] /\ FlightKept(t)
  PROVE  Settled(s)'
<1>1. \A t \in PlanSubs : /\ outbox'[t] = outbox[t] /\ Handling(t)' = Handling(t)
                          /\ \A c \in Handling(t) : inFlight'[c] = inFlight[c]
  BY DEF FlightKept
<1>2. OutOfCheckout(s)' <=> OutOfCheckout(s)  BY <1>1 DEF OutOfCheckout
<1>3. \A k : Owes(s, k)' <=> Owes(s, k)  BY <1>1 DEF Owes
<1>4. Alone(s)' <=> Alone(s)  BY <1>1 DEF Alone, Unread
<1>5. CheckoutFirst(s)' /\ LastPrice(s)'  BY <1>1 DEF Settled, CheckoutFirst, LastPrice
<1>6. OnRecord(s)'  BY <1>2, <1>3, <1>4 DEF Settled, OnRecord
<1>7. Priced(s)'  BY <1>1, <1>3 DEF Settled, Priced
<1>8. \A t \in PlanSubs : Alive(t)' => t = s  BY DEF Settled
<1> QED  BY <1>5, <1>6, <1>7, <1>8 DEF Settled

(* What is known of a plan subscription while the invariants bind.         *)
LEMMA Bound ==
  ASSUME RideInv, FollowInv, ~doubled, muddled = {}, NEW s \in PlanSubs
  PROVE  /\ s \in Subs /\ BillingShape /\ InOrder(s) /\ EndIsLast(s)
         /\ outbox[s] \in Seq(EventsOf(s))
         /\ Alive(s) => Settled(s)
         /\ \A t \in PlanSubs : Alive(s) /\ Alive(t) => t = s
<1>1. s \in Subs /\ BillingShape /\ InOrder(s) /\ EndIsLast(s)  BY DEF RideInv, Subs, InOrder
<1>2. outbox[s] \in Seq(EventsOf(s))  BY <1>1 DEF BillingShape, OutboxType
<1>3. Alive(s) => Settled(s)  BY DEF FollowInv
<1> QED  BY <1>1, <1>2, <1>3 DEF Settled

LEMMA FollowBuy ==
  ASSUME RideInv, FollowInv, ~doubled', muddled' = {}, NEW r \in Subs, NEW p \in Plans, Buy(r, p)
  PROVE  FollowInv'
<1>1. /\ ~doubled /\ muddled = {} /\ tenant' = tenant /\ inFlight' = inFlight
      /\ r \in PlanSubs => \A t \in PlanSubs : ~Alive(t)
      /\ stripeSubs[r].state = "none" /\ stripeSubs' = [stripeSubs EXCEPT ![r] = [state |-> "alive", plan |-> p]]
      /\ outbox' = [outbox EXCEPT ![r] = Append(outbox[r], Event("checkout", r, p))]
  BY DEF Buy, Emit, Event
<1>2. /\ BillingShape /\ InOrder(r) /\ EndIsLast(r) /\ OutboxType /\ StripeType
  BY <1>1 DEF RideInv, InOrder, BillingShape
<1>3. outbox[r] = <<>> /\ Handling(r) = {}  BY <1>1, <1>2 DEF EndIsLast
<1>4. outbox'[r] = <<Event("checkout", r, p)>> /\ \A t \in Subs \ {r} : outbox'[t] = outbox[t]
  BY <1>1, <1>2, <1>3 DEF OutboxType
<1>5. stripeSubs'[r].plan = p /\ \A t \in Subs \ {r} : stripeSubs'[t] = stripeSubs[t]
  BY <1>1, <1>2 DEF StripeType
<1>6. \A t \in Subs : Handling(t)' = Handling(t) /\ FlightKept(t)  BY <1>1 DEF Handling, FlightKept
<1>7. ASSUME NEW s \in PlanSubs, Alive(s)'  PROVE Settled(s)'
  <2>1. CASE s = r
    <3>1. \A t \in PlanSubs : Alive(t)' => t = s  BY <1>1, <1>5, <2>1 DEF Alive, Subs
    <3>2. CheckoutFirst(s)'  BY <1>3, <1>4, <1>6, <2>1 DEF CheckoutFirst
    <3>3. LastPrice(s)'  BY <1>4, <1>5, <2>1 DEF LastPrice, Event
    <3>4. ~OutOfCheckout(s)' /\ outbox'[s] # <<>>  BY <1>4, <2>1 DEF OutOfCheckout, Event
    <3> QED  BY <3>1, <3>2, <3>3, <3>4 DEF Settled, OnRecord, Priced
  <2>2. CASE s # r
    <3>1. Alive(s) /\ r \notin PlanSubs  BY <1>1, <1>5, <1>7, <2>2 DEF Alive, Subs
    <3>2. Settled(s)  BY <1>1, <3>1, Bound
    <3>3. \A t \in PlanSubs : t \in Subs /\ t # r  BY <3>1 DEF Subs
    <3>4. \A t \in PlanSubs : stripeSubs'[t] = stripeSubs[t] /\ outbox'[t] = outbox[t] /\ FlightKept(t)
      BY <1>4, <1>5, <1>6, <3>3
    <3>5. \A t \in PlanSubs : Alive(t)' => Alive(t)  BY <3>4 DEF Alive
    <3> QED  BY <1>1, <3>2, <3>4, <3>5, SettledApart
  <2> QED  BY <2>1, <2>2
<1> QED  BY <1>7 DEF FollowInv

LEMMA FollowChangePrice ==
  ASSUME RideInv, FollowInv, ~doubled', muddled' = {}, NEW r \in Subs, NEW p \in Plans, ChangePrice(r, p)
  PROVE  FollowInv'
<1> DEFINE q == outbox[r]
           e == Event("updated", r, p)
           n == Len(q)
<1>1. /\ ~doubled /\ muddled = {} /\ tenant' = tenant /\ inFlight' = inFlight
      /\ r \in PlanSubs /\ Alive(r) /\ stripeSubs' = [stripeSubs EXCEPT ![r].plan = p]
      /\ outbox' = [outbox EXCEPT ![r] = Append(q, e)]
  BY DEF ChangePrice, Emit, Event
<1>2. /\ BillingShape /\ OutboxType /\ StripeType /\ Settled(r) /\ q \in Seq(EventsOf(r)) /\ e \in EventsOf(r)
      /\ \A t \in PlanSubs : Alive(t) => t = r
  <2>1. BillingShape /\ Settled(r) /\ q \in Seq(EventsOf(r)) /\ \A t \in PlanSubs : Alive(t) => t = r
    BY <1>1, Bound
  <2>2. e \in EventsOf(r)  BY <1>1 DEF EventsOf, Event
  <2> QED  BY <2>1, <2>2 DEF BillingShape
<1>3. e.kind = "updated" /\ e.plan = p  BY DEF Event
<1> HIDE DEF e
<1>4. /\ Append(q, e) # <<>> /\ Len(q) \in Nat /\ Len(Append(q, e)) = Len(q) + 1
      /\ DOMAIN q = 1..Len(q) /\ DOMAIN Append(q, e) = 1..(Len(q) + 1)
      /\ \A i \in DOMAIN q : Append(q, e)[i] = q[i]
      /\ Append(q, e)[Len(q) + 1] = e
  BY <1>2, Enqueued
<1>5. outbox'[r] = Append(q, e) /\ \A t \in PlanSubs \ {r} : outbox'[t] = outbox[t]
  BY <1>1, <1>2 DEF OutboxType, Subs
<1>6. /\ stripeSubs'[r].plan = p /\ \A t \in PlanSubs : stripeSubs'[t].state = stripeSubs[t].state
  BY <1>1, <1>2 DEF StripeType, Subs
<1>7. \A t \in PlanSubs : Handling(t)' = Handling(t)  BY <1>1 DEF Handling
<1>8. \A t \in PlanSubs : Alive(t)' => t = r  BY <1>2, <1>6 DEF Alive
<1>9. Settled(r)'
  <2>0. \A i \in DOMAIN outbox'[r] : (i \in DOMAIN q /\ outbox'[r][i] = q[i]) \/ outbox'[r][i].kind = "updated"
    <3>1. \A i \in DOMAIN outbox'[r] : i \in DOMAIN q \/ i = Len(q) + 1  BY <1>4, <1>5
    <3> QED  BY <1>3, <1>4, <1>5, <3>1
  <2>1. CheckoutFirst(r)'
    <3>1. \A i \in DOMAIN outbox[r] : outbox[r][i].kind = "checkout" => i = 1 /\ Handling(r) = {}
      BY <1>2 DEF Settled, CheckoutFirst
    <3>2. ASSUME NEW i \in DOMAIN outbox'[r], outbox'[r][i].kind = "checkout"
          PROVE  i = 1 /\ Handling(r)' = {}
      BY <1>1, <1>7, <2>0, <3>1, <3>2
    <3> QED  BY <3>2 DEF CheckoutFirst
  <2>2. LastPrice(r)'  BY <1>3, <1>4, <1>5, <1>6 DEF LastPrice
  <2>3. OutOfCheckout(r)' => OutOfCheckout(r)
    BY <1>4, <1>5 DEF OutOfCheckout
  <2>4. Alone(r) => Alone(r)'  BY <1>5, <1>7 DEF Alone, Unread
  <2>5. Owes(r, {"checkout"})' <=> Owes(r, {"checkout"})  BY <1>1, <1>7 DEF Owes
  <2>6. OnRecord(r)'  BY <1>1, <1>2, <2>3, <2>4, <2>5 DEF Settled, OnRecord
  <2>7. Priced(r)'  BY <1>4, <1>5 DEF Priced
  <2> QED  BY <1>8, <2>1, <2>2, <2>6, <2>7 DEF Settled
<1> QED  BY <1>8, <1>9 DEF FollowInv

LEMMA FollowApart ==
  ASSUME RideInv, FollowInv, doubled => doubled', muddled # {} => muddled' # {}, tenant' = tenant,
         \A t \in PlanSubs : stripeSubs'[t] = stripeSubs[t] /\ outbox'[t] = outbox[t] /\ FlightKept(t)
  PROVE  FollowInv'
<1>1. SUFFICES ASSUME ~doubled', muddled' = {}, NEW s \in PlanSubs, Alive(s)'  PROVE Settled(s)'
  BY DEF FollowInv
<1>2. \A t \in PlanSubs : Alive(t)' => Alive(t)  BY DEF Alive
<1>3. Settled(s)  BY <1>1, <1>2, Bound
<1> QED  BY <1>2, <1>3, SettledApart

LEMMA FollowEnd ==
  ASSUME RideInv, FollowInv, NEW r \in Subs, EndSubscription(r)
  PROVE  FollowInv'
<1>0. StripeType /\ OutboxType  BY DEF RideInv, BillingShape
<1>1. /\ doubled' = doubled /\ muddled' = muddled /\ tenant' = tenant /\ inFlight' = inFlight
      /\ Alive(r) /\ stripeSubs' = [stripeSubs EXCEPT ![r].state = "ended"]
  BY DEF EndSubscription
<1>2. CASE r \in PlanSubs
  <2>1. SUFFICES ASSUME ~doubled, muddled = {}, NEW s \in PlanSubs, Alive(s)'  PROVE FALSE
    BY <1>1 DEF FollowInv
  <2>2. s # r /\ Alive(s)  BY <1>0, <1>1, <1>2, <2>1 DEF Alive, StripeType, Subs
  <2> QED  BY <1>1, <1>2, <2>1, <2>2, Bound
<1>3. CASE r \notin PlanSubs
  <2>1. outbox' = [outbox EXCEPT ![r] = Append(@, Event("deleted", r, stripeSubs[r].plan))]
    BY DEF EndSubscription, Emit, Event
  <2>2. \A t \in PlanSubs : t # r /\ t \in Subs  BY <1>3 DEF Subs
  <2>3. \A t \in PlanSubs : stripeSubs'[t] = stripeSubs[t] /\ outbox'[t] = outbox[t]
    BY <1>0, <1>1, <2>1, <2>2 DEF StripeType, OutboxType
  <2>4. \A t \in PlanSubs : FlightKept(t)  BY <1>1 DEF FlightKept, Handling
  <2> QED  BY <1>1, <2>3, <2>4, FollowApart
<1> QED  BY <1>2, <1>3

LEMMA FollowCancelAtStripe ==
  ASSUME RideInv, FollowInv, NEW d \in Deliveries, CancelAtStripe(d)
  PROVE  FollowInv'
<1>0. StripeType /\ OutboxType /\ BillingShape  BY DEF RideInv, BillingShape
<1>r. PICK r : r = inFlight[d].event.sub  OBVIOUS
<1>1. /\ doubled' = doubled /\ muddled' = muddled /\ tenant' = tenant
      /\ inFlight[d].pc = "stripe" /\ inFlight' = [inFlight EXCEPT ![d].pc = "cancel"]
      /\ stripeSubs' = [stripeSubs EXCEPT ![r].state = "ended"]
      /\ outbox' = [outbox EXCEPT ![r] = Append(@, Event("deleted", r, "starter"))]
  BY <1>r DEF CancelAtStripe, Emit, Event
<1>2. inFlight[d].event.kind = "disable" /\ r \in AddonSubs
  BY <1>0, <1>1, <1>r, Aboard DEF DeliveryOK, EventsOf
<1>3. \A t \in PlanSubs : t # r /\ t \in Subs  BY <1>2, BillingAssumption DEF Subs
<1>4. \A t \in PlanSubs : stripeSubs'[t] = stripeSubs[t] /\ outbox'[t] = outbox[t]
  BY <1>0, <1>1, <1>3 DEF StripeType, OutboxType
<1>5. \A c \in Deliveries : inFlight'[c].event = inFlight[c].event /\ (c # d => inFlight'[c] = inFlight[c])
  BY <1>0, <1>1 DEF BillingShape, FlightType, Delivery
<1>6. ASSUME NEW t \in PlanSubs  PROVE FlightKept(t)
  <2>1. \A c \in Deliveries : (c \in Handling(t)' <=> c \in Handling(t)) /\ (c \in Handling(t) => c # d)
    BY <1>2, <1>5 DEF Handling
  <2>2. Handling(t)' = Handling(t)  BY <2>1 DEF Handling
  <2> QED  BY <1>5, <2>1, <2>2 DEF FlightKept, Handling
<1> QED  BY <1>1, <1>4, <1>6, FollowApart

LEMMA FollowWriteTenant ==
  ASSUME RideInv, FollowInv, NEW d \in Deliveries, WriteTenant(d)
  PROVE  FollowInv'
<1>0. BillingShape /\ RecordType  BY DEF RideInv, BillingShape
<1>e. PICK e : e = inFlight[d].event  OBVIOUS
<1>1. /\ doubled' = doubled /\ muddled' = muddled /\ stripeSubs' = stripeSubs /\ outbox' = outbox
      /\ inFlight[d].pc = "tenant" /\ inFlight' = [inFlight EXCEPT ![d].pc = "answer"]
      /\ tenant' = [plan |-> inFlight[d].plan,
                    sub |-> IF inFlight[d].sub = NoSub THEN tenant.sub ELSE inFlight[d].sub]
  BY DEF WriteTenant
<1>2. SameFlights /\ inFlight'[d].pc = "answer" /\ \A c \in Deliveries : c # d => inFlight'[c] = inFlight[c]
  BY <1>0, <1>1, Answering
<1>3. /\ e.sub \in PlanSubs /\ d \in Handling(e.sub) /\ NoSub \notin PlanSubs
      /\ e.kind # "deleted" => inFlight[d].sub = e.sub /\ inFlight[d].plan = e.plan
  <2>1. /\ DeliveryOK(inFlight[d]) /\ e.sub \in PlanSubs /\ e.sub \in Subs /\ e.kind # "disable"
        /\ NoSub \notin PlanSubs
    BY <1>0, <1>1, <1>e, Aboard DEF DeliveryOK, Subs
  <2> QED  BY <1>1, <1>e, <2>1 DEF DeliveryOK, Handling
<1>4. SUFFICES ASSUME ~doubled, muddled = {}, NEW s \in PlanSubs, Alive(s)  PROVE Settled(s)'
  BY <1>1 DEF FollowInv, Alive
<1>5. Settled(s) /\ EndIsLast(s) /\ s \in Subs  BY <1>4, Bound
<1>6. \A t \in PlanSubs : Handling(t)' = Handling(t) /\ \A c \in Handling(t) : inFlight'[c].event = inFlight[c].event
  BY <1>2 DEF SameFlights, Subs
<1>7. (\A t \in PlanSubs : Alive(t)' => t = s) /\ CheckoutFirst(s)' /\ LastPrice(s)'
  BY <1>1, <1>5, <1>6 DEF Settled, CheckoutFirst, LastPrice, Alive
<1>8. (OutOfCheckout(s)' <=> OutOfCheckout(s)) /\ (Alone(s)' <=> Alone(s))
  BY <1>1, <1>6 DEF OutOfCheckout, Alone, Unread
<1>9. CASE e.sub = s
  <2>1. e.kind # "deleted"  BY <1>3, <1>4, <1>5, <1>9, <1>e DEF EndIsLast, Ending, Alive
  <2>2. tenant'.sub = s /\ tenant'.plan = e.plan  BY <1>1, <1>3, <1>9, <2>1
  <2>3. OnRecord(s)'  BY <1>5, <1>8, <2>2 DEF Settled, OnRecord
  <2>4. Priced(s)'
    <3>1. outbox[s] = <<>> => \A c \in Handling(s) : inFlight[c].event.plan = stripeSubs[s].plan
      BY <1>5 DEF Settled, Priced
    <3>2. outbox[s] = <<>> => e.plan = stripeSubs[s].plan  BY <1>3, <1>9, <1>e, <3>1
    <3> QED  BY <1>1, <1>6, <2>2, <3>1, <3>2 DEF Priced
  <2> QED  BY <1>7, <2>3, <2>4 DEF Settled
<1>10. CASE e.sub # s
  <2>1. ~OutOfCheckout(s)  BY <1>3, <1>5, <1>10 DEF Settled, OnRecord, Alone
  <2>2. outbox'[s] # <<>>  BY <1>1, <2>1 DEF OutOfCheckout
  <2> QED  BY <1>7, <1>8, <2>1, <2>2 DEF Settled, OnRecord, Priced
<1> QED  BY <1>9, <1>10

LEMMA FollowWriteElse ==
  ASSUME RideInv, FollowInv, NEW d \in Deliveries, WriteAddon(d) \/ WriteFails(d)
  PROVE  FollowInv'
<1>0. BillingShape  BY DEF RideInv
<1>1. /\ doubled' = doubled /\ tenant' = tenant /\ stripeSubs' = stripeSubs /\ outbox' = outbox
      /\ inFlight[d].pc # "free" /\ inFlight' = [inFlight EXCEPT ![d].pc = "answer"]
      /\ \/ inFlight[d].pc \in {"enable", "cancel"} /\ muddled' = muddled
         \/ inFlight[d].event.kind = "disable" /\ muddled' = muddled
         \/ muddled' = muddled \cup {inFlight[d].event.sub}
  BY DEF WriteAddon, WriteFails
<1>2. SameFlights /\ \A c \in Deliveries : c # d => inFlight'[c] = inFlight[c]
  BY <1>0, <1>1, Answering
<1>3. CASE muddled' = muddled \cup {inFlight[d].event.sub}  BY <1>3 DEF FollowInv
<1>4. CASE muddled' = muddled /\ (inFlight[d].pc \in {"enable", "cancel"} \/ inFlight[d].event.kind = "disable")
  <2>1. inFlight[d].event.kind = "disable" \/ inFlight[d].event.sub \in AddonSubs
    BY <1>0, <1>4, Aboard DEF DeliveryOK
  <2>2. \A t \in PlanSubs : d \notin Handling(t)  BY <2>1, BillingAssumption DEF Handling
  <2>3. \A t \in PlanSubs : FlightKept(t)
    BY <1>2, <2>2 DEF SameFlights, FlightKept, Handling, Subs
  <2> QED  BY <1>1, <1>4, <2>3, FollowApart
<1> QED  BY <1>1, <1>3, <1>4

LEMMA FollowAnswer ==
  ASSUME RideInv, FollowInv, NEW d \in Deliveries, Answer(d) \/ CancelRefused(d)
  PROVE  FollowInv'
<1>0. BillingShape  BY DEF RideInv
<1>1. /\ doubled' = doubled /\ muddled' = muddled /\ tenant' = tenant /\ stripeSubs' = stripeSubs
      /\ outbox' = outbox /\ inFlight' = [inFlight EXCEPT ![d] = Free] /\ inFlight[d].pc # "tenant"
  BY DEF Answer, CancelRefused
<1>2. \A t \in PlanSubs : /\ Handling(t)' = Handling(t) \ {d}
                          /\ \A c \in Handling(t)' : inFlight'[c] = inFlight[c]
  BY <1>0, <1>1, Landed DEF Subs
<1>3. SUFFICES ASSUME ~doubled, muddled = {}, NEW s \in PlanSubs, Alive(s)  PROVE Settled(s)'
  BY <1>1 DEF FollowInv, Alive
<1>4. Settled(s)  BY <1>3, Bound
<1>5. (\A t \in PlanSubs : Alive(t)' => t = s) /\ CheckoutFirst(s)' /\ LastPrice(s)'
  BY <1>1, <1>2, <1>4 DEF Settled, CheckoutFirst, LastPrice, Alive
<1>6. (OutOfCheckout(s)' <=> OutOfCheckout(s)) /\ (Alone(s) => Alone(s)')
  BY <1>1, <1>2 DEF OutOfCheckout, Alone, Unread
<1>7. \A k : Owes(s, k) => Owes(s, k)'
  BY <1>1, <1>2 DEF Owes
<1>8. OnRecord(s)'  BY <1>1, <1>4, <1>6, <1>7 DEF Settled, OnRecord
<1>9. Priced(s)'  BY <1>1, <1>2, <1>4, <1>7 DEF Settled, Priced
<1> QED  BY <1>5, <1>8, <1>9 DEF Settled

LEMMA FollowDisable ==
  ASSUME RideInv, FollowInv, NEW d \in Deliveries, Disable(d)
  PROVE  FollowInv'
<1>0. BillingShape /\ FlightType  BY DEF RideInv, BillingShape
<1> DEFINE x == [event |-> Event("disable", addon.sub, "starter"), pc |-> "stripe", plan |-> "starter", sub |-> NoSub]
<1>1. /\ doubled' = doubled /\ muddled' = muddled /\ tenant' = tenant /\ stripeSubs' = stripeSubs
      /\ outbox' = outbox /\ inFlight' = [inFlight EXCEPT ![d] = x] /\ inFlight[d] = Free
  BY DEF Disable
<1>2. x.event.kind = "disable"  BY DEF Event
<1> HIDE DEF x
<1>3. \A c \in Deliveries : inFlight'[c] = IF c = d THEN x ELSE inFlight[c]  BY <1>0, <1>1 DEF FlightType
<1>4. \A t \in PlanSubs : t \in Subs /\ d \notin Handling(t)  BY <1>0, <1>1, Aboard DEF Subs
<1>5. \A t \in PlanSubs : FlightKept(t)  BY <1>0, <1>2, <1>3, <1>4, FlightApart
<1> QED  BY <1>1, <1>5, FollowApart

LEMMA FollowKill ==
  ASSUME RideInv, FollowInv, NEW d \in Deliveries, KillDelivery(d)
  PROVE  FollowInv'
<1>0. BillingShape /\ OutboxType  BY DEF RideInv, BillingShape
<1>e. PICK e : e = inFlight[d].event  OBVIOUS
<1> DEFINE q == outbox[e.sub]
           r == <<e>> \o q
<1>1. /\ doubled' = doubled /\ muddled' = muddled /\ tenant' = tenant /\ stripeSubs' = stripeSubs
      /\ inFlight' = [inFlight EXCEPT ![d] = Free] /\ inFlight[d] # Free
      /\ outbox' = IF e.kind = "disable" THEN outbox ELSE [outbox EXCEPT ![e.sub] = r]
  BY <1>e DEF KillDelivery
<1>2. \A t \in Subs : /\ Handling(t)' = Handling(t) \ {d}
                      /\ \A c \in Handling(t)' : inFlight'[c] = inFlight[c]
                      /\ d \notin Handling(t) => FlightKept(t)
  BY <1>0, <1>1, Landed
<1>3. CASE e.kind = "disable" \/ e.sub \notin PlanSubs
  <2>1. \A t \in PlanSubs : t \in Subs /\ outbox'[t] = outbox[t]  BY <1>0, <1>1, <1>3 DEF OutboxType, Subs
  <2>2. \A t \in PlanSubs : d \notin Handling(t)  BY <1>3, <1>e DEF Handling
  <2> QED  BY <1>1, <1>2, <2>1, <2>2, FollowApart
<1>4. CASE e.kind # "disable" /\ e.sub \in PlanSubs
  <2>1. SUFFICES ASSUME ~doubled, muddled = {}, NEW s \in PlanSubs, Alive(s)  PROVE Settled(s)'
    BY <1>1 DEF FollowInv, Alive
  <2>2. /\ Settled(s) /\ s \in Subs /\ EndIsLast(s) /\ InOrder(e.sub)
        /\ q \in Seq(EventsOf(e.sub)) /\ e \in EventsOf(e.sub) /\ d \in Handling(e.sub)
    BY <1>0, <1>1, <1>4, <1>e, <2>1, Bound, Aboard
  <2>3. \A t \in PlanSubs : Alive(t)' => t = s  BY <1>1, <2>2 DEF Settled, Alive
  <2>4. CASE e.sub # s
    <3>1. outbox'[s] = outbox[s]  BY <1>0, <1>1, <1>4, <2>2, <2>4 DEF OutboxType
    <3>2. ~OutOfCheckout(s)  BY <1>4, <2>2, <2>4 DEF Settled, OnRecord, Alone
    <3>3. ~OutOfCheckout(s)' /\ outbox'[s] # <<>>  BY <3>1, <3>2 DEF OutOfCheckout
    <3>4. CheckoutFirst(s)' /\ LastPrice(s)'
      BY <1>1, <1>2, <2>2, <3>1 DEF Settled, CheckoutFirst, LastPrice
    <3> QED  BY <2>3, <3>3, <3>4 DEF Settled, OnRecord, Priced
  <2>5. CASE e.sub = s
    <3>1. /\ r \in Seq(EventsOf(s)) /\ r # <<>> /\ Len(q) \in Nat /\ Len(r) = Len(q) + 1
          /\ DOMAIN q = 1..Len(q) /\ DOMAIN r = 1..(Len(q) + 1) /\ r[1] = e
          /\ \A i \in 2..(Len(q) + 1) : i - 1 \in DOMAIN q /\ r[i] = q[i - 1]
      BY <2>2, <2>5, Prepended
    <3>2. outbox'[s] = r /\ outbox[s] = q  BY <1>0, <1>1, <1>4, <2>2, <2>5 DEF OutboxType
    <3> HIDE DEF q, r
    <3>3. Handling(s)' = {}  BY <1>2, <2>2, <2>5 DEF InOrder
    <3>4. \A i \in DOMAIN q : q[i].kind # "checkout"
      BY <2>2, <2>5, <3>2 DEF Settled, CheckoutFirst
    <3>5. CheckoutFirst(s)'
      <4>1. \A i \in DOMAIN r : i = 1 \/ i \in 2..(Len(q) + 1)  BY <3>1
      <4> QED  BY <3>1, <3>2, <3>3, <3>4, <4>1 DEF CheckoutFirst
    <3>6. LastPrice(s)'
      <4>1. CASE q = <<>>
        <5>1. e.plan = stripeSubs[s].plan
          BY <2>2, <2>5, <3>2, <4>1, <1>e DEF Settled, Priced
        <5>2. Len(r) = 1  BY <3>1, <4>1
        <5> QED  BY <1>1, <3>1, <3>2, <5>1, <5>2 DEF LastPrice
      <4>2. CASE q # <<>>
        <5>1. q[Len(q)].plan = stripeSubs[s].plan  BY <2>2, <3>2, <4>2 DEF Settled, LastPrice
        <5>2. Len(q) > 0  BY <2>2, <4>2, EmptySeq
        <5>3. r[Len(r)] = q[Len(q)]  BY <3>1, <5>2
        <5> QED  BY <1>1, <3>2, <5>1, <5>3 DEF LastPrice
      <4> QED  BY <4>1, <4>2
    <3>7. OutOfCheckout(s)' => e.kind # "checkout" /\ OutOfCheckout(s)
      BY <3>1, <3>2, <3>4 DEF OutOfCheckout
    <3>8. Alone(s) => Alone(s)'
      <4>1. \A t \in PlanSubs \ {s} : t \in Subs /\ outbox'[t] = outbox[t]
        BY <1>0, <1>1, <1>4, <2>5 DEF OutboxType, Subs
      <4> QED  BY <1>2, <4>1 DEF Alone, Unread
    <3>9. Owes(s, {"checkout"}) => e.kind = "checkout"
      BY <1>e, <2>2, <2>5 DEF InOrder, Owes
    <3>10. OnRecord(s)'  BY <1>1, <2>2, <3>7, <3>8, <3>9 DEF Settled, OnRecord
    <3>11. Priced(s)'  BY <3>1, <3>2 DEF Priced
    <3> QED  BY <2>3, <3>5, <3>6, <3>10, <3>11 DEF Settled
  <2> QED  BY <2>4, <2>5
<1> QED  BY <1>3, <1>4

LEMMA FollowReceive ==
  ASSUME RideInv, FollowInv, NEW d \in Deliveries, NEW p \in Subs, NEW i \in DOMAIN outbox[p], Receive(d, p, i)
  PROVE  FollowInv'
<1>0. BillingShape /\ OutboxType /\ FlightType /\ StripeType  BY DEF RideInv, BillingShape
<1>q. PICK q : q = outbox[p]  OBVIOUS
<1> DEFINE e == q[i]
           r == Without(q, i)
           n == Len(q)
<1>1. /\ tenant' = tenant /\ stripeSubs' = stripeSubs /\ inFlight[d] = Free
      /\ outbox' = [outbox EXCEPT ![p] = r]
      /\ inFlight' = [inFlight EXCEPT ![d] = CHOOSE y \in Handled(e) \cup {Free} : Handled(e) # {} => y \in Handled(e)]
      /\ muddled' = IF i > 1 \/ Handling(p) # {} THEN muddled \cup {p} ELSE muddled
      /\ doubled' = (doubled \/ (p \in PlanSubs /\ \E t \in PlanSubs : Handling(t) # {} \/ (t # p /\ Unread(t))))
  BY <1>q DEF Receive, Without
<1>2. q \in Seq(EventsOf(p)) /\ i \in DOMAIN q  BY <1>0, <1>q DEF OutboxType
<1>3. /\ r \in Seq(EventsOf(p)) /\ q # <<>> /\ n \in Nat /\ Len(r) = n - 1
      /\ DOMAIN q = 1..n /\ DOMAIN r = 1..(n - 1)
      /\ i = 1 => \A j \in 1..(n - 1) : j + 1 \in DOMAIN q /\ r[j] = q[j + 1]
      /\ r = <<>> <=> n = 1
  BY <1>2, Removed
<1>4. e \in EventsOf(p)  BY <1>2, <1>3, ElementOfSeq
<1> HIDE DEF r, n, e
<1>5. PICK x \in Delivery :
        /\ x = CHOOSE y \in Handled(e) \cup {Free} : Handled(e) # {} => y \in Handled(e)
        /\ DeliveryOK(x)
        /\ \/ x = Free /\ Handled(e) = {}
           \/ x # Free /\ x \in Handled(e) /\ x.event = e /\ x.pc \in {"tenant", "enable", "cancel"}
  BY <1>0, <1>4, Chosen
<1>6. \A c \in Deliveries : inFlight'[c] = IF c = d THEN x ELSE inFlight[c]
  BY <1>0, <1>1, <1>5, Flown
<1>7. \A t \in Subs : outbox'[t] = IF t = p THEN r ELSE outbox[t]
  BY <1>0, <1>1 DEF OutboxType
<1>8. e.sub = p /\ e.kind \in {"checkout", "updated", "deleted"} /\ e.plan \in Plans /\ NoSub \notin Subs
  BY <1>0, <1>4, Aboard DEF EventsOf
<1>9. \A t \in Subs : t # p => FlightKept(t)
  <2>1. x.event.sub = p \/ x.event.sub = NoSub  BY <1>5, <1>8 DEF Free, NoEvent
  <2>2. \A t \in Subs : d \notin Handling(t)  BY <1>0, <1>1, Aboard
  <2> QED  BY <1>0, <1>6, <1>8, <2>1, <2>2, FlightApart
<1>10. CASE p \notin PlanSubs
  <2>1. \A t \in PlanSubs : t \in Subs /\ t # p  BY <1>10 DEF Subs
  <2>2. \A t \in PlanSubs : stripeSubs'[t] = stripeSubs[t] /\ outbox'[t] = outbox[t] /\ FlightKept(t)
    BY <1>1, <1>7, <1>9, <2>1
  <2> QED  BY <1>1, <2>2, FollowApart
<1>11. CASE p \in PlanSubs
  <2>1. SUFFICES ASSUME ~doubled', muddled' = {}, NEW s \in PlanSubs, Alive(s)  PROVE Settled(s)'
    BY <1>1 DEF FollowInv, Alive
  <2>2. /\ ~doubled /\ muddled = {} /\ i = 1
        /\ \A t \in PlanSubs : Handling(t) = {} /\ (t # p => ~Unread(t))
    <3>1. ~doubled /\ \A t \in PlanSubs : Handling(t) = {} /\ (t # p => ~Unread(t))
      BY <1>1, <1>11, <2>1
    <3>2. muddled = {} /\ ~(i > 1)
      <4>1. ~(i > 1 \/ Handling(p) # {})
        BY <1>1, <2>1
      <4> QED  BY <1>1, <2>1, <4>1
    <3> QED  BY <1>2, <1>3, <3>1, <3>2
  <2>3. Settled(s) /\ s \in Subs /\ EndIsLast(s)  BY <2>1, <2>2, Bound
  <2>4. \A t \in PlanSubs : Alive(t)' => t = s  BY <1>1, <2>3 DEF Settled, Alive
  <2>5. \A t \in PlanSubs \ {p} : t \in Subs /\ outbox'[t] = outbox[t] /\ Handling(t)' = {}
    <3>1. \A t \in PlanSubs \ {p} : t \in Subs /\ t # p  BY DEF Subs
    <3> QED  BY <1>7, <1>9, <2>2, <3>1 DEF FlightKept
  <2>6. \A c \in Handling(p)' : c = d /\ inFlight'[c] = x /\ x # Free /\ x.event = e
    <3>1. \A c \in Deliveries : c # d => c \notin Handling(p)'
      BY <1>6, <1>11, <2>2 DEF Handling
    <3>2. x = Free => d \notin Handling(p)'  BY <1>6, <1>8 DEF Handling, Free, NoEvent
    <3>3. \A c \in Handling(p)' : c = d /\ c \in Deliveries  BY <3>1 DEF Handling
    <3> QED  BY <1>5, <1>6, <3>2, <3>3
  <2>7. x # Free => d \in Handling(p)' /\ inFlight'[d] = x
    BY <1>5, <1>6, <1>8 DEF Handling
  <2>8. x # Free => x.pc = "tenant"
    <3>1. x # Free => x \in PlanCheckout(e) \/ x \in PlanUpdated(e) \/ x \in PlanDeleted(e)
      BY <1>5, <1>8, <1>11, BillingAssumption DEF Handled
    <3> QED  BY <3>1 DEF PlanCheckout, PlanUpdated, PlanDeleted
  <2>9. CASE s # p
    <3>1. \A j \in DOMAIN outbox[s] : FALSE
      <4>1. ~Unread(s)  BY <2>2, <2>9
      <4>2. \A j \in DOMAIN outbox[s] : outbox[s][j].kind = "deleted"  BY <4>1 DEF Unread
      <4>3. \A j \in DOMAIN outbox[s] : outbox[s][j].kind # "deleted"  BY <2>1, <2>3 DEF EndIsLast, Alive
      <4> QED  BY <4>2, <4>3
    <3>2. outbox[s] = <<>>
      <4>1. outbox[s] \in Seq(EventsOf(s))  BY <1>0, <2>3 DEF OutboxType
      <4>2. outbox[s] # <<>> => Len(outbox[s]) \in Nat \ {0}  BY <4>1, EmptySeq
      <4>3. DOMAIN outbox[s] = 1..Len(outbox[s])  BY <4>1, LenProperties
      <4>4. outbox[s] # <<>> => 1 \in DOMAIN outbox[s]  BY <4>2, <4>3
      <4> QED  BY <3>1, <4>4
    <3>3. /\ OutOfCheckout(s) /\ OutOfCheckout(s)' /\ outbox'[s] = <<>>
          /\ Alone(s) /\ tenant.sub = s /\ tenant.plan = stripeSubs[s].plan
      BY <2>2, <2>3, <2>5, <2>9, <3>1, <3>2 DEF OutOfCheckout, Settled, OnRecord, Priced, Owes
    <3>4. e.kind = "deleted"
      <4>1. ~Unread(p)  BY <1>11, <2>9, <3>3 DEF Alone
      <4> QED  BY <1>2, <1>q, <4>1 DEF Unread, e
    <3>5. Handled(e) = {} /\ x = Free
      BY <1>5, <1>8, <1>11, <2>9, <3>3, <3>4, BillingAssumption DEF Handled, PlanDeleted
    <3>6. Handling(p)' = {}  BY <2>6, <3>5
    <3>7. ~Unread(p)'
      <4>1. ~Unread(p)  BY <1>11, <2>9, <3>3 DEF Alone
      <4>2. \A j \in DOMAIN r : \E k \in DOMAIN q : r[j] = q[k]  BY <1>3, <2>2
      <4>3. \A j \in DOMAIN r : r[j].kind = "deleted"  BY <1>q, <4>1, <4>2 DEF Unread
      <4> QED  BY <1>7, <4>3 DEF Unread
    <3>8. Alone(s)'
      <4>1. \A t \in PlanSubs \ {s} : ~Unread(t)' /\ Handling(t)' = {}
        BY <2>2, <2>5, <3>6, <3>7 DEF Unread
      <4> QED  BY <4>1 DEF Alone
    <3>9. Handling(s)' = {}  BY <2>5, <2>9
    <3> QED
      BY <1>1, <2>4, <3>3, <3>8, <3>9 DEF Settled, CheckoutFirst, LastPrice, OnRecord, Priced
  <2>10. CASE s = p
    <3>1. outbox'[s] = r /\ outbox[s] = q  BY <1>7, <1>q, <2>3, <2>10
    <3>2. \A j \in DOMAIN r : r[j].kind # "checkout"
      <4>1. \A j \in DOMAIN q : q[j].kind = "checkout" => j = 1
        BY <2>3, <3>1 DEF Settled, CheckoutFirst
      <4>2. \A j \in DOMAIN r : j + 1 \in DOMAIN q /\ r[j] = q[j + 1] /\ j + 1 # 1  BY <1>3, <2>2
      <4> QED  BY <4>1, <4>2
    <3>3. CheckoutFirst(s)'  BY <3>1, <3>2 DEF CheckoutFirst
    <3>4. q[n].plan = stripeSubs[s].plan
      BY <1>3, <2>3, <3>1 DEF Settled, LastPrice, n
    <3>5. LastPrice(s)'
      <4>1. SUFFICES ASSUME r # <<>>  PROVE r[Len(r)].plan = stripeSubs[s].plan
        BY <1>1, <3>1 DEF LastPrice
      <4>2. n > 1  BY <1>2, <1>3, <4>1
      <4>3. r[n - 1] = q[n]
        <5>1. n - 1 \in 1..(n - 1) /\ (n - 1) + 1 = n  BY <1>3, <4>2
        <5> QED  BY <1>3, <2>2, <5>1
      <4> QED  BY <1>3, <3>4, <4>3
    <3>6. Alone(s)'
      <4>1. \A t \in PlanSubs \ {s} : ~Unread(t)' /\ Handling(t)' = {}
        BY <2>2, <2>5, <2>10 DEF Unread
      <4> QED  BY <4>1 DEF Alone
    <3>7. e.kind # "deleted"
      BY <1>2, <2>1, <2>3, <3>1 DEF EndIsLast, Alive, e
    <3>8. x = Free => \/ e.kind = "checkout" /\ tenant = [plan |-> e.plan, sub |-> e.sub]
                      \/ e.kind = "updated" /\ tenant.plan = e.plan
      <4>1. x = Free => Handled(e) = {}  BY <1>5
      <4>2. \/ e.kind = "checkout" /\ Handled(e) = PlanCheckout(e)
            \/ e.kind = "updated" /\ Handled(e) = PlanUpdated(e)
        BY <1>8, <1>11, <3>7, BillingAssumption DEF Handled
      <4> QED  BY <4>1, <4>2 DEF PlanCheckout, PlanUpdated
    <3>9. x # Free => Owes(s, {e.kind})'
      BY <1>5, <2>7, <2>8, <2>10 DEF Owes
    <3>10. OnRecord(s)'
      <4>1. CASE e.kind = "checkout"
        BY <1>1, <1>8, <2>10, <3>6, <3>8, <3>9, <4>1 DEF OnRecord
      <4>2. CASE e.kind # "checkout"
        <5>1. OutOfCheckout(s)
          <6>1. \A j \in DOMAIN q : j = 1 \/ q[j].kind # "checkout"
            BY <2>3, <3>1 DEF Settled, CheckoutFirst
          <6>2. q[1].kind # "checkout"  BY <2>2, <4>2 DEF e
          <6> QED  BY <3>1, <6>1, <6>2 DEF OutOfCheckout
        <5>2. tenant.sub = s  BY <2>2, <2>3, <5>1 DEF Settled, OnRecord, Owes
        <5> QED  BY <1>1, <3>6, <5>2 DEF OnRecord
      <4> QED  BY <4>1, <4>2
    <3>11. Priced(s)'
      <4>1. SUFFICES ASSUME r = <<>>
                     PROVE  /\ \A c \in Handling(s)' : inFlight'[c].event.plan = stripeSubs[s].plan
                            /\ tenant.plan = stripeSubs[s].plan \/ Owes(s, {"checkout", "updated"})'
        BY <1>1, <3>1 DEF Priced
      <4>2. e.plan = stripeSubs[s].plan  BY <1>3, <2>2, <3>4, <4>1 DEF e
      <4>3. \A c \in Handling(s)' : inFlight'[c].event.plan = stripeSubs[s].plan  BY <2>6, <2>10, <4>2
      <4>4. x = Free => tenant.plan = stripeSubs[s].plan  BY <3>8, <4>2
      <4>5. x # Free => Owes(s, {"checkout", "updated"})'
        BY <1>8, <3>7, <3>9 DEF Owes
      <4> QED  BY <4>3, <4>4, <4>5
    <3> QED  BY <2>4, <3>3, <3>5, <3>10, <3>11 DEF Settled
  <2> QED  BY <2>9, <2>10
<1> QED  BY <1>10, <1>11

LEMMA FollowNext == ASSUME RideInv, FollowInv, [BillingNext]_billingVars  PROVE FollowInv'
<1>1. ASSUME NEW s \in Subs, EndSubscription(s)  PROVE FollowInv'  BY <1>1, FollowEnd
<1>2. ASSUME NEW s \in Subs, NEW p \in Plans, Buy(s, p) \/ ChangePrice(s, p)  PROVE FollowInv'
  BY <1>2, FollowBuy, FollowChangePrice DEF FollowInv
<1>3. ASSUME NEW d \in Deliveries, NEW s \in Subs, NEW i \in DOMAIN outbox[s], Receive(d, s, i)
      PROVE  FollowInv'
  BY <1>3, FollowReceive
<1>4. ASSUME NEW d \in Deliveries, WriteTenant(d)  PROVE FollowInv'  BY <1>4, FollowWriteTenant
<1>5. ASSUME NEW d \in Deliveries, WriteAddon(d) \/ WriteFails(d)  PROVE FollowInv'
  BY <1>5, FollowWriteElse
<1>6. ASSUME NEW d \in Deliveries, Answer(d) \/ CancelRefused(d)  PROVE FollowInv'  BY <1>6, FollowAnswer
<1>7. ASSUME NEW d \in Deliveries, Disable(d)  PROVE FollowInv'  BY <1>7, FollowDisable
<1>8. ASSUME NEW d \in Deliveries, CancelAtStripe(d)  PROVE FollowInv'  BY <1>8, FollowCancelAtStripe
<1>9. ASSUME NEW d \in Deliveries, KillDelivery(d)  PROVE FollowInv'  BY <1>9, FollowKill
<1>10. ASSUME UNCHANGED billingVars  PROVE FollowInv'
  <2>1. \A t \in PlanSubs : stripeSubs'[t] = stripeSubs[t] /\ outbox'[t] = outbox[t] /\ FlightKept(t)
    BY <1>10 DEF billingVars, FlightKept, Handling
  <2> QED  BY <1>10, <2>1, FollowApart DEF billingVars
<1> QED  BY <1>1, <1>2, <1>3, <1>4, <1>5, <1>6, <1>7, <1>8, <1>9, <1>10 DEF BillingNext

(* Once nothing is under way, what is settled is on record.                *)
LEMMA SettledIsFollowed == ASSUME RideInv, FollowInv  PROVE PlanFollowsSubscription
<1>1. SUFFICES ASSUME Quiet, ~doubled, muddled = {}, NEW s \in PlanSubs, Alive(s)
               PROVE  tenant = [plan |-> stripeSubs[s].plan, sub |-> s]
  BY DEF PlanFollowsSubscription
<1>2. Settled(s) /\ RecordType /\ outbox[s] = <<>> /\ NoSub \notin Subs /\ s \in Subs
  BY <1>1, Bound, BillingAssumption DEF RideInv, BillingShape, Quiet, Subs
<1>3. Handling(s) = {}  BY <1>1, <1>2 DEF Quiet, Handling, Free, NoEvent
<1>4. tenant.sub = s /\ tenant.plan = stripeSubs[s].plan
  BY <1>2, <1>3 DEF Settled, OnRecord, OutOfCheckout, Priced, Owes
<1> QED  BY <1>2, <1>4 DEF RecordType

(* For any plan subscriptions, plans and deliveries in flight: once all events
   are handled, a plan subscription that lives is on record with its price,
   however late the end of an earlier one arrives (onSubscriptionDeleted). *)
THEOREM PlanIsFollowed == BillingSpec => []PlanFollowsSubscription
<1>1. BillingInit => RideInv /\ FollowInv
  <2>1. BillingInit => FollowInv
    BY DEF BillingInit, FollowInv, Alive, Subs
  <2> QED  BY <2>1, RideInit
<1>2. RideInv /\ FollowInv /\ [BillingNext]_billingVars => (RideInv /\ FollowInv)'
  BY RideNext, FollowNext
<1>3. RideInv /\ FollowInv => PlanFollowsSubscription  BY SettledIsFollowed
<1> QED  BY <1>1, <1>2, <1>3, PTL DEF BillingSpec

-----------------------------------------------------------------------------
(* Storefront: the rows, and what the requests hold of them.               *)
OrderStates == {"pending_payment", "paid", "accepted", "preparing", "ready", "completed", "cancelled"}
TableStates == {"requested", "confirmed", "seated", "completed", "cancelled", "no_show"}
Order == [status : OrderStates, pay : {"pending", "paid", "simulated"}]
Seen == [status : OrderStates \cup TableStates \cup {"none"}, pay : {"pending", "paid", "simulated", "none"}]
Visit ==
  [pc : {"away", "checkout", "payment", "advance"}, row : Orders \cup Tables \cup {NoRow},
   seen : Seen, to : OrderStates \cup TableStates \cup {"none"}]

VisitOK(x) ==
  /\ x.pc \in {"checkout", "payment"} => x.row \in Orders
  /\ x.pc = "advance" =>
       \/ /\ x.row \in Orders /\ orders[x.row] \in Order
          /\ x.seen \in Order /\ x.to \in OrderTransitions[x.seen.status]
       \/ /\ x.row \in Tables /\ tables[x.row] \in TableStates
          /\ x.seen.status \in TableStates /\ x.to \in BookingTransitions[x.seen.status]

StoreShape ==
  /\ orders \in [Orders -> Order \cup {NoOrder}]
  /\ charge \in [Orders -> {"none", "open", "charged", "answered", "refused"}]
  /\ tables \in [Tables -> TableStates \cup {"none"}]
  /\ visits \in [Visits -> Visit] /\ \A v \in Visits : VisitOK(visits[v])

LEMMA StoreTables ==
  /\ DOMAIN OrderTransitions = OrderStates /\ DOMAIN BookingTransitions = TableStates
  /\ \A s \in OrderStates : OrderTransitions[s] \subseteq OrderStates
  /\ \A s \in TableStates : BookingTransitions[s] \subseteq TableStates
  /\ Away \in Visit /\ Away.pc = "away" /\ Away.row = NoRow
  /\ Order \subseteq Seen /\ NoOrder \in Seen
  /\ \A x \in Order : x # NoOrder
  /\ "none" \notin TableStates
BY StoreAssumption DEF OrderTransitions, BookingTransitions, OrderStates, TableStates, Away, Visit, NoOrder,
   Order, Seen

(* Only one request moves, and only one row.                               *)
LEMMA StoreShapeInit == StoreInit => StoreShape
BY StoreTables DEF StoreInit, StoreShape, VisitOK

LEMMA Arrives ==
  ASSUME StoreShape, NEW v \in Visits,
         orders' = orders, tables' = tables,
         charge' \in [Orders -> {"none", "open", "charged", "answered", "refused"}],
         visits' \in [Visits -> Visit], VisitOK(visits'[v]), \A u \in Visits \ {v} : visits'[u] = visits[u]
  PROVE  StoreShape'
<1>1. \A u \in Visits : VisitOK(visits'[u])  BY DEF StoreShape
<1>2. \A u \in Visits : VisitOK(visits[u])'
  BY <1>1 DEF VisitOK
<1> QED  BY <1>2 DEF StoreShape

LEMMA Leaves ==
  ASSUME StoreShape, NEW v \in Visits, Leave(v),
         charge' \in [Orders -> {"none", "open", "charged", "answered", "refused"}],
         orders' \in [Orders -> Order \cup {NoOrder}], \A o \in Orders : orders[o] \in Order => orders'[o] \in Order,
         tables' \in [Tables -> TableStates \cup {"none"}],
         \A t \in Tables : tables[t] \in TableStates => tables'[t] \in TableStates
  PROVE  /\ StoreShape'
         /\ visits'[v] = Away /\ \A u \in Visits \ {v} : visits'[u] = visits[u]
<1>1. visits' \in [Visits -> Visit] /\ visits'[v] = Away /\ \A u \in Visits \ {v} : visits'[u] = visits[u]
  BY StoreTables DEF Leave, StoreShape
<1>2. \A u \in Visits : VisitOK(visits[u])'
  <2> TAKE u \in Visits
  <2>1. CASE u = v  BY <1>1, <2>1, StoreTables DEF VisitOK
  <2>2. CASE u # v  BY <1>1, <2>2 DEF StoreShape, VisitOK
  <2> QED  BY <2>1, <2>2
<1> QED  BY <1>1, <1>2 DEF StoreShape

LEMMA StoreShapeKept == StoreShape /\ [StoreNext]_storeVars => StoreShape'
<1> SUFFICES ASSUME StoreShape, [StoreNext]_storeVars  PROVE StoreShape'
  OBVIOUS
<1>1. CASE UNCHANGED storeVars
  BY <1>1 DEF storeVars, StoreShape, VisitOK
<1>2. ASSUME NEW o \in Orders, GuestPays(o)  PROVE StoreShape'
  BY <1>2 DEF GuestPays, StoreShape, VisitOK
<1>3. ASSUME NEW v \in Visits, VisitStep(v) \/ KillVisit(v) \/ PaymentThrows(v)  PROVE StoreShape'
  <2>0. VisitOK(visits[v]) /\ visits[v] \in Visit  BY DEF StoreShape
  <2>1. CASE OpenCheckout(v)
    BY <2>0, <2>1, Leaves DEF OpenCheckout, StoreShape, VisitOK, VisitAt
  <2>2. CASE SimulatePayment(v)
    BY <2>0, <2>2, Leaves DEF SimulatePayment, StoreShape, VisitOK, VisitAt, Order, OrderStates
  <2>3. CASE RecordPayment(v)
    BY <2>0, <2>3, Leaves DEF RecordPayment, StoreShape, VisitOK, VisitAt, Order, OrderStates
  <2>4. CASE WriteOrder(v)
    <3>1. visits[v].to \in OrderStates /\ orders[visits[v].row] \in Order
      BY <2>0, <2>4, StoreAssumption, StoreTables DEF WriteOrder, VisitOK, VisitAt, Order
    <3> QED  BY <2>4, <3>1, Leaves DEF WriteOrder, StoreShape, Order
  <2>5. CASE WriteReservation(v)
    <3>1. visits[v].to \in TableStates
      BY <2>0, <2>5, StoreAssumption, StoreTables DEF WriteReservation, VisitOK, VisitAt
    <3> QED  BY <2>5, <3>1, Leaves DEF WriteReservation, StoreShape
  <2>7. CASE KillVisit(v)
    BY <2>7, Leaves DEF KillVisit, StoreShape
  <2>8. CASE PaymentThrows(v)
    BY <2>0, <2>8, Leaves DEF PaymentThrows, StoreShape, VisitOK, VisitAt
  <2> QED  BY <1>3, <2>1, <2>2, <2>3, <2>4, <2>5, <2>7, <2>8 DEF VisitStep
<1>4. ASSUME NEW v \in Visits, NEW o \in Orders, PlaceOrder(v, o)  PROVE StoreShape'
  <2>1. /\ orders' \in [Orders -> Order \cup {NoOrder}] /\ orders'[o] \in Order
        /\ \A p \in Orders : orders[p] \in Order => orders'[p] \in Order
    BY <1>4 DEF PlaceOrder, StoreShape, Order, OrderStates
  <2>2. /\ visits' \in [Visits -> Visit] /\ visits'[v].pc = "checkout" /\ visits'[v].row = o
        /\ \A u \in Visits \ {v} : visits'[u] = visits[u]
    <3>1. Stay(v, "checkout", o) /\ visits \in [Visits -> Visit]  BY <1>4 DEF PlaceOrder, StoreShape
    <3> QED  BY <3>1 DEF Stay, Visit
  <2>3. \A u \in Visits : VisitOK(visits[u])'
    <3> TAKE u \in Visits
    <3>1. CASE u = v  BY <1>4, <2>2, <3>1 DEF VisitOK
    <3>2. CASE u # v
      <4>1. VisitOK(visits[u]) /\ visits'[u] = visits[u]  BY <2>2, <3>2 DEF StoreShape
      <4> QED  BY <1>4, <2>1, <4>1 DEF PlaceOrder, VisitOK
    <3> QED  BY <3>1, <3>2
  <2> QED  BY <1>4, <2>1, <2>2, <2>3 DEF PlaceOrder, StoreShape
<1>5. ASSUME NEW v \in Visits, NEW o \in Orders, OrderPaid(v, o)  PROVE StoreShape'
  <2>1. CASE orders[o].pay = "paid"
    BY <1>5, <2>1 DEF OrderPaid, StoreShape, VisitOK
  <2>2. CASE orders[o].pay # "paid"
    <3>1. /\ visits' \in [Visits -> Visit] /\ visits'[v].pc = "payment" /\ visits'[v].row = o
          /\ \A u \in Visits \ {v} : visits'[u] = visits[u]
      BY <1>5, <2>2 DEF OrderPaid, StoreShape, Visit
    <3>2. VisitOK(visits'[v])  BY <3>1 DEF VisitOK
    <3> QED  BY <1>5, <2>2, <3>1, <3>2, Arrives DEF OrderPaid, StoreShape
  <2> QED  BY <2>1, <2>2
<1>6. ASSUME NEW v \in Visits, NEW o \in Orders, NEW to \in DOMAIN OrderTransitions, AdvanceOrder(v, o, to)
      PROVE  StoreShape'
  <2>1. /\ visits' \in [Visits -> Visit] /\ visits'[v].pc = "advance" /\ visits'[v].row = o
        /\ visits'[v].seen = orders[o] /\ visits'[v].to = to
        /\ \A u \in Visits \ {v} : visits'[u] = visits[u]
    BY <1>6, StoreTables DEF AdvanceOrder, StoreShape, Visit
  <2>2. orders[o] \in Order /\ to \in OrderTransitions[orders[o].status]
    BY <1>6 DEF AdvanceOrder, StoreShape
  <2>3. VisitOK(visits'[v])  BY <2>1, <2>2 DEF VisitOK
  <2> QED  BY <1>6, <2>1, <2>3, Arrives DEF AdvanceOrder, StoreShape
<1>7. ASSUME NEW t \in Tables, NEW status \in {"requested", "confirmed"}, RequestReservation(t, status)
      PROVE  StoreShape'
  <2>1. /\ tables' \in [Tables -> TableStates \cup {"none"}]
        /\ \A u \in Tables : tables[u] \in TableStates => tables'[u] \in TableStates
    BY <1>7 DEF RequestReservation, StoreShape, TableStates
  <2>2. \A u \in Visits : VisitOK(visits[u])'
    BY <1>7, <2>1 DEF RequestReservation, StoreShape, VisitOK
  <2> QED  BY <1>7, <2>1, <2>2 DEF RequestReservation, StoreShape
<1>8. ASSUME NEW v \in Visits, NEW t \in Tables, NEW to \in DOMAIN BookingTransitions,
             AdvanceReservation(v, t, to)
      PROVE  StoreShape'
  <2>0. tables[t] \in TableStates /\ to \in BookingTransitions[tables[t]]
    BY <1>8 DEF AdvanceReservation, StoreShape
  <2>1. /\ visits' \in [Visits -> Visit] /\ visits'[v].pc = "advance" /\ visits'[v].row = t
        /\ visits'[v].to = to /\ visits'[v].seen.status = tables[t]
        /\ \A u \in Visits \ {v} : visits'[u] = visits[u]
    <3>1. [status |-> tables[t], pay |-> "none"] \in Seen  BY <2>0 DEF Seen
    <3>2. /\ visits \in [Visits -> Visit] /\ to \in TableStates
          /\ visits' = [visits EXCEPT ![v] = [pc |-> "advance", row |-> t, to |-> to,
                                              seen |-> [status |-> tables[t], pay |-> "none"]]]
      BY <1>8, StoreTables DEF AdvanceReservation, StoreShape
    <3> QED  BY <3>1, <3>2 DEF Visit
  <2>3. VisitOK(visits'[v])  BY <2>0, <2>1 DEF VisitOK
  <2> QED  BY <1>8, <2>1, <2>3, Arrives DEF AdvanceReservation, StoreShape
<1> QED  BY <1>1, <1>2, <1>3, <1>4, <1>5, <1>6, <1>7, <1>8 DEF StoreNext

-----------------------------------------------------------------------------
(* One request opens an order's checkout, before any charge, while its payment
   is pending; a charge means that it is pending or recorded; and who is about
   to record one read it as pending. *)
OneCheckout ==
  \A v \in Visits : visits[v].pc = "checkout" =>
     /\ orders[visits[v].row].pay = "pending" /\ charge[visits[v].row] = "none"
     /\ \A u \in Visits \ {v} : visits[u].pc = "checkout" => visits[u].row # visits[v].row
ChargedIsPending == \A o \in Orders : charge[o] # "none" => orders[o].pay \in {"pending", "paid"}
PaidOnPending ==
  \A v \in Visits : visits[v].pc = "payment" => visits[v].seen.pay = "pending" /\ charge[visits[v].row] # "none"

OrdersInv == StoreShape /\ OneCheckout /\ ChargedIsPending /\ PaidOnPending

LEMMA OrdersInvInit == StoreInit => OrdersInv
BY StoreShapeInit DEF StoreInit, OrdersInv, OneCheckout, ChargedIsPending, PaidOnPending, Away

(* What the steps that end a request leave of it.                          *)
LEMMA Left ==
  ASSUME StoreShape, NEW v \in Visits, Leave(v)
  PROVE  visits'[v].pc = "away" /\ \A u \in Visits \ {v} : visits'[u] = visits[u]
BY DEF Leave, StoreShape, Away

LEMMA OrdersInvKept == OrdersInv /\ [StoreNext]_storeVars => OrdersInv'
<1> SUFFICES ASSUME OrdersInv, [StoreNext]_storeVars  PROVE OrdersInv'
  OBVIOUS
<1>0. StoreShape /\ StoreShape'  BY StoreShapeKept DEF OrdersInv
<1> SUFFICES OneCheckout' /\ ChargedIsPending' /\ PaidOnPending'
  BY <1>0 DEF OrdersInv
<1> DEFINE Kept == OneCheckout' /\ ChargedIsPending' /\ PaidOnPending'
<1>a. ASSUME NEW v \in Visits, orders' = orders, charge' = charge, \A u \in Visits \ {v} : visits'[u] = visits[u],
             visits'[v].pc # "checkout",
             visits'[v].pc = "payment" => visits'[v].seen.pay = "pending" /\ charge[visits'[v].row] # "none"
      PROVE  Kept
  BY <1>a DEF OrdersInv, OneCheckout, ChargedIsPending, PaidOnPending
<1>b. ASSUME NEW v \in Visits, NEW o \in Orders, visits[v].row = o,
             visits'[v].pc = "away", \A u \in Visits \ {v} : visits'[u] = visits[u],
             \A p \in Orders \ {o} : orders'[p] = orders[p] /\ charge'[p] = charge[p],
             charge[o] # "none" => charge'[o] # "none",
             charge'[o] # "none" => orders'[o].pay \in {"pending", "paid"},
             \/ visits[v].pc = "checkout"
             \/ charge[o] # "none"
             \/ charge'[o] = charge[o] /\ orders'[o].pay = orders[o].pay
      PROVE  Kept
  <2>1. OneCheckout'
    <3> SUFFICES ASSUME NEW u \in Visits, visits'[u].pc = "checkout"
                 PROVE  /\ orders'[visits'[u].row].pay = "pending" /\ charge'[visits'[u].row] = "none"
                        /\ \A w \in Visits \ {u} : visits'[w].pc = "checkout" => visits'[w].row # visits'[u].row
      BY DEF OneCheckout
    <3>1. u # v /\ visits'[u] = visits[u] /\ visits[u].row \in Orders
      BY <1>b, <1>0 DEF StoreShape, VisitOK
    <3>2. /\ orders[visits[u].row].pay = "pending" /\ charge[visits[u].row] = "none"
          /\ \A w \in Visits \ {u} : visits[w].pc = "checkout" => visits[w].row # visits[u].row
      BY <3>1 DEF OrdersInv, OneCheckout
    <3>3. CASE visits[u].row = o  BY <1>b, <3>1, <3>2, <3>3
    <3>4. CASE visits[u].row # o  BY <1>b, <3>1, <3>2, <3>4
    <3> QED  BY <3>3, <3>4
  <2>2. ChargedIsPending'  BY <1>b DEF OrdersInv, ChargedIsPending
  <2>3. PaidOnPending'
    <3> SUFFICES ASSUME NEW u \in Visits, visits'[u].pc = "payment"
                 PROVE  visits'[u].seen.pay = "pending" /\ charge'[visits'[u].row] # "none"
      BY DEF PaidOnPending
    <3>1. u # v /\ visits'[u] = visits[u] /\ visits[u].row \in Orders
      BY <1>b, <1>0 DEF StoreShape, VisitOK
    <3> QED  BY <1>b, <3>1 DEF OrdersInv, PaidOnPending
  <2> QED  BY <2>1, <2>2, <2>3
<1>1. CASE UNCHANGED storeVars
  BY <1>1 DEF storeVars, OrdersInv, OneCheckout, ChargedIsPending, PaidOnPending
<1>2. ASSUME NEW o \in Orders, GuestPays(o)  PROVE Kept
  <2>1. /\ charge'[o] # "none" /\ charge[o] # "none" /\ \A p \in Orders \ {o} : charge'[p] = charge[p]
        /\ orders' = orders /\ visits' = visits
    BY <1>2, <1>0 DEF GuestPays, StoreShape
  <2>2. \A v \in Visits : visits[v].pc = "checkout" => visits[v].row \in Orders \ {o}
    BY <2>1, <1>0 DEF OrdersInv, OneCheckout, StoreShape, VisitOK
  <2>3. \A v \in Visits : visits[v].pc = "payment" => visits[v].row \in Orders
    BY <1>0 DEF StoreShape, VisitOK
  <2> QED  BY <2>1, <2>2, <2>3 DEF OrdersInv, OneCheckout, ChargedIsPending, PaidOnPending
<1>3. ASSUME NEW v \in Visits, VisitStep(v) \/ KillVisit(v) \/ PaymentThrows(v)  PROVE Kept
  <2>0. VisitOK(visits[v])  BY <1>0 DEF StoreShape
  <2>1. CASE OpenCheckout(v)
    BY <1>0, <1>b, <2>0, <2>1, Left DEF OpenCheckout, StoreShape, VisitOK, VisitAt, OrdersInv, OneCheckout
  <2>2. CASE SimulatePayment(v)
    BY <1>0, <1>b, <2>0, <2>2, Left DEF SimulatePayment, StoreShape, VisitOK, VisitAt, OrdersInv, OneCheckout
  <2>3. CASE RecordPayment(v)
    BY <1>0, <1>b, <2>0, <2>3, Left DEF RecordPayment, StoreShape, VisitOK, VisitAt, OrdersInv, PaidOnPending
  <2>4. CASE WriteOrder(v)
    <3> DEFINE o == visits[v].row
    <3>1. o \in Orders /\ orders[o] \in Order
      BY <2>0, <2>4, StoreAssumption DEF WriteOrder, VisitOK, VisitAt
    <3>2. orders'[o].pay = orders[o].pay /\ charge' = charge /\ \A p \in Orders \ {o} : orders'[p] = orders[p]
      BY <1>0, <2>4, <3>1 DEF WriteOrder, StoreShape, Order
    <3>3. charge[o] # "none" => orders[o].pay \in {"pending", "paid"}
      BY <3>1 DEF OrdersInv, ChargedIsPending
    <3> QED  BY <1>0, <1>b, <2>4, <3>1, <3>2, <3>3, Left DEF WriteOrder
  <2>5. CASE WriteReservation(v)
    BY <1>0, <1>a, <2>5, Left DEF WriteReservation
  <2>7. CASE KillVisit(v)
    BY <1>0, <1>a, <2>7, Left DEF KillVisit
  <2>8. CASE PaymentThrows(v)
    <3> DEFINE o == visits[v].row
    <3>1. o \in Orders /\ charge[o] # "none" /\ (charge[o] # "none" => orders[o].pay \in {"pending", "paid"})
      BY <2>0, <2>8 DEF PaymentThrows, VisitOK, VisitAt, OrdersInv, PaidOnPending, ChargedIsPending
    <3> QED  BY <1>0, <1>b, <2>8, <3>1, Left DEF PaymentThrows, StoreShape
  <2> QED  BY <1>3, <2>1, <2>2, <2>3, <2>4, <2>5, <2>7, <2>8 DEF VisitStep
<1>4. ASSUME NEW v \in Visits, NEW o \in Orders, PlaceOrder(v, o)  PROVE Kept
  <2>1. /\ charge' = charge /\ orders'[o].pay = "pending" /\ orders[o].pay = "none"
        /\ \A p \in Orders \ {o} : orders'[p] = orders[p]
    BY <1>4, <1>0 DEF PlaceOrder, StoreShape, NoOrder
  <2>2. /\ visits'[v].pc = "checkout" /\ visits'[v].row = o
        /\ \A u \in Visits \ {v} : visits'[u] = visits[u]
    <3>1. Stay(v, "checkout", o) /\ visits \in [Visits -> Visit]  BY <1>4, <1>0 DEF PlaceOrder, StoreShape
    <3> QED  BY <3>1 DEF Stay, Visit
  <2>3. charge[o] = "none"  BY <2>1 DEF OrdersInv, ChargedIsPending
  <2>4. \A u \in Visits \ {v} : visits[u].pc = "checkout" => visits[u].row # o /\ visits[u].row \in Orders
    BY <2>1, <1>0 DEF OrdersInv, OneCheckout, StoreShape, VisitOK
  <2>5. OneCheckout'
    <3> SUFFICES ASSUME NEW u \in Visits, visits'[u].pc = "checkout"
                 PROVE  /\ orders'[visits'[u].row].pay = "pending" /\ charge'[visits'[u].row] = "none"
                        /\ \A w \in Visits \ {u} : visits'[w].pc = "checkout" => visits'[w].row # visits'[u].row
      BY DEF OneCheckout
    <3>1. CASE u = v  BY <2>1, <2>2, <2>3, <2>4, <3>1
    <3>2. CASE u # v
      <4>1. /\ orders[visits[u].row].pay = "pending" /\ charge[visits[u].row] = "none"
            /\ \A w \in Visits \ {u} : visits[w].pc = "checkout" => visits[w].row # visits[u].row
        BY <2>2, <3>2 DEF OrdersInv, OneCheckout
      <4> QED  BY <2>1, <2>2, <2>4, <3>2, <4>1
    <3> QED  BY <3>1, <3>2
  <2>6. ChargedIsPending'  BY <2>1, <2>3 DEF OrdersInv, ChargedIsPending
  <2>7. PaidOnPending'  BY <2>1, <2>2 DEF OrdersInv, PaidOnPending
  <2> QED  BY <2>5, <2>6, <2>7
<1>5. ASSUME NEW v \in Visits, NEW o \in Orders, OrderPaid(v, o)  PROVE Kept
  <2>0. charge[o] # "none" /\ orders[o].pay \in {"pending", "paid"}
    BY <1>5 DEF OrderPaid, OrdersInv, ChargedIsPending
  <2>1. CASE orders[o].pay = "paid"
    <3>1. /\ charge'[o] # "none" /\ \A p \in Orders \ {o} : charge'[p] = charge[p]
          /\ orders' = orders /\ visits' = visits
      BY <1>5, <2>1, <1>0 DEF OrderPaid, StoreShape
    <3>2. \A u \in Visits : visits[u].pc = "checkout" => visits[u].row \in Orders \ {o}
      BY <2>0, <1>0 DEF OrdersInv, OneCheckout, StoreShape, VisitOK
    <3>3. \A u \in Visits : visits[u].pc = "payment" => visits[u].row \in Orders
      BY <1>0 DEF StoreShape, VisitOK
    <3> QED  BY <2>1, <3>1, <3>2, <3>3 DEF OrdersInv, OneCheckout, ChargedIsPending, PaidOnPending
  <2>2. CASE orders[o].pay # "paid"
    <3>1. /\ visits'[v].pc = "payment" /\ visits'[v].row = o /\ visits'[v].seen = orders[o]
          /\ \A u \in Visits \ {v} : visits'[u] = visits[u]
          /\ orders' = orders /\ charge' = charge
      BY <1>5, <2>2, <1>0 DEF OrderPaid, StoreShape, Visit
    <3> QED  BY <1>a, <2>0, <2>2, <3>1
  <2> QED  BY <2>1, <2>2
<1>6. ASSUME NEW v \in Visits, NEW o \in Orders, NEW to \in DOMAIN OrderTransitions, AdvanceOrder(v, o, to)
      PROVE  Kept
  <2>1. visits'[v].pc = "advance" /\ \A u \in Visits \ {v} : visits'[u] = visits[u]
    BY <1>6, <1>0 DEF AdvanceOrder, StoreShape, Visit
  <2> QED  BY <1>6, <1>a, <2>1 DEF AdvanceOrder
<1>7. ASSUME NEW t \in Tables, NEW status \in {"requested", "confirmed"}, RequestReservation(t, status)
      PROVE  Kept
  BY <1>7 DEF RequestReservation, OrdersInv, OneCheckout, ChargedIsPending, PaidOnPending
<1>8. ASSUME NEW v \in Visits, NEW t \in Tables, NEW to \in DOMAIN BookingTransitions,
             AdvanceReservation(v, t, to)
      PROVE  Kept
  <2>1. visits'[v].pc = "advance" /\ \A u \in Visits \ {v} : visits'[u] = visits[u]
    BY <1>8, <1>0 DEF AdvanceReservation, StoreShape, Visit
  <2> QED  BY <1>8, <1>a, <2>1 DEF AdvanceReservation
<1> QED  BY <1>1, <1>2, <1>3, <1>4, <1>5, <1>6, <1>7, <1>8 DEF StoreNext

(* A step that moves an order, or a reservation, is one of these.           *)
MovesForward(o) ==
  \/ orders[o] = NoOrder
  \/ orders'[o].status \in OrderTransitions[orders[o].status]
  \/ orders[o].pay = "pending" /\ orders'[o].pay # "pending"
  \/ \E v \in Visits : Overtaken(v, o) /\ visits'[v].pc = "away"

LEMMA OrdersStepForward == OrdersInv /\ [StoreNext]_storeVars => OrdersForward
<1> SUFFICES ASSUME OrdersInv, [StoreNext]_storeVars,
                    NEW o \in Orders, orders'[o].status # orders[o].status
             PROVE  MovesForward(o)
  BY DEF OrdersForward, MovesForward
<1>0. StoreShape  BY DEF OrdersInv
<1>1. PICK v \in Visits :
        \/ SimulatePayment(v) \/ RecordPayment(v) \/ WriteOrder(v)
        \/ \E p \in Orders : PlaceOrder(v, p)
  BY DEF StoreNext, VisitStep, storeVars, GuestPays, OpenCheckout, WriteReservation,
         KillVisit, PaymentThrows, OrderPaid, AdvanceOrder, RequestReservation, AdvanceReservation
<1>2. CASE SimulatePayment(v)
  <2>1. visits[v].row = o /\ orders'[o].pay = "simulated"
    BY <1>0, <1>2 DEF SimulatePayment, StoreShape
  <2>2. orders[o].pay = "pending"
    BY <1>2, <2>1 DEF SimulatePayment, VisitAt, OrdersInv, OneCheckout
  <2> QED  BY <2>1, <2>2 DEF MovesForward
<1>3. CASE RecordPayment(v)
  <2>1. visits[v].row = o /\ orders'[o].pay = "paid" /\ visits[v].seen.pay = "pending"
    BY <1>0, <1>3 DEF RecordPayment, StoreShape, VisitAt, OrdersInv, PaidOnPending
  <2>2. visits'[v].pc = "away"  BY <1>0, <1>3, Left DEF RecordPayment
  <2>3. CASE visits[v].seen = orders[o]  BY <2>1, <2>3 DEF MovesForward
  <2>4. CASE visits[v].seen # orders[o]  BY <2>1, <2>2, <2>4 DEF MovesForward, Overtaken
  <2> QED  BY <2>3, <2>4
<1>4. CASE WriteOrder(v)
  <2>1. visits[v].row = o /\ visits[v].to \in OrderTransitions[visits[v].seen.status] /\ orders[o] \in Order
    BY <1>0, <1>4, StoreAssumption DEF WriteOrder, StoreShape, VisitAt, VisitOK
  <2>2. orders'[o].status = visits[v].to
    BY <1>0, <1>4, <2>1 DEF WriteOrder, StoreShape, Order
  <2>3. visits'[v].pc = "away"  BY <1>0, <1>4, Left DEF WriteOrder
  <2>4. CASE visits[v].seen = orders[o]  BY <2>1, <2>2, <2>4 DEF MovesForward
  <2>5. CASE visits[v].seen # orders[o]  BY <2>1, <2>3, <2>5 DEF MovesForward, Overtaken
  <2> QED  BY <2>4, <2>5
<1>5. ASSUME NEW p \in Orders, PlaceOrder(v, p)  PROVE MovesForward(o)
  BY <1>0, <1>5 DEF PlaceOrder, StoreShape, MovesForward
<1> QED  BY <1>1, <1>2, <1>3, <1>4, <1>5

LEMMA TablesStepForward == OrdersInv /\ [StoreNext]_storeVars => TablesForward
<1> SUFFICES ASSUME OrdersInv, [StoreNext]_storeVars,
                    NEW t \in Tables, tables'[t] # tables[t], tables[t] # "none"
             PROVE  \/ tables'[t] \in BookingTransitions[tables[t]]
                    \/ \E v \in Visits : Outrun(v, t) /\ visits'[v].pc = "away"
  BY DEF TablesForward
<1>0. StoreShape  BY DEF OrdersInv
<1>1. \A u \in Tables, status \in {"requested", "confirmed"} : ~RequestReservation(u, status)
  BY <1>0 DEF RequestReservation, StoreShape
<1>2. PICK v \in Visits : WriteReservation(v)
  BY <1>1 DEF StoreNext, VisitStep, storeVars, GuestPays, OpenCheckout, SimulatePayment, RecordPayment, WriteOrder,
              KillVisit, PaymentThrows, PlaceOrder, OrderPaid, AdvanceOrder, AdvanceReservation
<1>3. /\ visits[v].row = t /\ tables'[t] = visits[v].to
      /\ visits[v].to \in BookingTransitions[visits[v].seen.status]
  BY <1>0, <1>2, StoreAssumption DEF WriteReservation, StoreShape, VisitAt, VisitOK
<1>4. visits'[v].pc = "away"  BY <1>0, <1>2, Left DEF WriteReservation
<1> QED  BY <1>3, <1>4 DEF Outrun

(* An order moves along ORDER_TRANSITIONS and a reservation along
   BOOKING_TRANSITIONS only, unless a payment is recorded or a request writes
   over a change that it has not seen (onOrderCheckout, advanceOrderAction,
   advanceReservation), for any rows and any requests. *)
THEOREM StoreGoesForward == StoreSpec => StoreMovesForward
<1>1. StoreInit => OrdersInv  BY OrdersInvInit
<1>2. OrdersInv /\ [StoreNext]_storeVars => OrdersInv'  BY OrdersInvKept
<1>3. OrdersInv /\ [StoreNext]_storeVars => [OrdersForward /\ TablesForward]_storeVars
  BY OrdersStepForward, TablesStepForward
<1> QED  BY <1>1, <1>2, <1>3, PTL DEF StoreSpec, StoreMovesForward

-----------------------------------------------------------------------------
(* MCPayments: whoever moves, each component takes a step of its own or none. *)
LEMMA PartsStep ==
  [Next]_allVars => [WalletNext]_walletVars /\ [BillingNext]_billingVars /\ [StoreNext]_storeVars
BY DEF Next, allVars, walletVars, billingVars, storeVars

(* What is proved of the components holds where the run checks it: the wallet,
   the plans and the shop front side by side behave each as it does alone. *)
THEOREM PartsAreThemselves == Spec => WalletSpec /\ BillingSpec /\ StoreSpec
<1>1. Init => WalletInit /\ BillingInit /\ StoreInit  BY DEF Init
<1> QED  BY <1>1, PartsStep, PTL DEF Spec, WalletSpec, BillingSpec, StoreSpec

LEMMA BillingTypes == BillingShape => BillingTypeOK
<1> SUFFICES ASSUME BillingShape  PROVE BillingTypeOK
  OBVIOUS
<1>1. ASSUME NEW s \in Subs, NEW i \in DOMAIN outbox[s]
      PROVE  outbox[s][i] \in [kind : {"checkout", "updated", "deleted"}, sub : {s}, plan : Plans]
  <2>1. outbox[s] \in Seq(EventsOf(s))  BY DEF BillingShape, OutboxType
  <2>2. outbox[s][i] \in EventsOf(s)  BY <2>1, ElementOfSeq, LenProperties
  <2> QED  BY <2>2 DEF EventsOf
<1>2. \A d \in Deliveries : inFlight[d].pc \in {"free", "tenant", "enable", "cancel", "stripe", "answer"}
  BY DEF BillingShape, FlightType, Delivery
<1> QED  BY <1>1, <1>2 DEF BillingShape, RecordType, StripeType, BillingTypeOK

LEMMA StoreTypes == StoreSpec => []StoreTypeOK
<1> DEFINE Bounded == storeFaults \in 0..StoreFaults
<1>1. StoreInit => StoreShape /\ Bounded  BY StoreShapeInit, StoreAssumption DEF StoreInit
<1>2. StoreShape /\ Bounded /\ [StoreNext]_storeVars => StoreShape' /\ Bounded'
  <2> SUFFICES ASSUME Bounded, [StoreNext]_storeVars  PROVE Bounded'
    BY StoreShapeKept
  <2>1. \/ storeFaults' = storeFaults
        \/ storeFaults < StoreFaults /\ storeFaults' = storeFaults + 1
    BY DEF storeVars, StoreNext, GuestPays, VisitStep, OpenCheckout, SimulatePayment, RecordPayment, WriteOrder,
           WriteReservation, RequestReservation, KillVisit, PaymentThrows, PlaceOrder, OrderPaid, AdvanceOrder,
           AdvanceReservation
  <2> QED  BY <2>1, StoreAssumption
<1>3. StoreShape /\ Bounded => StoreTypeOK
  BY StoreTables DEF StoreShape, StoreTypeOK, Order, Visit
<1> QED  BY <1>1, <1>2, <1>3, PTL DEF StoreSpec

(* Type correctness of the three components.                               *)
THEOREM PaymentTypes == Spec => []TypesOK
<1>1. BillingSpec => []BillingTypeOK
  <2>1. BillingInit => RideInv  BY RideInit
  <2>2. RideInv /\ [BillingNext]_billingVars => RideInv'  BY RideNext
  <2>3. RideInv => BillingTypeOK  BY BillingTypes DEF RideInv
  <2> QED  BY <2>1, <2>2, <2>3, PTL DEF BillingSpec
<1> QED  BY <1>1, PartsAreThemselves, WalletTypes, StoreTypes, PTL DEF TypesOK
=============================================================================
