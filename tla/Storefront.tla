----------------------------- MODULE Storefront -----------------------------
(* What guests do on the public pages of a company, and staff with it: orders
   (app/order, ordering/actions.ts, the order branch of the Stripe webhook) and
   reservations (app/book, bookings/actions.ts, lib/bookings.ts).

   Every handler reads a row, checks, and writes by id without a condition on
   what the row holds by then. *)
EXTENDS Integers

CONSTANTS
  Orders,         \* restaurant_orders rows that guests may create
  Tables,         \* booking_reservations rows that guests may create
  Visits,         \* requests that may be in flight together
  NoRow,          \* the row of an idle request
  StoreFaults     \* bound: requests killed

ASSUME StoreAssumption ==
  /\ NoRow \notin Orders \cup Tables /\ Orders \cap Tables = {}
  /\ StoreFaults \in Nat

VARIABLES
  orders,         \* status and paymentStatus of each order
  charge,         \* Stripe's side of each order: no session, open, charged, answered,
                  \* or refused, if what answered was a write that threw
  tables,         \* status of each reservation
  visits,         \* the requests in flight, with the row they read
  storeFaults     \* requests killed

storeVars == <<orders, charge, tables, visits, storeFaults>>

OrderTransitions ==
  [pending_payment |-> {"paid", "cancelled"}, paid |-> {"accepted", "cancelled"},
   accepted |-> {"preparing", "cancelled"}, preparing |-> {"ready", "cancelled"},
   ready |-> {"completed", "cancelled"}, completed |-> {}, cancelled |-> {}]

(* checked_in is the seat of a venue without tables: seated stands for both. *)
BookingTransitions ==
  [requested |-> {"confirmed", "cancelled"},
   confirmed |-> {"seated", "completed", "cancelled", "no_show"},
   seated |-> {"completed", "cancelled"}, completed |-> {}, cancelled |-> {}, no_show |-> {}]

NoOrder == [status |-> "none", pay |-> "none"]
Away == [pc |-> "away", row |-> NoRow, seen |-> NoOrder, to |-> "none"]

VisitAt(v, pc) == visits[v].pc = pc
Leave(v) == visits' = [visits EXCEPT ![v] = Away]
Stay(v, pc, row) == visits' = [visits EXCEPT ![v].pc = pc, ![v].row = row]

StoreInit ==
  /\ orders = [o \in Orders |-> NoOrder]
  /\ charge = [o \in Orders |-> "none"]
  /\ tables = [t \in Tables |-> "none"]
  /\ visits = [v \in Visits |-> Away]
  /\ storeFaults = 0

-----------------------------------------------------------------------------
(* placeOrderAction: the order is created unpaid; then a checkout session is
   opened, or, without one, the order counts as paid. *)
PlaceOrder(v, o) ==
  /\ VisitAt(v, "away") /\ orders[o] = NoOrder
  /\ orders' = [orders EXCEPT ![o] = [status |-> "pending_payment", pay |-> "pending"]]
  /\ Stay(v, "checkout", o)
  /\ UNCHANGED <<charge, tables, storeFaults>>

OpenCheckout(v) ==
  /\ VisitAt(v, "checkout")
  /\ charge' = [charge EXCEPT ![visits[v].row] = "open"]
  /\ Leave(v)
  /\ UNCHANGED <<orders, tables, storeFaults>>

SimulatePayment(v) ==
  /\ VisitAt(v, "checkout")
  /\ orders' = [orders EXCEPT ![visits[v].row] = [status |-> "paid", pay |-> "simulated"]]
  /\ Leave(v)
  /\ UNCHANGED <<charge, tables, storeFaults>>

GuestPays(o) ==
  /\ charge[o] = "open"
  /\ charge' = [charge EXCEPT ![o] = "charged"]
  /\ UNCHANGED <<orders, tables, visits, storeFaults>>

(* Mutant: a redelivered payment is not told from the first.               *)
OrderPaidAgain(v, o) ==
  /\ VisitAt(v, "away") /\ charge[o] \in {"charged", "answered", "refused"}
  /\ visits' = [visits EXCEPT ![v].pc = "payment", ![v].row = o, ![v].seen = orders[o]]
  /\ UNCHANGED <<orders, charge, tables, storeFaults>>

(* Mutant: only an order that still awaits its payment is looked at.       *)
OrderPaidIfAwaiting(v, o) ==
  /\ VisitAt(v, "away") /\ charge[o] \in {"charged", "answered", "refused"}
  /\ IF orders[o].status # "pending_payment"
     THEN charge' = [charge EXCEPT ![o] = "answered"] /\ UNCHANGED visits
     ELSE /\ visits' = [visits EXCEPT ![v].pc = "payment", ![v].row = o, ![v].seen = orders[o]]
          /\ UNCHANGED charge
  /\ UNCHANGED <<orders, tables, storeFaults>>

(* onOrderCheckout, delivered until it is answered and possibly again: a
   recorded payment is answered, whatever the status. *)
OrderPaid(v, o) ==
  /\ VisitAt(v, "away") /\ charge[o] \in {"charged", "answered", "refused"}
  /\ IF orders[o].pay = "paid"
     THEN charge' = [charge EXCEPT ![o] = "answered"] /\ UNCHANGED visits
     ELSE /\ visits' = [visits EXCEPT ![v].pc = "payment", ![v].row = o, ![v].seen = orders[o]]
          /\ UNCHANGED charge
  /\ UNCHANGED <<orders, tables, storeFaults>>

(* Mutant: an order gets the status of a reservation.                      *)
RecordPaymentConfirmed(v) ==
  /\ VisitAt(v, "payment")
  /\ orders' = [orders EXCEPT ![visits[v].row] = [status |-> "confirmed", pay |-> "paid"]]
  /\ charge' = [charge EXCEPT ![visits[v].row] = "answered"]
  /\ Leave(v)
  /\ UNCHANGED <<tables, storeFaults>>

RecordPayment(v) ==
  /\ VisitAt(v, "payment")
  /\ orders' = [orders EXCEPT ![visits[v].row] = [status |-> "paid", pay |-> "paid"]]
  /\ charge' = [charge EXCEPT ![visits[v].row] = "answered"]
  /\ Leave(v)
  /\ UNCHANGED <<tables, storeFaults>>

(* The write throws, and the webhook answers all the same.                 *)
PaymentThrows(v) ==
  /\ VisitAt(v, "payment") /\ storeFaults < StoreFaults
  /\ storeFaults' = storeFaults + 1
  /\ charge' = [charge EXCEPT ![visits[v].row] = "refused"]
  /\ Leave(v)
  /\ UNCHANGED <<orders, tables>>

(* advanceOrderAction                                                      *)
AdvanceOrder(v, o, to) ==
  /\ VisitAt(v, "away") /\ orders[o] # NoOrder /\ to \in OrderTransitions[orders[o].status]
  /\ visits' = [visits EXCEPT ![v] = [@ EXCEPT !.pc = "advance", !.row = o, !.seen = orders[o], !.to = to]]
  /\ UNCHANGED <<orders, charge, tables, storeFaults>>

WriteOrder(v) ==
  /\ VisitAt(v, "advance") /\ visits[v].row \in Orders
  /\ orders' = [orders EXCEPT ![visits[v].row].status = visits[v].to]
  /\ Leave(v)
  /\ UNCHANGED <<charge, tables, storeFaults>>

-----------------------------------------------------------------------------
(* requestReservationAction: assertSlotCapacity looks for reservations of the
   very time string that the form made (toISOString, with a Z), and the times
   that the database returns are written with an offset (timestamptz: +00:00).
   None is counted, so that every party that the slot could hold alone gets a
   reservation, confirmed or to be confirmed. *)
RequestReservation(t, status) ==
  /\ tables[t] = "none"
  /\ tables' = [tables EXCEPT ![t] = status]
  /\ UNCHANGED <<orders, charge, visits, storeFaults>>

(* advanceReservation                                                      *)
AdvanceReservation(v, t, to) ==
  /\ VisitAt(v, "away") /\ tables[t] # "none" /\ to \in BookingTransitions[tables[t]]
  /\ visits' = [visits EXCEPT ![v] = [pc |-> "advance", row |-> t, to |-> to,
                                      seen |-> [status |-> tables[t], pay |-> "none"]]]
  /\ UNCHANGED <<orders, charge, tables, storeFaults>>

WriteReservation(v) ==
  /\ VisitAt(v, "advance") /\ visits[v].row \in Tables
  /\ tables' = [tables EXCEPT ![visits[v].row] = visits[v].to]
  /\ Leave(v)
  /\ UNCHANGED <<orders, charge, storeFaults>>

KillVisit(v) ==
  /\ ~VisitAt(v, "away") /\ storeFaults < StoreFaults
  /\ storeFaults' = storeFaults + 1
  /\ Leave(v)
  /\ UNCHANGED <<orders, charge, tables>>

VisitStep(v) ==
  \/ OpenCheckout(v) \/ SimulatePayment(v) \/ RecordPayment(v)
  \/ WriteOrder(v) \/ WriteReservation(v)

StoreNext ==
  \/ \E o \in Orders : GuestPays(o)
  \/ \E t \in Tables, status \in {"requested", "confirmed"} : RequestReservation(t, status)
  \/ \E v \in Visits :
       \/ VisitStep(v) \/ KillVisit(v) \/ PaymentThrows(v)
       \/ \E o \in Orders : \/ PlaceOrder(v, o) \/ OrderPaid(v, o)
                            \/ \E to \in DOMAIN OrderTransitions : AdvanceOrder(v, o, to)
       \/ \E t \in Tables, to \in DOMAIN BookingTransitions : AdvanceReservation(v, t, to)

(* Requests run on, and Stripe delivers a charge until it is answered.     *)
StoreFairness ==
  /\ \A v \in Visits : WF_storeVars(VisitStep(v))
  /\ \A o \in Orders : WF_storeVars(charge[o] = "charged" /\ \E v \in Visits : OrderPaid(v, o))

StoreSpec == StoreInit /\ [][StoreNext]_storeVars

-----------------------------------------------------------------------------
StoreTypeOK ==
  /\ orders \in [Orders -> [status : DOMAIN OrderTransitions, pay : {"pending", "paid", "simulated"}] \cup {NoOrder}]
  /\ charge \in [Orders -> {"none", "open", "charged", "answered", "refused"}]
  /\ tables \in [Tables -> DOMAIN BookingTransitions \cup {"none"}]
  /\ \A v \in Visits : /\ visits[v].pc \in {"away", "checkout", "payment", "advance"}
                       /\ visits[v].row \in Orders \cup Tables \cup {NoRow}
  /\ storeFaults \in 0..StoreFaults

(* A write that rests on a row that has changed since it was read.         *)
Overtaken(v, o) == visits[v].row = o /\ visits[v].seen # orders[o]
Outrun(v, t) == visits[v].row = t /\ visits[v].seen.status # tables[t]

(* An order moves along ORDER_TRANSITIONS only, except when its payment is
   first recorded (over whatever staff made of it) or when a request writes
   over a change it has not seen; a payment that Stripe reports again moves
   nothing (onOrderCheckout). *)
OrdersForward ==
  \A o \in Orders : orders'[o].status # orders[o].status =>
    \/ orders[o] = NoOrder
    \/ orders'[o].status \in OrderTransitions[orders[o].status]
    \/ orders[o].pay = "pending" /\ orders'[o].pay # "pending"
    \/ \E v \in Visits : Overtaken(v, o) /\ visits'[v].pc = "away"

(* A reservation moves along BOOKING_TRANSITIONS only, unless a request writes
   over a change it has not seen (advanceReservation). *)
TablesForward ==
  \A t \in Tables : tables'[t] # tables[t] =>
    \/ tables[t] = "none"
    \/ tables'[t] \in BookingTransitions[tables[t]]
    \/ \E v \in Visits : Outrun(v, t) /\ visits'[v].pc = "away"

(* Orders and reservations move forward, whoever writes them at once
   (onOrderCheckout, advanceOrderAction, advanceReservation). *)
StoreMovesForward == [][OrdersForward /\ TablesForward]_storeVars

(* A charge is recorded, also when staff moved or cancelled the order while
   the guest was paying (onOrderCheckout looks at the payment only), unless its
   write threw, which the webhook acknowledges. *)
ChargeRecorded ==
  \A o \in Orders : charge[o] = "charged" ~> orders[o].pay = "paid" \/ charge[o] = "refused"
=============================================================================
