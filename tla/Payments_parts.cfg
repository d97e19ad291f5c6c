CONSTANTS
  Sessions = {s1}
  Requests = {r1, r2}
  NoSubject = NoSubject
  Floor = 2
  Trigger = 1
  MaxPerDay = 1
  WalletFaults = 1
  WalletRepeats = 1
  WalletStaff = 2
  WalletDays = 1
  PlanSubs = {p1, p2}
  AddonSubs = {a1, a2}
  NoSub = NoSub
  Plans = {"starter", "agency"}
  Deliveries = {d1, d2}
  BillingChanges = 1
  BillingDisables = 1
  BillingFaults = 1
  Orders = {o1}
  Tables = {t1, t2}
  Visits = {v1, v2}
  NoRow = NoRow
  StoreFaults = 1

SPECIFICATION Spec
INVARIANT TypesOK
INVARIANT BalanceBacked
INVARIANT CreditsKept
INVARIANT SessionCreditedOnce
INVARIANT AutoTopUpsBounded
INVARIANT SpendFunded
INVARIANT CreditedByOneNote
INVARIANT NoFreeRide
INVARIANT PlanFollowsSubscription
PROPERTY PaidIsCredited
PROPERTY StoreMovesForward
PROPERTY ChargeRecorded
CHECK_DEADLOCK FALSE
