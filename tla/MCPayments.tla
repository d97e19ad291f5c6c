---------------------------- MODULE MCPayments ----------------------------
(* The three components that take payments, side by side: they share the Stripe
   webhook's route, but no table and no request, so that a behaviour of all of
   them is one of each.  To look at the sum of their states instead of the
   product, a behaviour is given to one part of one component. *)
EXTENDS CreditWallet, BillingEvents, Storefront, TLC

VARIABLE part   \* the part that moves, for good

allVars == <<part, walletVars, billingVars, storeVars>>

Untouched(subs) == \A s \in subs : stripeSubs'[s] = stripeSubs[s]
NoVisitTo(rows) == \A v \in Visits : visits'[v].row \notin rows

Init ==
  /\ part \in {"wallet", "plan", "addon", "orders", "tables"}
  /\ WalletInit /\ BillingInit /\ StoreInit

Next ==
  /\ UNCHANGED part
  /\ \/ part = "wallet" /\ WalletNext /\ UNCHANGED <<billingVars, storeVars>>
     \/ part = "plan" /\ BillingNext /\ Untouched(AddonSubs) /\ UNCHANGED <<walletVars, storeVars>>
     \/ part = "addon" /\ BillingNext /\ Untouched(PlanSubs) /\ UNCHANGED <<walletVars, storeVars>>
     \/ part = "orders" /\ StoreNext /\ NoVisitTo(Tables) /\ UNCHANGED <<tables, walletVars, billingVars>>
     \/ part = "tables" /\ StoreNext /\ NoVisitTo(Orders) /\ UNCHANGED <<orders, walletVars, billingVars>>

(* What a component leaves alone is at rest in it: fairness asks nothing of it. *)
Spec == Init /\ [][Next]_allVars /\ WalletFairness /\ StoreFairness

TypesOK == WalletTypeOK /\ BillingTypeOK /\ StoreTypeOK
=============================================================================
