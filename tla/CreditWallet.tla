---------------------------- MODULE CreditWallet ----------------------------
(* The prepaid credit of one company (src/lib/credit-wallet.ts), the paid
   Stripe sessions that fill it (credit-top-up.ts, called by the webhook), the
   tax invoices and credit notes (tax-invoices.ts), and the spending decisions
   that need a floor of credit (ads actions, spend-approval.ts).

   A request is a series of awaited database calls; one action is one call,
   and requests interleave between them.  A request may be killed anywhere.
   Stripe delivers a paid session again until a delivery is answered; the
   answer is 200 even when a write threw.

   Data: every top-up is worth one unit, so the ledger is worth its length. *)
EXTENDS Integers, FiniteSets, Sequences

CONSTANTS
  Sessions,       \* Stripe checkout sessions the client may pay
  Requests,       \* requests that may be in flight together
  NoSubject,      \* what a request works on that is about no session or invoice
  Floor,          \* minFloorUsd, in units
  Trigger,        \* topUpTriggerBalanceUsd, in units
  MaxPerDay,      \* maxTopUpPerDay
  WalletFaults,   \* bound: requests killed
  WalletRepeats,  \* bound: deliveries of a session that was answered already
  WalletStaff,    \* bound: spending decisions, settings saved, credit notes and voids
  WalletDays      \* bound: days

ASSUME WalletAssumption ==
  /\ NoSubject \notin Sessions \cup Nat
  /\ Sessions \cap Nat = {}
  /\ {Floor, Trigger, MaxPerDay, WalletFaults, WalletRepeats, WalletStaff,
      WalletDays} \subseteq Nat

VARIABLES
  balance,        \* company_credit_wallets.balance_usd
  autoOn,         \* company_credit_wallets.auto_top_up_enabled
  ledger,         \* company_credit_ledger, oldest first
  invoices,       \* tax_invoices: the position is the invoice number
  spends,         \* spending decisions written
  today,          \* the UTC day
  calls,          \* the requests in flight
  checkout,       \* per session: "open", "paid", "answered", or "refused" if
                  \* what answered was a handler that threw
  walletUsed,     \* what the bounds have been used up by
  contested,      \* history: subjects of two requests at a time, and invoices
                  \* whose request was killed
  mixed           \* history: two top-ups overlapped, or one was cut short

walletVars == <<balance, autoOn, ledger, invoices, spends, today, calls,
                checkout, walletUsed, contested, mixed>>
walletTables == <<balance, autoOn, ledger, invoices, spends>>
walletRest == <<today, checkout, walletUsed, contested, mixed>>

CallPC == {"idle", "lookup", "find", "wallet", "append", "balance", "number",
           "invoice", "mark", "void", "auto", "count", "floor", "spend"}
Job == {"none", "delivery", "note", "void", "spend"}
IdleCall == [pc |-> "idle", job |-> "none", subject |-> NoSubject, read |-> 0, again |-> FALSE]

CallAt(r, pc) == calls[r].pc = pc
CallTo(r, pc) == calls' = [calls EXCEPT ![r].pc = pc]
CallRead(r, n, pc) == calls' = [calls EXCEPT ![r].read = n, ![r].pc = pc]
CallDone(r) == calls' = [calls EXCEPT ![r] = IdleCall]
InTopUp == {r \in Requests : calls[r].pc \in {"append", "balance"}}

CreditsOf(s) == {i \in DOMAIN ledger : ledger[i].session = s}
InvoicesOf(s) == {n \in DOMAIN invoices : invoices[n].session = s}
NotesOn(n) == {k \in DOMAIN invoices : invoices[k].credits = n}
AutosOf(d) == {i \in DOMAIN ledger : ledger[i].kind = "auto_top_up" /\ ledger[i].day = d}

WalletInit ==
  /\ balance = 0 /\ autoOn = TRUE /\ ledger = <<>> /\ invoices = <<>> /\ spends = 0
  /\ today = 0
  /\ calls = [r \in Requests |-> IdleCall]
  /\ checkout = [s \in Sessions |-> "open"]
  /\ walletUsed = [faults |-> 0, repeats |-> 0, staff |-> 0]
  /\ contested = {} /\ mixed = FALSE

Spare(bound, limit) == walletUsed[bound] < limit
Use(bound) == walletUsed' = [walletUsed EXCEPT ![bound] = @ + 1]

(* A request begins its work on a subject; another may be at it already.   *)
Begin(r, job, subject, pc, again) ==
  /\ CallAt(r, "idle")
  /\ calls' = [calls EXCEPT ![r] = [pc |-> pc, job |-> job, subject |-> subject,
                                    read |-> 0, again |-> again]]
  /\ contested' = IF subject # NoSubject /\ \E q \in Requests : calls[q].subject = subject
                  THEN contested \cup {subject} ELSE contested
  /\ UNCHANGED <<walletTables, today, mixed>>

-----------------------------------------------------------------------------
(* Stripe and the client.                                                  *)

Pay(s) ==
  /\ checkout[s] = "open"
  /\ checkout' = [checkout EXCEPT ![s] = "paid"]
  /\ UNCHANGED <<walletTables, calls, today, walletUsed, contested, mixed>>

(* Mutant: the event is answered first and handled afterwards.             *)
DeliverAnswered(r, s) ==
  /\ checkout[s] = "paid"
  /\ Begin(r, "delivery", s, "lookup", FALSE)
  /\ checkout' = [checkout EXCEPT ![s] = "answered"]
  /\ UNCHANGED walletUsed

Deliver(r, s) ==
  /\ checkout[s] = "paid"
  /\ Begin(r, "delivery", s, "lookup", FALSE)
  /\ UNCHANGED <<checkout, walletUsed>>

DeliverAgain(r, s) ==
  /\ checkout[s] \in {"answered", "refused"} /\ Spare("repeats", WalletRepeats) /\ Use("repeats")
  /\ Begin(r, "delivery", s, "lookup", FALSE)
  /\ UNCHANGED checkout

(* The request is over; if it was a delivery it answers 200, thrown or not. *)
Over(r) ==
  /\ CallDone(r)
  /\ checkout' = IF calls[r].job = "delivery"
                 THEN [checkout EXCEPT ![calls[r].subject] = "answered"] ELSE checkout

(* applyPaidCreditTopUp: an invoice of this session means it was handled.  *)
Lookup(r) ==
  /\ CallAt(r, "lookup")
  /\ IF InvoicesOf(calls[r].subject) # {} THEN Over(r) ELSE CallTo(r, "find") /\ UNCHANGED checkout
  /\ UNCHANGED <<walletTables, today, walletUsed, contested, mixed>>

(* Mutant: only the invoice tells a delivery that was handled.             *)
FindNothing(r) ==
  /\ CallAt(r, "find")
  /\ CallTo(r, "wallet")
  /\ UNCHANGED <<walletTables, walletRest>>

(* Mutant: a found entry is taken for one whose balance was never written. *)
FindAndRepair(r) ==
  /\ CallAt(r, "find")
  /\ IF Cardinality(CreditsOf(calls[r].subject)) = 1 THEN CallRead(r, balance, "balance")
     ELSE CallTo(r, "wallet")
  /\ UNCHANGED <<walletTables, walletRest>>

(* The ledger entry of this session, read with maybeSingle: two rows are an
   error, which reads as none. *)
Find(r) ==
  /\ CallAt(r, "find")
  /\ CallTo(r, IF Cardinality(CreditsOf(calls[r].subject)) = 1 THEN "number" ELSE "wallet")
  /\ UNCHANGED <<walletTables, walletRest>>

-----------------------------------------------------------------------------
(* topUpCredit: read the wallet, append to the ledger, write the balance.  *)

ReadWallet(r) ==
  /\ CallAt(r, "wallet")
  /\ CallRead(r, balance, "append")
  /\ mixed' = (mixed \/ InTopUp # {})
  /\ UNCHANGED <<walletTables, today, checkout, walletUsed, contested>>

(* Mutant: the balance is written before the entry that explains it.       *)
AppendLedgerLast(r) ==
  /\ CallAt(r, "append")
  /\ balance' = calls[r].read + 1
  /\ CallTo(r, "balance")
  /\ UNCHANGED <<autoOn, ledger, invoices, spends, walletRest>>

AppendLedger(r) ==
  /\ CallAt(r, "append")
  /\ ledger' = Append(ledger, [kind |-> IF calls[r].job = "delivery" THEN "top_up" ELSE "auto_top_up",
                               session |-> calls[r].subject, day |-> today])
  /\ CallTo(r, "balance")
  /\ UNCHANGED <<balance, autoOn, invoices, spends, walletRest>>

WriteBalance(r) ==
  /\ CallAt(r, "balance")
  /\ balance' = calls[r].read + 1
  /\ CallRead(r, 0, IF calls[r].job = "delivery" THEN "number" ELSE "floor")
  /\ UNCHANGED <<autoOn, ledger, invoices, spends, walletRest>>

-----------------------------------------------------------------------------
(* issueTaxInvoice: a session's invoice exists already, or the next number is
   read (nextInvoiceNumber) and used by a later insert. *)
ReadNumber(r) ==
  /\ CallAt(r, "number")
  /\ IF calls[r].job = "delivery" /\ InvoicesOf(calls[r].subject) # {}
     THEN Over(r)
     ELSE CallRead(r, Len(invoices) + 1, "invoice") /\ UNCHANGED checkout
  /\ UNCHANGED <<walletTables, today, walletUsed, contested, mixed>>

(* The number and the session are unique in the table: the insert of a taken
   one throws.  A credit note goes on to mark what it credits. *)
InsertInvoice(r) ==
  LET c == calls[r]
      delivery == c.job = "delivery"
      taken == c.read # Len(invoices) + 1 \/ (delivery /\ InvoicesOf(c.subject) # {})
  IN
  /\ CallAt(r, "invoice")
  /\ invoices' = IF taken THEN invoices
                 ELSE Append(invoices, [session |-> IF delivery THEN c.subject ELSE NoSubject,
                                        credits |-> IF delivery THEN 0 ELSE c.subject,
                                        status |-> "issued"])
  /\ IF taken \/ delivery THEN Over(r) ELSE CallTo(r, "mark") /\ UNCHANGED checkout
  /\ UNCHANGED <<balance, autoOn, ledger, spends, today, walletUsed, contested, mixed>>

(* Mutant: the status of the invoice is not asked.                         *)
CreditNoteAnyStatus(r, n) ==
  /\ n \in DOMAIN invoices /\ invoices[n].credits = 0
  /\ Spare("staff", WalletStaff) /\ Use("staff")
  /\ Begin(r, "note", n, "number", FALSE)
  /\ UNCHANGED checkout

(* issueCreditNote of an issued top-up invoice.                            *)
CreditNote(r, n) ==
  /\ n \in DOMAIN invoices /\ invoices[n].credits = 0 /\ invoices[n].status = "issued"
  /\ Spare("staff", WalletStaff) /\ Use("staff")
  /\ Begin(r, "note", n, "number", FALSE)
  /\ UNCHANGED checkout

MarkCredited(r) ==
  /\ CallAt(r, "mark")
  /\ invoices' = [invoices EXCEPT ![calls[r].subject].status = "credited"]
  /\ CallDone(r)
  /\ UNCHANGED <<balance, autoOn, ledger, spends, walletRest>>

(* voidTaxInvoice.                                                         *)
Void(r, n) ==
  /\ n \in DOMAIN invoices /\ invoices[n].credits = 0 /\ invoices[n].status = "issued"
  /\ Spare("staff", WalletStaff) /\ Use("staff")
  /\ Begin(r, "void", n, "void", FALSE)
  /\ UNCHANGED checkout

MarkVoid(r) ==
  /\ CallAt(r, "void")
  /\ invoices' = [invoices EXCEPT ![calls[r].subject].status = "void"]
  /\ CallDone(r)
  /\ UNCHANGED <<balance, autoOn, ledger, spends, walletRest>>

-----------------------------------------------------------------------------
(* Spending decisions: saving a budget and activating a campaign try the
   automatic top-up a second time when the credit is still below the floor,
   applying a spend change does not. *)
BeginSpend(r, again) ==
  /\ Spare("staff", WalletStaff) /\ Use("staff")
  /\ Begin(r, "spend", NoSubject, "auto", again)
  /\ UNCHANGED checkout

(* maybeAutoTopUp.                                                         *)
MaybeAutoTopUp(r) ==
  /\ CallAt(r, "auto")
  /\ CallTo(r, IF autoOn /\ balance <= Trigger THEN "count" ELSE "floor")
  /\ UNCHANGED <<walletTables, walletRest>>

(* Mutant: the limit is one more than it says.                             *)
CountOneMore(r) ==
  /\ CallAt(r, "count")
  /\ CallTo(r, IF Cardinality(AutosOf(today)) > MaxPerDay THEN "floor" ELSE "wallet")
  /\ UNCHANGED <<walletTables, walletRest>>

Count(r) ==
  /\ CallAt(r, "count")
  /\ CallTo(r, IF Cardinality(AutosOf(today)) >= MaxPerDay THEN "floor" ELSE "wallet")
  /\ UNCHANGED <<walletTables, walletRest>>

(* Mutant: the second try is taken to have worked.                         *)
CheckFloorOnce(r) ==
  /\ CallAt(r, "floor")
  /\ IF balance >= Floor \/ ~calls[r].again THEN CallTo(r, "spend")
     ELSE calls' = [calls EXCEPT ![r].again = FALSE, ![r].pc = "auto"]
  /\ UNCHANGED <<walletTables, walletRest>>

(* assertPrepaidCredit.                                                    *)
CheckFloor(r) ==
  /\ CallAt(r, "floor")
  /\ IF balance >= Floor THEN CallTo(r, "spend")
     ELSE IF calls[r].again
     THEN calls' = [calls EXCEPT ![r].again = FALSE, ![r].pc = "auto"]
     ELSE CallDone(r)
  /\ UNCHANGED <<walletTables, walletRest>>

Spend(r) ==
  /\ CallAt(r, "spend")
  /\ spends' = spends + 1
  /\ CallDone(r)
  /\ UNCHANGED <<balance, autoOn, ledger, invoices, walletRest>>

(* updateCreditAutoTopUpSettings patches the settings, not the balance.    *)
SaveAutoTopUp ==
  /\ Spare("staff", WalletStaff) /\ Use("staff")
  /\ autoOn' = ~autoOn
  /\ UNCHANGED <<balance, ledger, invoices, spends, calls, today, checkout, contested, mixed>>

NextDay ==
  /\ today < WalletDays
  /\ today' = today + 1
  /\ UNCHANGED <<walletTables, calls, checkout, walletUsed, contested, mixed>>

(* A write of a delivery throws: what it wrote stays, and Stripe is answered. *)
WriteThrows(r) ==
  /\ calls[r].job = "delivery" /\ calls[r].pc \in {"append", "balance", "invoice"}
  /\ Spare("faults", WalletFaults) /\ Use("faults")
  /\ CallDone(r)
  /\ checkout' = [checkout EXCEPT ![calls[r].subject] = "refused"]
  /\ mixed' = (mixed \/ CallAt(r, "balance"))
  /\ UNCHANGED <<walletTables, today, contested>>

(* The host kills a request: it leaves what it wrote and answers nothing.  (An
   update of an invoice that fails unseen leaves the same behind.) *)
Killed(r) ==
  /\ ~CallAt(r, "idle") /\ Spare("faults", WalletFaults) /\ Use("faults")
  /\ CallDone(r)
  /\ contested' = contested \cup ({calls[r].subject} \cap DOMAIN invoices)
  /\ mixed' = (mixed \/ CallAt(r, "balance"))
  /\ UNCHANGED <<walletTables, today, checkout>>

CallStep(r) ==
  \/ Lookup(r) \/ Find(r) \/ ReadWallet(r) \/ AppendLedger(r) \/ WriteBalance(r)
  \/ ReadNumber(r) \/ InsertInvoice(r) \/ MarkCredited(r) \/ MarkVoid(r)
  \/ MaybeAutoTopUp(r) \/ Count(r) \/ CheckFloor(r) \/ Spend(r)

WalletNext ==
  \/ \E s \in Sessions : Pay(s)
  \/ \E r \in Requests :
       \/ CallStep(r) \/ Killed(r) \/ WriteThrows(r)
       \/ \E s \in Sessions : Deliver(r, s) \/ DeliverAgain(r, s)
       \/ \E n \in DOMAIN invoices : CreditNote(r, n) \/ Void(r, n)
       \/ \E again \in BOOLEAN : BeginSpend(r, again)
  \/ SaveAutoTopUp \/ NextDay

(* Requests run on, and Stripe delivers a paid session until it is answered;
   nothing makes the client pay or the staff act. *)
WalletFairness ==
  /\ \A r \in Requests : WF_walletVars(CallStep(r))
  /\ \A s \in Sessions : WF_walletVars(\E r \in Requests : Deliver(r, s))

WalletSpec == WalletInit /\ [][WalletNext]_walletVars

-----------------------------------------------------------------------------
(* Types of the wallet's tables and requests.                              *)
WalletTypeOK ==
  /\ balance \in Nat /\ autoOn \in BOOLEAN /\ spends \in Nat /\ today \in Nat
  /\ ledger \in Seq([kind : {"top_up", "auto_top_up"}, session : Sessions \cup {NoSubject}, day : Nat])
  /\ invoices \in Seq([session : Sessions \cup {NoSubject}, credits : Nat,
                       status : {"issued", "credited", "void"}])
  /\ calls \in [Requests -> [pc : CallPC, job : Job, subject : Sessions \cup Nat \cup {NoSubject},
                             read : Nat, again : BOOLEAN]]
  /\ checkout \in [Sessions -> {"open", "paid", "answered", "refused"}]
  /\ walletUsed \in [{"faults", "repeats", "staff"} -> Nat]
  /\ contested \subseteq Sessions \cup Nat /\ mixed \in BOOLEAN

(* The balance never exceeds what the ledger explains, whatever overlaps and
   whatever is killed: the entry comes before the balance that rests on it
   (topUpCredit). *)
BalanceBacked == balance <= Len(ledger)

(* The balance falls short of the ledger only after two top-ups overlapped, or
   one was killed between its entry and its balance. *)
CreditsKept ==
  ~mixed /\ (\A r \in Requests : ~CallAt(r, "balance")) => balance = Len(ledger)

(* However often Stripe delivers a session, it is credited once and invoiced
   once, unless two deliveries ran at a time (applyPaidCreditTopUp); a killed
   delivery is not enough, because the entry is looked up too. *)
SessionCreditedOnce ==
  \A s \in Sessions :
    /\ Cardinality(InvoicesOf(s)) <= 1
    /\ InvoicesOf(s) # {} => CreditsOf(s) # {}
    /\ s \notin contested => Cardinality(CreditsOf(s)) <= 1

(* Automatic top-ups of a day exceed the limit by at most the other requests
   that counted before the last one was added (maybeAutoTopUp). *)
AutoTopUpsBounded ==
  \A d \in 0..today :
    AutosOf(d) # {} => Cardinality(AutosOf(d)) <= MaxPerDay + Cardinality(Requests) - 1

(* A spending decision is written only once the ledger has held the floor,
   however balances are overwritten in between (assertPrepaidCredit). *)
SpendFunded == spends > 0 => Len(ledger) >= Floor

(* An invoice is credited by one note, and is marked so only if it has one,
   unless two requests worked on it or one was killed (issueCreditNote). *)
CreditedByOneNote ==
  \A n \in DOMAIN invoices :
    /\ invoices[n].status = "credited" => NotesOn(n) # {}
    /\ n \notin contested => Cardinality(NotesOn(n)) <= 1

(* A session that was paid is credited, through kills and deliveries that
   collide, unless a delivery threw: the webhook acknowledges that, too (route
   and applyPaidCreditTopUp). *)
PaidIsCredited ==
  \A s \in Sessions : checkout[s] = "paid" ~> CreditsOf(s) # {} \/ checkout[s] = "refused"
=============================================================================
