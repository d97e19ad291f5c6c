------------------------- MODULE CreditWalletProofs -------------------------
(* Theorems about CreditWallet, for any sessions, requests, floors and limits,
   and any number of faults and repeated deliveries. *)
EXTENDS CreditWallet, FiniteSetTheorems, TLAPS

(* Type correctness, one part per group of variables.                      *)
Entry == [kind : {"top_up", "auto_top_up"}, session : Sessions \cup {NoSubject}, day : Nat]
Invoice == [session : Sessions \cup {NoSubject}, credits : Nat, status : {"issued", "credited", "void"}]
Call == [pc : CallPC, job : Job, subject : Sessions \cup Nat \cup {NoSubject}, read : Nat, again : BOOLEAN]

MoneyType == balance \in Nat /\ autoOn \in BOOLEAN /\ spends \in Nat /\ today \in Nat /\ ledger \in Seq(Entry)
InvoiceType == invoices \in Seq(Invoice)
CallType == calls \in [Requests -> Call]
CheckoutType == checkout \in [Sessions -> {"open", "paid", "answered", "refused"}]
UsedType == walletUsed \in [{"faults", "repeats", "staff"} -> Nat]
WalletHistoryType == contested \in SUBSET (Sessions \cup Nat) /\ mixed \in BOOLEAN

(* WalletTypeOK is the conjunction of its parts.                           *)
LEMMA WalletTypeParts ==
  /\ WalletTypeOK <=> MoneyType /\ InvoiceType /\ CallType /\ CheckoutType /\ UsedType /\ WalletHistoryType
  /\ WalletTypeOK' <=> MoneyType' /\ InvoiceType' /\ CallType' /\ CheckoutType' /\ UsedType' /\ WalletHistoryType'
BY DEF WalletTypeOK, MoneyType, InvoiceType, CallType, CheckoutType, UsedType, WalletHistoryType,
   Entry, Invoice, Call

(* What kind of request is at which point, and what it is about.           *)
JobOK(c) ==
  /\ c.pc \in {"lookup", "find"} => c.job = "delivery"
  /\ c.pc \in {"wallet", "append", "balance"} => c.job \in {"delivery", "spend"}
  /\ c.pc \in {"number", "invoice"} => c.job \in {"delivery", "note"}
  /\ c.pc \in {"auto", "count", "floor", "spend"} => c.job = "spend"
  /\ c.pc = "mark" => c.job = "note"
  /\ c.pc = "void" => c.job = "void"
  /\ c.job = "delivery" => c.subject \in Sessions
  /\ c.job \in {"note", "void"} => c.subject \in Nat
  /\ c.job = "spend" => c.subject = NoSubject

(* What a request is about to write is explained by a ledger of n entries. *)
Explained(c, n) ==
  /\ c.pc = "append" => c.read <= n
  /\ c.pc = "balance" => c.read + 1 <= n
  /\ c.pc = "spend" => Floor <= n

(* Until two top-ups overlap or one is cut short, one is under way at most, and
   it holds the balance, which lacks its own entry alone. *)
Undisturbed ==
  /\ \A q, r \in InTopUp : q = r
  /\ \A r \in Requests : CallAt(r, "append") => calls[r].read = balance /\ balance = Len(ledger)
  /\ \A r \in Requests : CallAt(r, "balance") => calls[r].read = balance /\ Len(ledger) = balance + 1
  /\ (\A r \in Requests : ~CallAt(r, "balance")) => balance = Len(ledger)

WalletInv ==
  /\ WalletTypeOK
  /\ \A r \in Requests : JobOK(calls[r]) /\ Explained(calls[r], Len(ledger))
  /\ BalanceBacked /\ SpendFunded
  /\ mixed \/ Undisturbed

-----------------------------------------------------------------------------
(* The ways a request moves on.                                            *)
LEMMA Moves ==
  ASSUME CallType, NEW r \in Requests, NEW pc \in CallPC, NEW n \in Nat
  PROVE  /\ CallTo(r, pc) =>
              /\ CallType' /\ \A q \in Requests : calls'[q] = IF q = r THEN [calls[r] EXCEPT !.pc = pc] ELSE calls[q]
         /\ CallRead(r, n, pc) =>
              /\ CallType'
              /\ \A q \in Requests : calls'[q] = IF q = r THEN [calls[r] EXCEPT !.pc = pc, !.read = n] ELSE calls[q]
         /\ CallDone(r) =>
              /\ CallType' /\ \A q \in Requests : calls'[q] = IF q = r THEN IdleCall ELSE calls[q]
<1>0. calls[r] \in Call  BY DEF CallType
<1>1. IdleCall \in Call  BY DEF IdleCall, Call, CallPC, Job
<1>2. ASSUME NEW k \in Call, calls' = [calls EXCEPT ![r] = k]
      PROVE  CallType' /\ \A q \in Requests : calls'[q] = IF q = r THEN k ELSE calls[q]
  BY <1>2 DEF CallType
<1>3. ASSUME CallTo(r, pc)
      PROVE  CallType' /\ \A q \in Requests : calls'[q] = IF q = r THEN [calls[r] EXCEPT !.pc = pc] ELSE calls[q]
  <2> DEFINE k == [calls[r] EXCEPT !.pc = pc]
  <2>1. k \in Call  BY <1>0 DEF Call
  <2>2. calls' = [calls EXCEPT ![r] = k]  BY <1>3 DEF CallTo
  <2> HIDE DEF k
  <2>3. CallType' /\ \A q \in Requests : calls'[q] = IF q = r THEN k ELSE calls[q]  BY <1>2, <2>1, <2>2
  <2> QED  BY <2>3 DEF k
<1>4. ASSUME CallRead(r, n, pc)
      PROVE  CallType' /\ \A q \in Requests : calls'[q] = IF q = r THEN [calls[r] EXCEPT !.pc = pc, !.read = n] ELSE calls[q]
  <2> DEFINE k == [calls[r] EXCEPT !.pc = pc, !.read = n]
  <2>1. k \in Call  BY <1>0 DEF Call
  <2>2. calls' = [calls EXCEPT ![r] = k]  BY <1>0, <1>4 DEF CallRead, CallType, Call
  <2> HIDE DEF k
  <2>3. CallType' /\ \A q \in Requests : calls'[q] = IF q = r THEN k ELSE calls[q]  BY <1>2, <2>1, <2>2
  <2> QED  BY <2>3 DEF k
<1>5. CallDone(r) => CallType' /\ \A q \in Requests : calls'[q] = IF q = r THEN IdleCall ELSE calls[q]
  BY <1>1, <1>2 DEF CallDone
<1> QED  BY <1>3, <1>4, <1>5

(* A request that moves on outside a top-up, with the money left alone, keeps
   the invariant. *)
LEMMA Aside ==
  ASSUME WalletInv, NEW r \in Requests, NEW k,
         \A q \in Requests : calls'[q] = IF q = r THEN k ELSE calls[q],
         k.pc \notin {"append", "balance"}, JobOK(k), Explained(k, Len(ledger)),
         ~CallAt(r, "balance"), WalletTypeOK',
         UNCHANGED <<balance, ledger, spends, mixed>>
  PROVE  WalletInv'
<1>1. \A q \in Requests : JobOK(calls'[q]) /\ Explained(calls'[q], Len(ledger'))
  BY DEF WalletInv
<1>2. BalanceBacked' /\ SpendFunded'  BY DEF WalletInv, BalanceBacked, SpendFunded
<1>3. ASSUME ~mixed  PROVE Undisturbed'
  <2>1. Undisturbed  BY <1>3 DEF WalletInv
  <2>2. \A q \in Requests : (CallAt(q, "append"))' => CallAt(q, "append") /\ calls'[q] = calls[q]
    BY DEF CallAt
  <2>3. \A q \in Requests : /\ (CallAt(q, "balance"))' <=> CallAt(q, "balance")
                            /\ (CallAt(q, "balance"))' => calls'[q] = calls[q]
    BY DEF CallAt
  <2>4. InTopUp' \subseteq InTopUp  BY DEF InTopUp
  <2> QED  BY <2>1, <2>2, <2>3, <2>4 DEF Undisturbed
<1> QED  BY <1>1, <1>2, <1>3 DEF WalletInv

(* A request that begins.                                                  *)
LEMMA BeginKeeps ==
  ASSUME WalletInv, NEW r \in Requests, NEW job \in Job, NEW subject \in Sessions \cup Nat \cup {NoSubject},
         NEW pc \in {"lookup", "number", "void", "auto"}, NEW again \in BOOLEAN,
         Begin(r, job, subject, pc, again),
         \/ pc = "lookup" /\ job = "delivery" /\ subject \in Sessions
         \/ pc = "number" /\ job = "note" /\ subject \in Nat
         \/ pc = "void" /\ job = "void" /\ subject \in Nat
         \/ pc = "auto" /\ job = "spend" /\ subject = NoSubject,
         CheckoutType', UsedType'
  PROVE  WalletInv'
<1> DEFINE k == [pc |-> pc, job |-> job, subject |-> subject, read |-> 0, again |-> again]
<1>0. MoneyType /\ InvoiceType /\ CallType /\ WalletHistoryType  BY WalletTypeParts DEF WalletInv
<1>1. calls' = [calls EXCEPT ![r] = k] /\ CallAt(r, "idle") /\ UNCHANGED <<walletTables, today, mixed>>
  BY DEF Begin
<1>2. k \in Call /\ k.pc \notin {"append", "balance", "spend"} /\ JobOK(k)  BY DEF Call, CallPC, JobOK
<1>3. contested' \in SUBSET (Sessions \cup Nat)  BY <1>0 DEF Begin, WalletHistoryType
<1> HIDE DEF k
<1>4. CallType' /\ \A q \in Requests : calls'[q] = IF q = r THEN k ELSE calls[q]
  BY <1>0, <1>1, <1>2 DEF CallType
<1>5. WalletTypeOK'
  BY <1>0, <1>1, <1>3, <1>4, WalletTypeParts DEF MoneyType, InvoiceType, WalletHistoryType, walletTables
<1>6. Explained(k, Len(ledger))  BY <1>2 DEF Explained
<1>7. ~CallAt(r, "balance")  BY <1>1 DEF CallAt
<1>8. UNCHANGED <<balance, ledger, spends, mixed>>  BY <1>1 DEF walletTables
<1> QED  BY <1>2, <1>4, <1>5, <1>6, <1>7, <1>8, Aside

LEMMA BeginningsKeep ==
  ASSUME WalletInv, NEW r \in Requests,
         \/ \E s \in Sessions : Deliver(r, s) \/ DeliverAgain(r, s)
         \/ \E n \in DOMAIN invoices : CreditNote(r, n) \/ Void(r, n)
         \/ \E again \in BOOLEAN : BeginSpend(r, again)
  PROVE  WalletInv'
<1>0. InvoiceType /\ CheckoutType /\ UsedType  BY WalletTypeParts DEF WalletInv
<1>1. DOMAIN invoices \subseteq Nat  BY <1>0 DEF InvoiceType
<1>2. UNCHANGED checkout => CheckoutType'  BY <1>0 DEF CheckoutType
<1>3. UNCHANGED walletUsed => UsedType'  BY <1>0 DEF UsedType
<1>4. \A b \in {"faults", "repeats", "staff"} : Use(b) => UsedType'  BY <1>0 DEF UsedType, Use
<1>5. ASSUME NEW s \in Sessions, Deliver(r, s) \/ DeliverAgain(r, s)  PROVE WalletInv'
  <2>1. Begin(r, "delivery", s, "lookup", FALSE) /\ CheckoutType' /\ UsedType'
    BY <1>2, <1>3, <1>4, <1>5 DEF Deliver, DeliverAgain
  <2>2. "delivery" \in Job  BY DEF Job
  <2> QED  BY <2>1, <2>2, BeginKeeps
<1>6. ASSUME NEW n \in DOMAIN invoices, CreditNote(r, n)  PROVE WalletInv'
  <2>1. Begin(r, "note", n, "number", FALSE) /\ CheckoutType' /\ UsedType'
    BY <1>2, <1>4, <1>6 DEF CreditNote
  <2>2. "note" \in Job /\ n \in Nat  BY <1>1 DEF Job
  <2> QED  BY <2>1, <2>2, BeginKeeps
<1>7. ASSUME NEW n \in DOMAIN invoices, Void(r, n)  PROVE WalletInv'
  <2>1. Begin(r, "void", n, "void", FALSE) /\ CheckoutType' /\ UsedType'
    BY <1>2, <1>4, <1>7 DEF Void
  <2>2. "void" \in Job /\ n \in Nat  BY <1>1 DEF Job
  <2> QED  BY <2>1, <2>2, BeginKeeps
<1>8. ASSUME NEW again \in BOOLEAN, BeginSpend(r, again)  PROVE WalletInv'
  <2>1. Begin(r, "spend", NoSubject, "auto", again) /\ CheckoutType' /\ UsedType'
    BY <1>2, <1>4, <1>8 DEF BeginSpend
  <2>2. "spend" \in Job  BY DEF Job
  <2> QED  BY <2>1, <2>2, BeginKeeps
<1> QED  BY <1>5, <1>6, <1>7, <1>8

(* The end of a request, with its answer.                                  *)
LEMMA Overs ==
  ASSUME CheckoutType, NEW r \in Requests, Over(r)
  PROVE  CallDone(r) /\ CheckoutType'
BY DEF Over, CheckoutType

(* A request ends.                                                         *)
LEMMA Ends ==
  ASSUME CallType, NEW r \in Requests, CallDone(r)
  PROVE  CallType' /\ \A q \in Requests : calls'[q] = IF q = r THEN IdleCall ELSE calls[q]
<1>1. "idle" \in CallPC /\ 0 \in Nat  BY DEF CallPC
<1> QED  BY <1>1, Moves

(* A request at rest explains itself.                                      *)
LEMMA AtRest ==
  \A n \in Nat : /\ IdleCall.pc = "idle" /\ IdleCall.pc \notin {"append", "balance"}
                 /\ JobOK(IdleCall) /\ Explained(IdleCall, n)
BY DEF IdleCall, JobOK, Explained

(* The lookups and decisions of a request, and its invoice.                *)
LEMMA LooksKeep ==
  ASSUME WalletInv, NEW r \in Requests,
         Lookup(r) \/ Find(r) \/ ReadNumber(r) \/ MaybeAutoTopUp(r) \/ Count(r)
  PROVE  WalletInv'
<1>0. /\ MoneyType /\ InvoiceType /\ CallType /\ CheckoutType /\ UsedType /\ WalletHistoryType
      /\ calls[r] \in Call /\ JobOK(calls[r]) /\ Len(ledger) \in Nat
  BY WalletTypeParts DEF WalletInv, CallType, MoneyType
<1>1. UNCHANGED <<walletTables, today, walletUsed, contested, mixed>>
  BY DEF Lookup, Find, ReadNumber, MaybeAutoTopUp, Count, walletRest
<1>2. ~CallAt(r, "balance")  BY DEF Lookup, Find, ReadNumber, MaybeAutoTopUp, Count, CallAt
<1>t. CallType' /\ CheckoutType' => WalletTypeOK'
  BY <1>0, <1>1, WalletTypeParts DEF MoneyType, InvoiceType, UsedType, WalletHistoryType, walletTables
<1>k. ASSUME NEW k, CallType' /\ CheckoutType',
             \A q \in Requests : calls'[q] = IF q = r THEN k ELSE calls[q],
             k.pc \notin {"append", "balance", "spend"}, JobOK(k)
      PROVE  WalletInv'
  <2>1. Explained(k, Len(ledger))  BY <1>k DEF Explained
  <2> QED  BY <1>1, <1>2, <1>t, <1>k, <2>1, Aside DEF walletTables
<1>3. ASSUME CallDone(r), CheckoutType'  PROVE WalletInv'
  <2>1. CallType' /\ \A q \in Requests : calls'[q] = IF q = r THEN IdleCall ELSE calls[q]
    BY <1>0, <1>3, Ends
  <2>2. IdleCall.pc = "idle" /\ JobOK(IdleCall)  BY <1>0, AtRest
  <2> QED  BY <1>3, <1>k, <2>1, <2>2
<1>4. ASSUME NEW pc \in CallPC, NEW n \in Nat, CallTo(r, pc) \/ CallRead(r, n, pc), UNCHANGED checkout,
             pc \notin {"append", "balance", "spend"},
             \/ pc \in {"find"} /\ CallAt(r, "lookup")
             \/ pc \in {"number", "wallet"} /\ CallAt(r, "find")
             \/ pc = "invoice" /\ CallAt(r, "number")
             \/ pc \in {"count", "floor"} /\ CallAt(r, "auto")
             \/ pc \in {"wallet", "floor"} /\ CallAt(r, "count")
      PROVE  WalletInv'
  <2>1. CheckoutType'  BY <1>0, <1>4 DEF CheckoutType
  <2>2. CASE CallTo(r, pc)
    <3> DEFINE k == [calls[r] EXCEPT !.pc = pc]
    <3>1. k.pc = pc /\ JobOK(k)  BY <1>0, <1>4 DEF JobOK, CallAt, Call
    <3>2. CallType' /\ \A q \in Requests : calls'[q] = IF q = r THEN k ELSE calls[q]
      BY <1>0, <2>2, Moves
    <3> HIDE DEF k
    <3> QED  BY <1>4, <1>k, <2>1, <3>1, <3>2
  <2>3. CASE CallRead(r, n, pc)
    <3> DEFINE k == [calls[r] EXCEPT !.pc = pc, !.read = n]
    <3>1. k.pc = pc /\ JobOK(k)  BY <1>0, <1>4 DEF JobOK, CallAt, Call
    <3>2. CallType' /\ \A q \in Requests : calls'[q] = IF q = r THEN k ELSE calls[q]
      BY <1>0, <2>3, Moves
    <3> HIDE DEF k
    <3> QED  BY <1>4, <1>k, <2>1, <3>1, <3>2
  <2> QED  BY <1>4, <2>2, <2>3
<1>5. CASE Lookup(r)
  <2>1. CASE Over(r)  BY <1>0, <1>3, <2>1, Overs
  <2>2. CASE CallTo(r, "find") /\ UNCHANGED checkout
    <3>1. "find" \in CallPC /\ CallAt(r, "lookup")  BY <1>5 DEF CallPC, Lookup
    <3> QED  BY <1>4, <2>2, <3>1
  <2> QED  BY <1>5, <2>1, <2>2 DEF Lookup
<1>6. CASE Find(r)
  <2>1. PICK pc \in {"number", "wallet"} : CallTo(r, pc)  BY <1>6 DEF Find
  <2>2. pc \in CallPC /\ CallAt(r, "find") /\ UNCHANGED checkout  BY <1>6 DEF CallPC, Find, walletRest
  <2> QED  BY <1>4, <2>1, <2>2
<1>7. CASE ReadNumber(r)
  <2>1. CASE Over(r)  BY <1>0, <1>3, <2>1, Overs
  <2>2. CASE CallRead(r, Len(invoices) + 1, "invoice") /\ UNCHANGED checkout
    <3>1. "invoice" \in CallPC /\ CallAt(r, "number")  BY <1>7 DEF CallPC, ReadNumber
    <3>2. Len(invoices) + 1 \in Nat  BY <1>0 DEF InvoiceType
    <3> QED  BY <1>4, <2>2, <3>1, <3>2
  <2> QED  BY <1>7, <2>1, <2>2 DEF ReadNumber
<1>8. CASE MaybeAutoTopUp(r)
  <2>1. PICK pc \in {"count", "floor"} : CallTo(r, pc)  BY <1>8 DEF MaybeAutoTopUp
  <2>2. pc \in CallPC /\ CallAt(r, "auto") /\ UNCHANGED checkout  BY <1>8 DEF CallPC, MaybeAutoTopUp, walletRest
  <2> QED  BY <1>4, <2>1, <2>2
<1>9. CASE Count(r)
  <2>1. PICK pc \in {"wallet", "floor"} : CallTo(r, pc)  BY <1>9 DEF Count
  <2>2. pc \in CallPC /\ CallAt(r, "count") /\ UNCHANGED checkout  BY <1>9 DEF CallPC, Count, walletRest
  <2> QED  BY <1>4, <2>1, <2>2
<1> QED  BY <1>5, <1>6, <1>7, <1>8, <1>9

(* The writes to invoices, and requests that are cut short outside a top-up's
   last step. *)
LEMMA InvoicesKeep ==
  ASSUME WalletInv, NEW r \in Requests,
         \/ InsertInvoice(r) \/ MarkCredited(r) \/ MarkVoid(r)
         \/ ~CallAt(r, "balance") /\ (WriteThrows(r) \/ Killed(r))
  PROVE  WalletInv'
<1>0. /\ MoneyType /\ InvoiceType /\ CallType /\ CheckoutType /\ UsedType /\ WalletHistoryType
      /\ calls[r] \in Call /\ JobOK(calls[r]) /\ Len(ledger) \in Nat
  BY WalletTypeParts DEF WalletInv, CallType, MoneyType
<1>1. ~CallAt(r, "balance") /\ UNCHANGED <<balance, ledger, spends, mixed, autoOn, today>>
  BY <1>0 DEF InsertInvoice, MarkCredited, MarkVoid, WriteThrows, Killed, CallAt, walletRest,
     walletTables, WalletHistoryType
<1>2. CheckoutType'
  BY <1>0, Overs DEF InsertInvoice, MarkCredited, MarkVoid, WriteThrows, Killed, walletRest, CheckoutType
<1>3. UsedType'
  BY <1>0 DEF InsertInvoice, MarkCredited, MarkVoid, WriteThrows, Killed, walletRest, UsedType, Use
<1>4. contested' \in SUBSET (Sessions \cup Nat)
  <2>1. DOMAIN invoices \subseteq Nat  BY <1>0 DEF InvoiceType
  <2> QED  BY <1>0, <2>1 DEF InsertInvoice, MarkCredited, MarkVoid, WriteThrows, Killed, walletRest,
              WalletHistoryType
<1>5. InvoiceType'
  <2>1. CASE InsertInvoice(r)
    <3> DEFINE c == calls[r]
               v == [session |-> IF c.job = "delivery" THEN c.subject ELSE NoSubject,
                     credits |-> IF c.job = "delivery" THEN 0 ELSE c.subject, status |-> "issued"]
    <3>1. c.pc = "invoice"  BY <2>1 DEF InsertInvoice, CallAt
    <3>2. v \in Invoice  BY <1>0, <3>1 DEF JobOK, Invoice
    <3>3. invoices' = invoices \/ invoices' = Append(invoices, v)  BY <2>1 DEF InsertInvoice
    <3> HIDE DEF v
    <3> QED  BY <1>0, <3>2, <3>3 DEF InvoiceType
  <2>2. ASSUME NEW n, NEW st \in {"credited", "void"}, invoices' = [invoices EXCEPT ![n].status = st]
        PROVE  InvoiceType'
    <3>1. CASE n \notin DOMAIN invoices
      <4>1. invoices' = invoices  BY <1>0, <2>2, <3>1 DEF InvoiceType
      <4> QED  BY <1>0, <4>1 DEF InvoiceType
    <3>2. CASE n \in DOMAIN invoices
      <4> DEFINE v == [invoices[n] EXCEPT !.status = st]
      <4>0. invoices[n] \in Invoice  BY <1>0, <3>2 DEF InvoiceType
      <4>1. v \in Invoice  BY <4>0 DEF Invoice
      <4>2. invoices' = [invoices EXCEPT ![n] = v]  BY <2>2
      <4> HIDE DEF v
      <4> QED  BY <1>0, <3>2, <4>1, <4>2 DEF InvoiceType
    <3> QED  BY <3>1, <3>2
  <2>3. CASE MarkCredited(r) \/ MarkVoid(r)  BY <2>2, <2>3 DEF MarkCredited, MarkVoid
  <2>4. CASE WriteThrows(r) \/ Killed(r)
    BY <1>0, <2>4 DEF WriteThrows, Killed, walletTables, InvoiceType
  <2> QED  BY <2>1, <2>3, <2>4
<1>t. CallType' => WalletTypeOK'
  BY <1>0, <1>1, <1>2, <1>3, <1>4, <1>5, WalletTypeParts DEF MoneyType, WalletHistoryType
<1>6. CASE CallDone(r)
  <2>1. CallType' /\ \A q \in Requests : calls'[q] = IF q = r THEN IdleCall ELSE calls[q]
    BY <1>0, <1>6, Ends
  <2> QED  BY <1>0, <1>1, <1>t, <2>1, AtRest, Aside
<1>7. CASE InsertInvoice(r) /\ calls[r].job # "delivery" /\ CallTo(r, "mark")
  <2> DEFINE k == [calls[r] EXCEPT !.pc = "mark"]
  <2>1. calls[r].job = "note"  BY <1>0, <1>7 DEF InsertInvoice, CallAt, JobOK
  <2>2. k.pc = "mark" /\ JobOK(k) /\ Explained(k, Len(ledger))
    BY <1>0, <2>1 DEF JobOK, Explained, Call
  <2>3. CallType' /\ \A q \in Requests : calls'[q] = IF q = r THEN k ELSE calls[q]
    <3>1. "mark" \in CallPC /\ 0 \in Nat  BY DEF CallPC
    <3> QED  BY <1>0, <1>7, <3>1, Moves
  <2> HIDE DEF k
  <2> QED  BY <1>1, <1>t, <2>2, <2>3, Aside
<1> QED  BY <1>0, <1>6, <1>7, Overs DEF InsertInvoice, MarkCredited, MarkVoid, WriteThrows, Killed

(* A top-up reads the wallet.                                              *)
LEMMA ReadKeeps ==
  ASSUME WalletInv, NEW r \in Requests, ReadWallet(r)
  PROVE  WalletInv'
<1> DEFINE k == [calls[r] EXCEPT !.pc = "append", !.read = balance]
<1>0. /\ MoneyType /\ InvoiceType /\ CallType /\ CheckoutType /\ UsedType /\ WalletHistoryType
      /\ calls[r] \in Call /\ JobOK(calls[r]) /\ Len(ledger) \in Nat /\ balance \in Nat
  BY WalletTypeParts DEF WalletInv, CallType, MoneyType
<1>1. /\ CallAt(r, "wallet") /\ CallRead(r, balance, "append")
      /\ mixed' = (mixed \/ InTopUp # {})
      /\ UNCHANGED <<balance, autoOn, ledger, invoices, spends, today, checkout, walletUsed, contested>>
  BY DEF ReadWallet, walletTables
<1>2. CallType' /\ \A q \in Requests : calls'[q] = IF q = r THEN k ELSE calls[q]
  <2>1. "append" \in CallPC  BY DEF CallPC
  <2> QED  BY <1>0, <1>1, <2>1, Moves
<1>3. WalletTypeOK'
  BY <1>0, <1>1, <1>2, WalletTypeParts
  DEF MoneyType, InvoiceType, CheckoutType, UsedType, WalletHistoryType
<1>4. k.pc = "append" /\ k.read = balance /\ JobOK(k)  BY <1>0, <1>1 DEF JobOK, Call, CallAt
<1> HIDE DEF k
<1>5. Explained(k, Len(ledger))  BY <1>4 DEF Explained, WalletInv, BalanceBacked
<1>6. \A q \in Requests : JobOK(calls'[q]) /\ Explained(calls'[q], Len(ledger'))
  BY <1>1, <1>2, <1>4, <1>5 DEF WalletInv
<1>7. ASSUME ~mixed'  PROVE Undisturbed'
  <2>1. Undisturbed /\ InTopUp = {}  BY <1>1, <1>7 DEF WalletInv
  <2>2. \A q \in Requests : calls[q].pc \notin {"append", "balance"}  BY <2>1 DEF InTopUp
  <2>3. balance = Len(ledger)  BY <2>1, <2>2 DEF Undisturbed, CallAt
  <2>4. \A q \in Requests : calls'[q].pc \in {"append", "balance"} => q = r /\ calls'[q] = k
    BY <1>2, <2>2
  <2> QED  BY <1>1, <1>4, <2>3, <2>4 DEF Undisturbed, InTopUp, CallAt
<1> QED  BY <1>1, <1>3, <1>6, <1>7 DEF WalletInv, BalanceBacked, SpendFunded

(* A top-up's entry.                                                       *)
LEMMA EntryKeeps ==
  ASSUME WalletInv, NEW r \in Requests, AppendLedger(r)
  PROVE  WalletInv'
<1> DEFINE k == [calls[r] EXCEPT !.pc = "balance"]
           e == [kind |-> IF calls[r].job = "delivery" THEN "top_up" ELSE "auto_top_up",
                 session |-> calls[r].subject, day |-> today]
<1>0. /\ MoneyType /\ InvoiceType /\ CallType /\ CheckoutType /\ UsedType /\ WalletHistoryType
      /\ calls[r] \in Call /\ JobOK(calls[r]) /\ Explained(calls[r], Len(ledger))
      /\ Len(ledger) \in Nat /\ balance \in Nat
  BY WalletTypeParts DEF WalletInv, CallType, MoneyType
<1>1. /\ CallAt(r, "append") /\ CallTo(r, "balance") /\ ledger' = Append(ledger, e)
      /\ UNCHANGED <<balance, autoOn, invoices, spends, today, checkout, walletUsed, contested, mixed>>
  BY DEF AppendLedger, walletRest
<1>2. CallType' /\ \A q \in Requests : calls'[q] = IF q = r THEN k ELSE calls[q]
  <2>1. "balance" \in CallPC /\ 0 \in Nat  BY DEF CallPC
  <2> QED  BY <1>0, <1>1, <2>1, Moves
<1>3. e \in Entry  BY <1>0, <1>1 DEF JobOK, CallAt, Entry, MoneyType
<1>4. k.pc = "balance" /\ k.read = calls[r].read /\ k.read \in Nat /\ JobOK(k)
  BY <1>0, <1>1 DEF JobOK, Call, CallAt
<1> HIDE DEF e, k
<1>5. ledger' \in Seq(Entry) /\ Len(ledger') = Len(ledger) + 1  BY <1>0, <1>1, <1>3 DEF MoneyType
<1>6. WalletTypeOK'
  BY <1>0, <1>1, <1>2, <1>5, WalletTypeParts
  DEF MoneyType, InvoiceType, CheckoutType, UsedType, WalletHistoryType
<1>7. Explained(k, Len(ledger'))  BY <1>0, <1>1, <1>4, <1>5 DEF Explained, CallAt
<1>8. \A q \in Requests : JobOK(calls'[q]) /\ Explained(calls'[q], Len(ledger'))
  <2> TAKE q \in Requests
  <2>1. CASE q = r  BY <1>2, <1>4, <1>7, <2>1
  <2>2. CASE q # r
    <3>1. calls'[q] = calls[q] /\ calls[q] \in Call /\ JobOK(calls[q]) /\ Explained(calls[q], Len(ledger))
      BY <1>0, <1>2, <2>2 DEF WalletInv, CallType
    <3>2. calls[q].read \in Nat /\ Floor \in Nat  BY <3>1, WalletAssumption DEF Call
    <3> QED  BY <1>0, <1>5, <3>1, <3>2 DEF Explained
  <2> QED  BY <2>1, <2>2
<1>9. BalanceBacked' /\ SpendFunded'
  BY <1>0, <1>1, <1>5, WalletAssumption DEF WalletInv, BalanceBacked, SpendFunded
<1>10. ASSUME ~mixed'  PROVE Undisturbed'
  <2>1. Undisturbed /\ r \in InTopUp  BY <1>1, <1>10 DEF WalletInv, InTopUp, CallAt
  <2>2. \A q \in Requests : q # r => calls[q].pc \notin {"append", "balance"}
    BY <2>1 DEF InTopUp, Undisturbed
  <2>3. balance = Len(ledger) /\ calls[r].read = balance  BY <1>1, <2>1 DEF Undisturbed
  <2>4. \A q \in Requests : calls'[q].pc \in {"append", "balance"} => q = r /\ calls'[q] = k
    BY <1>2, <2>2
  <2>5. calls'[r] = k  BY <1>2
  <2> QED  BY <1>0, <1>1, <1>4, <1>5, <2>3, <2>4, <2>5 DEF Undisturbed, InTopUp, CallAt
<1> QED  BY <1>6, <1>8, <1>9, <1>10 DEF WalletInv

(* A top-up's balance.                                                     *)
LEMMA BalanceKeeps ==
  ASSUME WalletInv, NEW r \in Requests, WriteBalance(r)
  PROVE  WalletInv'
<1> DEFINE pc == IF calls[r].job = "delivery" THEN "number" ELSE "floor"
           k == [calls[r] EXCEPT !.pc = pc, !.read = 0]
<1>0. /\ MoneyType /\ InvoiceType /\ CallType /\ CheckoutType /\ UsedType /\ WalletHistoryType
      /\ calls[r] \in Call /\ JobOK(calls[r]) /\ Explained(calls[r], Len(ledger))
      /\ Len(ledger) \in Nat /\ balance \in Nat
  BY WalletTypeParts DEF WalletInv, CallType, MoneyType
<1>1. /\ CallAt(r, "balance") /\ CallRead(r, 0, pc) /\ balance' = calls[r].read + 1
      /\ UNCHANGED <<ledger, autoOn, invoices, spends, today, checkout, walletUsed, contested, mixed>>
  BY DEF WriteBalance, walletRest
<1>2. CallType' /\ \A q \in Requests : calls'[q] = IF q = r THEN k ELSE calls[q]
  <2>1. pc \in CallPC /\ 0 \in Nat  BY DEF CallPC
  <2> HIDE DEF pc
  <2> QED  BY <1>0, <1>1, <2>1, Moves
<1>3. k.pc \in {"number", "floor"} /\ JobOK(k)  BY <1>0, <1>1 DEF JobOK, Call, CallAt
<1> HIDE DEF k, pc
<1>4. balance' \in Nat /\ balance' <= Len(ledger)
  BY <1>0, <1>1 DEF Explained, CallAt, Call
<1>5. WalletTypeOK'
  BY <1>0, <1>1, <1>2, <1>4, WalletTypeParts
  DEF MoneyType, InvoiceType, CheckoutType, UsedType, WalletHistoryType
<1>6. \A q \in Requests : JobOK(calls'[q]) /\ Explained(calls'[q], Len(ledger'))
  BY <1>1, <1>2, <1>3 DEF WalletInv, Explained
<1>7. ASSUME ~mixed'  PROVE Undisturbed'
  <2>1. Undisturbed /\ r \in InTopUp  BY <1>1, <1>7 DEF WalletInv, InTopUp, CallAt
  <2>2. \A q \in Requests : q # r => calls[q].pc \notin {"append", "balance"}
    BY <2>1 DEF InTopUp, Undisturbed
  <2>3. Len(ledger) = balance + 1 /\ calls[r].read = balance  BY <1>1, <2>1 DEF Undisturbed
  <2>4. \A q \in Requests : calls'[q].pc \notin {"append", "balance"}  BY <1>2, <1>3, <2>2
  <2> QED  BY <1>0, <1>1, <2>3, <2>4 DEF Undisturbed, InTopUp, CallAt
<1> QED  BY <1>1, <1>4, <1>5, <1>6, <1>7 DEF WalletInv, BalanceBacked, SpendFunded

(* The floor is asked, and the spending decision written.                  *)
LEMMA SpendingKeeps ==
  ASSUME WalletInv, NEW r \in Requests, CheckFloor(r) \/ Spend(r)
  PROVE  WalletInv'
<1>0. /\ MoneyType /\ InvoiceType /\ CallType /\ CheckoutType /\ UsedType /\ WalletHistoryType
      /\ calls[r] \in Call /\ JobOK(calls[r]) /\ Explained(calls[r], Len(ledger))
      /\ Len(ledger) \in Nat /\ balance \in Nat /\ Floor \in Nat
  BY WalletTypeParts, WalletAssumption DEF WalletInv, CallType, MoneyType
<1>1. /\ UNCHANGED <<balance, ledger, autoOn, invoices, today, checkout, walletUsed, contested, mixed>>
      /\ ~CallAt(r, "balance")
  BY DEF CheckFloor, Spend, walletTables, walletRest, CallAt
<1>t. CallType' /\ spends' \in Nat => WalletTypeOK'
  BY <1>0, <1>1, WalletTypeParts DEF MoneyType, InvoiceType, CheckoutType, UsedType, WalletHistoryType
<1>2. CASE CheckFloor(r)
  <2>1. UNCHANGED spends /\ calls[r].pc = "floor"  BY <1>2 DEF CheckFloor, walletTables, CallAt
  <2>s. spends' \in Nat  BY <1>0, <2>1 DEF MoneyType
  <2>2. CASE balance >= Floor /\ CallTo(r, "spend")
    <3> DEFINE k == [calls[r] EXCEPT !.pc = "spend"]
    <3>1. CallType' /\ \A q \in Requests : calls'[q] = IF q = r THEN k ELSE calls[q]
      <4>1. "spend" \in CallPC /\ 0 \in Nat  BY DEF CallPC
      <4> QED  BY <1>0, <2>2, <4>1, Moves
    <3>2. k.pc = "spend" /\ JobOK(k)  BY <1>0, <2>1 DEF JobOK, Call
    <3> HIDE DEF k
    <3>3. Explained(k, Len(ledger))  BY <1>0, <2>2, <3>2 DEF Explained, WalletInv, BalanceBacked
    <3> QED  BY <1>1, <1>t, <2>1, <2>s, <3>1, <3>2, <3>3, Aside
  <2>3. CASE calls' = [calls EXCEPT ![r].again = FALSE, ![r].pc = "auto"]
    <3> DEFINE k == [calls[r] EXCEPT !.again = FALSE, !.pc = "auto"]
    <3>1. calls' = [calls EXCEPT ![r] = k]  BY <1>0, <2>3 DEF CallType, Call
    <3>2. k \in Call /\ k.pc = "auto" /\ JobOK(k)  BY <1>0, <2>1 DEF JobOK, Call, CallPC
    <3> HIDE DEF k
    <3>3. CallType' /\ \A q \in Requests : calls'[q] = IF q = r THEN k ELSE calls[q]
      BY <1>0, <3>1, <3>2 DEF CallType
    <3>4. Explained(k, Len(ledger))  BY <3>2 DEF Explained
    <3> QED  BY <1>1, <1>t, <2>1, <2>s, <3>2, <3>3, <3>4, Aside
  <2>4. CASE CallDone(r)
    <3>1. CallType' /\ \A q \in Requests : calls'[q] = IF q = r THEN IdleCall ELSE calls[q]
      BY <1>0, <2>4, Ends
    <3> QED  BY <1>0, <1>1, <1>t, <2>1, <2>s, <3>1, AtRest, Aside
  <2> QED  BY <1>2, <2>2, <2>3, <2>4 DEF CheckFloor
<1>3. CASE Spend(r)
  <2>1. CallType' /\ \A q \in Requests : calls'[q] = IF q = r THEN IdleCall ELSE calls[q]
    BY <1>0, <1>3, Ends DEF Spend
  <2>2. WalletTypeOK'  BY <1>0, <1>3, <1>t, <2>1 DEF Spend, MoneyType
  <2>3. SpendFunded'  BY <1>0, <1>1, <1>3 DEF Spend, CallAt, Explained, SpendFunded
  <2>4. \A q \in Requests : JobOK(calls'[q]) /\ Explained(calls'[q], Len(ledger'))
    BY <1>0, <1>1, <2>1, AtRest DEF WalletInv
  <2>5. ASSUME ~mixed  PROVE Undisturbed'
    <3>1. Undisturbed  BY <2>5 DEF WalletInv
    <3>2. \A q \in Requests : calls'[q].pc \in {"append", "balance"} => calls'[q] = calls[q]
      BY <1>0, <2>1, AtRest
    <3>3. \A q \in Requests : calls[q].pc \in {"append", "balance"} => calls'[q] = calls[q]
      BY <1>3, <2>1 DEF Spend, CallAt
    <3> QED  BY <1>1, <3>1, <3>2, <3>3 DEF Undisturbed, InTopUp, CallAt
  <2> QED  BY <1>1, <2>2, <2>3, <2>4, <2>5 DEF WalletInv, BalanceBacked
<1> QED  BY <1>2, <1>3

(* A top-up cut short between its entry and its balance is on record.      *)
LEMMA CutShortKeeps ==
  ASSUME WalletInv, NEW r \in Requests, CallAt(r, "balance"), WriteThrows(r) \/ Killed(r)
  PROVE  WalletInv'
<1>0. /\ MoneyType /\ InvoiceType /\ CallType /\ CheckoutType /\ UsedType /\ WalletHistoryType
      /\ Len(ledger) \in Nat
  BY WalletTypeParts DEF WalletInv, MoneyType
<1>1. /\ UNCHANGED <<balance, ledger, autoOn, invoices, spends, today>> /\ mixed' = TRUE /\ CallDone(r)
  BY DEF WriteThrows, Killed, walletTables
<1>2. CallType' /\ \A q \in Requests : calls'[q] = IF q = r THEN IdleCall ELSE calls[q]
  BY <1>0, <1>1, Ends
<1>3. CheckoutType'  BY <1>0 DEF WriteThrows, Killed, CheckoutType
<1>4. UsedType'  BY <1>0 DEF WriteThrows, Killed, UsedType, Use
<1>5. contested' \in SUBSET (Sessions \cup Nat)
  <2>1. DOMAIN invoices \subseteq Nat  BY <1>0 DEF InvoiceType
  <2> QED  BY <1>0, <2>1 DEF WriteThrows, Killed, WalletHistoryType
<1>6. WalletTypeOK'
  BY <1>0, <1>1, <1>2, <1>3, <1>4, <1>5, WalletTypeParts DEF MoneyType, InvoiceType, WalletHistoryType
<1>7. \A q \in Requests : JobOK(calls'[q]) /\ Explained(calls'[q], Len(ledger'))
  BY <1>0, <1>1, <1>2, AtRest DEF WalletInv
<1> QED  BY <1>1, <1>6, <1>7 DEF WalletInv, BalanceBacked, SpendFunded

(* Stripe, the staff and the days touch no money and no request.           *)
LEMMA OthersKeep ==
  ASSUME WalletInv, (\E s \in Sessions : Pay(s)) \/ SaveAutoTopUp \/ NextDay \/ UNCHANGED walletVars
  PROVE  WalletInv'
<1>0. /\ MoneyType /\ InvoiceType /\ CallType /\ CheckoutType /\ UsedType /\ WalletHistoryType
  BY WalletTypeParts DEF WalletInv
<1>1. UNCHANGED <<balance, ledger, invoices, spends, calls, contested, mixed>>
  BY DEF Pay, SaveAutoTopUp, NextDay, walletVars, walletTables
<1>2. autoOn' \in BOOLEAN /\ today' \in Nat
  <2>1. autoOn' \in {autoOn, ~autoOn}
    BY DEF Pay, SaveAutoTopUp, NextDay, walletVars, walletTables
  <2>2. today' \in {today, today + 1}
    BY DEF Pay, SaveAutoTopUp, NextDay, walletVars, walletTables
  <2>3. autoOn' \in BOOLEAN  BY <1>0, <2>1 DEF MoneyType
  <2> QED  BY <1>0, <2>2, <2>3 DEF MoneyType
<1>3. CheckoutType' /\ UsedType'
  BY <1>0 DEF Pay, SaveAutoTopUp, NextDay, walletVars, CheckoutType, UsedType, Use
<1>4. WalletTypeOK'
  BY <1>0, <1>1, <1>2, <1>3, WalletTypeParts DEF MoneyType, InvoiceType, CallType, WalletHistoryType
<1> QED
  BY <1>1, <1>4 DEF WalletInv, BalanceBacked, SpendFunded, Undisturbed, InTopUp, CallAt

LEMMA StepWallet == WalletInv /\ [WalletNext]_walletVars => WalletInv'
<1> SUFFICES ASSUME WalletInv, [WalletNext]_walletVars  PROVE WalletInv'
  OBVIOUS
<1>1. ASSUME NEW r \in Requests, CallStep(r)  PROVE WalletInv'
  BY <1>1, LooksKeep, InvoicesKeep, ReadKeeps, EntryKeeps, BalanceKeeps, SpendingKeeps DEF CallStep
<1>2. ASSUME NEW r \in Requests, Killed(r) \/ WriteThrows(r)  PROVE WalletInv'
  BY <1>2, InvoicesKeep, CutShortKeeps
<1> QED  BY <1>1, <1>2, BeginningsKeep, OthersKeep DEF WalletNext

LEMMA InitWallet == WalletInit => WalletInv
<1> SUFFICES ASSUME WalletInit  PROVE WalletInv
  OBVIOUS
<1>1. \A r \in Requests : calls[r] = IdleCall  BY DEF WalletInit
<1>2. Len(ledger) = 0 /\ balance = 0 /\ spends = 0  BY DEF WalletInit
<1>3. WalletTypeOK
  <2>1. IdleCall \in Call  BY DEF IdleCall, Call, CallPC, Job
  <2>2. CallType  BY <2>1 DEF WalletInit, CallType
  <2>3. MoneyType  BY DEF WalletInit, MoneyType
  <2>4. InvoiceType  BY DEF WalletInit, InvoiceType
  <2>5. CheckoutType  BY DEF WalletInit, CheckoutType
  <2>6. UsedType  BY DEF WalletInit, UsedType
  <2>7. WalletHistoryType  BY DEF WalletInit, WalletHistoryType
  <2> QED  BY <2>2, <2>3, <2>4, <2>5, <2>6, <2>7, WalletTypeParts
<1>4. \A r \in Requests : JobOK(calls[r]) /\ Explained(calls[r], Len(ledger))
  BY <1>1, <1>2, AtRest
<1>5. \A r \in Requests : calls[r].pc = "idle"  BY <1>1, AtRest
<1>6. Undisturbed  BY <1>2, <1>5 DEF Undisturbed, InTopUp, CallAt
<1> QED  BY <1>2, <1>3, <1>4, <1>6 DEF WalletInv, BalanceBacked, SpendFunded

LEMMA WalletInvariant == WalletSpec => []WalletInv
BY InitWallet, StepWallet, PTL DEF WalletSpec

-----------------------------------------------------------------------------
(* The wallet's variables have their types.                                *)
THEOREM WalletTypes == WalletSpec => []WalletTypeOK
<1>1. WalletInv => WalletTypeOK  BY DEF WalletInv
<1> QED  BY <1>1, WalletInvariant, PTL

(* No interleaving of top-ups, kills and repeated deliveries makes the balance
   exceed what the ledger explains (topUpCredit). *)
THEOREM BalanceIsBacked == WalletSpec => []BalanceBacked
<1>1. WalletInv => BalanceBacked  BY DEF WalletInv
<1> QED  BY <1>1, WalletInvariant, PTL

(* No spending decision is written before the ledger held the floor, however
   balances are overwritten (assertPrepaidCredit). *)
THEOREM SpendIsFunded == WalletSpec => []SpendFunded
<1>1. WalletInv => SpendFunded  BY DEF WalletInv
<1> QED  BY <1>1, WalletInvariant, PTL

(* Only two top-ups that overlap, or one cut short between its entry and its
   balance, lose credit (topUpCredit). *)
THEOREM CreditIsKept == WalletSpec => []CreditsKept
<1>1. WalletInv => CreditsKept  BY DEF WalletInv, CreditsKept, Undisturbed
<1> QED  BY <1>1, WalletInvariant, PTL

-----------------------------------------------------------------------------
(* Each session once, each invoice credited once.

   A subject that no two requests were at together is worked on by one request
   at most, so that what this request has looked up still holds when it
   writes. *)
Lone(S) == \A i, j \in S : i = j
Single(x) == \A q, r \in Requests : calls[q].subject = x /\ calls[r].subject = x => q = r

SessionOK(s) ==
  /\ Lone(InvoicesOf(s))
  /\ InvoicesOf(s) # {} => CreditsOf(s) # {}
  /\ s \notin contested => Single(s) /\ Lone(CreditsOf(s))

(* A note that was inserted has still to mark its invoice.                 *)
Marking(n) == \E r \in Requests : calls[r].subject = n /\ calls[r].pc = "mark"

InvoiceOK(n) ==
  /\ invoices[n].credits \in 0..Len(invoices)
  /\ invoices[n].status = "credited" => NotesOn(n) # {}
  /\ n \notin contested =>
       /\ Single(n) /\ Lone(NotesOn(n))
       /\ invoices[n].status = "issued" /\ ~Marking(n) => NotesOn(n) = {}

(* What a delivery, and a credit note, has found of its subject, or has not. *)
SubjectOK(c) == c.subject \in Nat => c.subject \in DOMAIN invoices
Found(c) ==
  /\ c.job = "delivery" /\ c.pc \in {"balance", "number", "invoice"} => CreditsOf(c.subject) # {}
  /\ c.job = "note" /\ c.pc = "mark" => NotesOn(c.subject) # {}
Missed(c) ==
  /\ c.job = "delivery" /\ c.pc \in {"wallet", "append"} => CreditsOf(c.subject) = {}
  /\ c.job = "note" /\ c.pc \in {"number", "invoice"} => NotesOn(c.subject) = {}
CallOK(c) == SubjectOK(c) /\ Found(c) /\ (c.subject \notin contested => Missed(c))

OnceInv ==
  /\ \A r \in Requests : CallOK(calls[r])
  /\ \A s \in Sessions : SessionOK(s)
  /\ \A n \in DOMAIN invoices : InvoiceOK(n)

(* A set without two members.                                              *)
LEMMA LoneCounts ==
  ASSUME NEW S, Lone(S)
  PROVE  Cardinality(S) <= 1 /\ (Cardinality(S) # 1 => S = {})
<1>1. CASE S = {}
  BY <1>1, FS_EmptySet
<1>2. CASE S # {}
  <2>1. PICK x : x \in S  BY <1>2
  <2>2. S = {x}  BY <2>1 DEF Lone
  <2>3. Cardinality({x}) = 1  BY FS_Singleton
  <2>4. Cardinality(S) = 1  BY <2>2, <2>3
  <2> QED  BY <2>4
<1> QED  BY <1>1, <1>2

(* What the types say of a request's subject.                              *)
LEMMA Subjects ==
  ASSUME WalletInv, NEW r \in Requests
  PROVE  /\ calls[r] \in Call /\ JobOK(calls[r])
         /\ Sessions \cap Nat = {} /\ NoSubject \notin Sessions \cup Nat
         /\ Len(ledger) \in Nat /\ DOMAIN ledger = 1..Len(ledger)
         /\ Len(invoices) \in Nat /\ DOMAIN invoices = 1..Len(invoices)
BY WalletTypeParts, WalletAssumption DEF WalletInv, CallType, MoneyType, InvoiceType

(* A request that moves, ends or begins and writes no entry and no invoice. *)
LEMMA OnceFrame ==
  ASSUME WalletInv, OnceInv, NEW r \in Requests, NEW k,
         \A q \in Requests : calls'[q] = IF q = r THEN k ELSE calls[q],
         UNCHANGED <<ledger, invoices>>, contested \subseteq contested',
         \A q \in Requests : q # r /\ calls[q].subject = k.subject /\ k.subject # NoSubject
                             => k.subject \in contested',
         calls[r].pc = "mark" => calls[r].subject \in contested',
         SubjectOK(k), Found(k), k.subject \notin contested' => Missed(k)
  PROVE  OnceInv'
<1>1. \A s : /\ CreditsOf(s)' = CreditsOf(s) /\ InvoicesOf(s)' = InvoicesOf(s)
             /\ NotesOn(s)' = NotesOn(s)
  BY DEF CreditsOf, InvoicesOf, NotesOn
<1>2. \A q \in Requests : CallOK(calls[q])'
  <2> TAKE q \in Requests
  <2>1. calls'[q] = IF q = r THEN k ELSE calls[q]  OBVIOUS
  <2>2. CASE q = r  BY <1>1, <2>1, <2>2 DEF CallOK, SubjectOK, Found, Missed
  <2>3. CASE q # r
    <3>1. CallOK(calls[q])  BY DEF OnceInv
    <3> QED  BY <1>1, <2>1, <2>3, <3>1 DEF CallOK, SubjectOK, Found, Missed
  <2> QED  BY <2>2, <2>3
<1>4. ASSUME NEW x, x # NoSubject, x \notin contested', Single(x)
      PROVE  Single(x)'
  BY <1>4 DEF Single
<1>5. \A s \in Sessions : SessionOK(s)'
  <2>1. NoSubject \notin Sessions  BY WalletAssumption
  <2> QED  BY <1>1, <1>4, <2>1 DEF OnceInv, SessionOK, Lone
<1>6. \A n \in DOMAIN invoices : n \notin contested' /\ ~Marking(n)' => ~Marking(n)
  BY DEF Marking
<1>7. \A n \in DOMAIN invoices : InvoiceOK(n)'
  <2>1. NoSubject \notin DOMAIN invoices  BY Subjects
  <2> QED  BY <1>1, <1>4, <1>6, <2>1 DEF OnceInv, InvoiceOK, Lone
<1> QED  BY <1>2, <1>5, <1>7 DEF OnceInv

(* A request that ends.                                                    *)
LEMMA OnceEnds ==
  ASSUME WalletInv, OnceInv, NEW r \in Requests, CallDone(r),
         UNCHANGED <<ledger, invoices>>, contested \subseteq contested',
         calls[r].pc = "mark" => calls[r].subject \in contested'
  PROVE  OnceInv'
<1>1. \A q \in Requests : calls'[q] = IF q = r THEN IdleCall ELSE calls[q]
  BY Ends, WalletTypeParts DEF WalletInv
<1>2. IdleCall.subject = NoSubject /\ IdleCall.job = "none"  BY DEF IdleCall
<1>3. SubjectOK(IdleCall) /\ Found(IdleCall) /\ Missed(IdleCall)
  BY <1>2, WalletAssumption DEF SubjectOK, Found, Missed
<1> HIDE DEF IdleCall
<1> QED  BY <1>1, <1>2, <1>3, OnceFrame

(* A request that goes on with its subject.                                *)
LEMMA OnceMoves ==
  ASSUME WalletInv, OnceInv, NEW r \in Requests, NEW k,
         \A q \in Requests : calls'[q] = IF q = r THEN k ELSE calls[q],
         UNCHANGED <<ledger, invoices, contested>>,
         calls[r].pc # "mark", k.job = calls[r].job, k.subject = calls[r].subject,
         Found(k), k.subject \notin contested => Missed(k)
  PROVE  OnceInv'
<1>1. SubjectOK(k)  BY DEF OnceInv, CallOK, SubjectOK
<1>2. \A q \in Requests : q # r /\ calls[q].subject = k.subject /\ k.subject # NoSubject
                          => k.subject \in contested'
  <2> SUFFICES ASSUME NEW q \in Requests, q # r, calls[q].subject = k.subject, k.subject # NoSubject
               PROVE  k.subject \in contested
    OBVIOUS
  <2>0. calls[r] \in Call  BY Subjects
  <2>1. CASE k.subject \in Sessions  BY <2>1 DEF OnceInv, SessionOK, Single
  <2>2. CASE k.subject \in Nat
    <3>1. k.subject \in DOMAIN invoices  BY <1>1, <2>2 DEF SubjectOK
    <3> QED  BY <3>1 DEF OnceInv, InvoiceOK, Single
  <2> QED  BY <2>0, <2>1, <2>2 DEF Call
<1> QED  BY <1>1, <1>2, OnceFrame

(* The lookups of a request: what they find is true when they find it.     *)
LEMMA OnceLooks ==
  ASSUME WalletInv, OnceInv, NEW r \in Requests,
         \/ Lookup(r) \/ Find(r) \/ ReadWallet(r) \/ WriteBalance(r) \/ ReadNumber(r)
         \/ MaybeAutoTopUp(r) \/ Count(r) \/ CheckFloor(r) \/ Spend(r)
  PROVE  OnceInv'
<1>0. /\ CallType /\ calls[r] \in Call /\ JobOK(calls[r]) /\ Len(invoices) \in Nat /\ balance \in Nat
      /\ CallOK(calls[r])
  BY Subjects, WalletTypeParts DEF WalletInv, OnceInv, MoneyType
<1>1. UNCHANGED <<ledger, invoices, contested>>
  BY DEF Lookup, Find, ReadWallet, WriteBalance, ReadNumber, MaybeAutoTopUp, Count, CheckFloor, Spend,
     walletTables, walletRest
<1>2. calls[r].pc # "mark"
  BY DEF Lookup, Find, ReadWallet, WriteBalance, ReadNumber, MaybeAutoTopUp, Count, CheckFloor, Spend, CallAt
<1>3. CallDone(r) => OnceInv'  BY <1>1, <1>2, OnceEnds
<1>4. ASSUME NEW pc \in CallPC, NEW n \in Nat, CallTo(r, pc) \/ CallRead(r, n, pc),
             \/ pc \in {"find", "auto", "count", "floor", "spend"}
             \/ pc = "wallet" /\ calls[r].job # "delivery"
             \/ pc = "wallet" /\ CallAt(r, "find") /\ (calls[r].subject \notin contested => CreditsOf(calls[r].subject) = {})
             \/ pc = "number" /\ CallAt(r, "find") /\ CreditsOf(calls[r].subject) # {}
             \/ pc = "append" /\ CallAt(r, "wallet")
             \/ pc = "number" /\ CallAt(r, "balance")
             \/ pc = "invoice" /\ CallAt(r, "number")
      PROVE  OnceInv'
  <2>1. \E k : /\ \A q \in Requests : calls'[q] = IF q = r THEN k ELSE calls[q]
               /\ k.pc = pc /\ k.job = calls[r].job /\ k.subject = calls[r].subject
    <3>1. CASE CallTo(r, pc)
      <4>1. \A q \in Requests : calls'[q] = IF q = r THEN [calls[r] EXCEPT !.pc = pc] ELSE calls[q]
        BY <1>0, <3>1, Moves
      <4>2. LET k == [calls[r] EXCEPT !.pc = pc]
            IN  k.pc = pc /\ k.job = calls[r].job /\ k.subject = calls[r].subject
        BY <1>0 DEF Call
      <4> QED  BY <4>1, <4>2
    <3>2. CASE CallRead(r, n, pc)
      <4>1. \A q \in Requests : calls'[q] = IF q = r THEN [calls[r] EXCEPT !.pc = pc, !.read = n] ELSE calls[q]
        BY <1>0, <3>2, Moves
      <4>2. LET k == [calls[r] EXCEPT !.pc = pc, !.read = n]
            IN  k.pc = pc /\ k.job = calls[r].job /\ k.subject = calls[r].subject
        BY <1>0 DEF Call
      <4> QED  BY <4>1, <4>2
    <3> QED  BY <1>4, <3>1, <3>2
  <2>2. PICK k : /\ \A q \in Requests : calls'[q] = IF q = r THEN k ELSE calls[q]
                 /\ k.pc = pc /\ k.job = calls[r].job /\ k.subject = calls[r].subject
    BY <2>1
  <2>3. Found(k)  BY <1>0, <1>4, <2>2 DEF CallOK, Found, CallAt, JobOK
  <2>4. k.subject \notin contested => Missed(k)  BY <1>0, <1>4, <2>2 DEF CallOK, Missed, CallAt, JobOK
  <2> QED  BY <1>1, <1>2, <2>2, <2>3, <2>4, OnceMoves
<1>p. /\ {"find", "wallet", "number", "append", "invoice", "count", "floor", "auto", "spend"} \subseteq CallPC
      /\ 0 \in Nat /\ Len(invoices) + 1 \in Nat
  BY <1>0 DEF CallPC
<1>5. CASE Lookup(r)
  <2>1. CallDone(r) \/ CallTo(r, "find")  BY <1>5 DEF Lookup, Over
  <2> QED  BY <1>3, <1>4, <1>p, <2>1
<1>6. CASE Find(r)
  <2>1. CallAt(r, "find") /\ calls[r].subject \in Sessions  BY <1>0, <1>6 DEF Find, CallAt, JobOK
  <2>2. CASE Cardinality(CreditsOf(calls[r].subject)) = 1 /\ CallTo(r, "number")
    <3>1. CreditsOf(calls[r].subject) # {}  BY <2>2, FS_EmptySet
    <3> QED  BY <1>4, <1>p, <2>1, <2>2, <3>1
  <2>3. CASE Cardinality(CreditsOf(calls[r].subject)) # 1 /\ CallTo(r, "wallet")
    <3>1. calls[r].subject \notin contested => CreditsOf(calls[r].subject) = {}
      BY <2>1, <2>3, LoneCounts DEF OnceInv, SessionOK
    <3> QED  BY <1>4, <1>p, <2>1, <2>3, <3>1
  <2> QED  BY <1>6, <2>2, <2>3 DEF Find
<1>7. CASE ReadWallet(r)  BY <1>0, <1>4, <1>7, <1>p DEF ReadWallet
<1>8. CASE WriteBalance(r)
  <2>1. CallAt(r, "balance") /\ (CallRead(r, 0, "number") \/ CallRead(r, 0, "floor"))
    BY <1>8 DEF WriteBalance
  <2> QED  BY <1>4, <1>p, <2>1
<1>9. CASE ReadNumber(r)
  <2>1. CallAt(r, "number") /\ (CallDone(r) \/ CallRead(r, Len(invoices) + 1, "invoice"))
    BY <1>9 DEF ReadNumber, Over
  <2> QED  BY <1>3, <1>4, <1>p, <2>1
<1>10. CASE MaybeAutoTopUp(r)
  <2>1. CallTo(r, "count") \/ CallTo(r, "floor")  BY <1>10 DEF MaybeAutoTopUp
  <2> QED  BY <1>4, <1>p, <2>1
<1>11. CASE Count(r)
  <2>1. calls[r].job = "spend" /\ (CallTo(r, "wallet") \/ CallTo(r, "floor"))
    BY <1>0, <1>11 DEF Count, CallAt, JobOK
  <2> QED  BY <1>4, <1>p, <2>1
<1>12. CASE CheckFloor(r)
  <2>1. CASE CallTo(r, "spend")  BY <1>4, <1>p, <2>1
  <2>2. CASE calls' = [calls EXCEPT ![r].again = FALSE, ![r].pc = "auto"]
    <3> DEFINE k == [calls[r] EXCEPT !.again = FALSE, !.pc = "auto"]
    <3>1. \A q \in Requests : calls'[q] = IF q = r THEN k ELSE calls[q]
      BY <1>0, <2>2 DEF CallType, Call
    <3>2. k.pc = "auto" /\ k.job = calls[r].job /\ k.subject = calls[r].subject  BY <1>0 DEF Call
    <3> HIDE DEF k
    <3>3. Found(k) /\ Missed(k)  BY <3>2 DEF Found, Missed
    <3> QED  BY <1>1, <1>2, <3>1, <3>2, <3>3, OnceMoves
  <2> QED  BY <1>3, <1>12, <2>1, <2>2 DEF CheckFloor
<1>13. CASE Spend(r)  BY <1>3, <1>13 DEF Spend
<1> QED  BY <1>5, <1>6, <1>7, <1>8, <1>9, <1>10, <1>11, <1>12, <1>13

(* A request that is cut short: what a killed one worked on is contested.  *)
LEMMA OnceCutShort ==
  ASSUME WalletInv, OnceInv, NEW r \in Requests, WriteThrows(r) \/ Killed(r)
  PROVE  OnceInv'
<1>1. CallDone(r) /\ UNCHANGED <<ledger, invoices>> /\ contested \subseteq contested'
  BY DEF WriteThrows, Killed, walletTables
<1>2. ASSUME calls[r].pc = "mark"  PROVE calls[r].subject \in contested'
  <2>1. calls[r].job = "note" /\ calls[r].subject \in DOMAIN invoices
    BY <1>2, Subjects DEF JobOK, OnceInv, CallOK, SubjectOK
  <2>2. Killed(r)  BY <2>1 DEF WriteThrows
  <2> QED  BY <2>1, <2>2 DEF Killed
<1> QED  BY <1>1, <1>2, OnceEnds

(* A request that begins: what it finds contested, it makes no claim about. *)
LEMMA OnceBegins ==
  ASSUME WalletInv, OnceInv, NEW r \in Requests, NEW job \in Job, NEW subject,
         NEW pc \in {"lookup", "number", "void", "auto"}, NEW again \in BOOLEAN,
         Begin(r, job, subject, pc, again), UNCHANGED <<ledger, invoices>>,
         subject \in Nat => subject \in DOMAIN invoices,
         pc = "number" => /\ job = "note" /\ subject \in DOMAIN invoices
                          /\ invoices[subject].status = "issued"
  PROVE  OnceInv'
<1> DEFINE k == [pc |-> pc, job |-> job, subject |-> subject, read |-> 0, again |-> again]
<1>1. \A q \in Requests : calls'[q] = IF q = r THEN k ELSE calls[q]
  BY WalletTypeParts DEF Begin, WalletInv, CallType
<1>2. k.pc = pc /\ k.job = job /\ k.subject = subject /\ calls[r].pc = "idle"
  BY DEF Begin, CallAt
<1> HIDE DEF k
<1>3. contested \subseteq contested'  BY DEF Begin
<1>4. \A q \in Requests : calls[q].subject = subject /\ subject # NoSubject => subject \in contested'
  BY DEF Begin
<1>5. SubjectOK(k)  BY <1>2 DEF SubjectOK
<1>6. Found(k)  BY <1>2 DEF Found
<1>7. ASSUME subject \notin contested'  PROVE Missed(k)
  <2>1. ASSUME pc = "number"  PROVE NotesOn(subject) = {}
    <3>1. subject \notin contested /\ InvoiceOK(subject)  BY <1>3, <1>7, <2>1 DEF OnceInv
    <3>2. subject # NoSubject  BY <2>1, Subjects
    <3>3. ~Marking(subject)  BY <1>4, <1>7, <3>2 DEF Marking
    <3> QED  BY <2>1, <3>1, <3>3 DEF InvoiceOK
  <2> QED  BY <1>2, <2>1 DEF Missed
<1> QED  BY <1>1, <1>2, <1>3, <1>4, <1>5, <1>6, <1>7, OnceFrame

LEMMA OnceBeginnings ==
  ASSUME WalletInv, OnceInv, NEW r \in Requests,
         \/ \E s \in Sessions : Deliver(r, s) \/ DeliverAgain(r, s)
         \/ \E n \in DOMAIN invoices : CreditNote(r, n) \/ Void(r, n)
         \/ \E again \in BOOLEAN : BeginSpend(r, again)
  PROVE  OnceInv'
<1>0. /\ {"delivery", "note", "void", "spend"} \subseteq Job /\ FALSE \in BOOLEAN
      /\ \A s \in Sessions : s \notin Nat
      /\ NoSubject \notin Nat
  BY WalletAssumption DEF Job
<1>1. ASSUME NEW s \in Sessions, Deliver(r, s) \/ DeliverAgain(r, s)  PROVE OnceInv'
  <2>1. Begin(r, "delivery", s, "lookup", FALSE)  BY <1>1 DEF Deliver, DeliverAgain
  <2>2. UNCHANGED <<ledger, invoices>>  BY <2>1 DEF Begin, walletTables
  <2> QED  BY <1>0, <2>1, <2>2, OnceBegins
<1>2. ASSUME NEW n \in DOMAIN invoices, CreditNote(r, n)  PROVE OnceInv'
  <2>1. Begin(r, "note", n, "number", FALSE) /\ invoices[n].status = "issued"  BY <1>2 DEF CreditNote
  <2>2. UNCHANGED <<ledger, invoices>>  BY <2>1 DEF Begin, walletTables
  <2> QED  BY <1>0, <2>1, <2>2, OnceBegins
<1>3. ASSUME NEW n \in DOMAIN invoices, Void(r, n)  PROVE OnceInv'
  <2>1. Begin(r, "void", n, "void", FALSE)  BY <1>3 DEF Void
  <2>2. UNCHANGED <<ledger, invoices>>  BY <2>1 DEF Begin, walletTables
  <2> QED  BY <1>0, <2>1, <2>2, OnceBegins
<1>4. ASSUME NEW again \in BOOLEAN, BeginSpend(r, again)  PROVE OnceInv'
  <2>1. Begin(r, "spend", NoSubject, "auto", again)  BY <1>4 DEF BeginSpend
  <2>2. UNCHANGED <<ledger, invoices>>  BY <2>1 DEF Begin, walletTables
  <2> QED  BY <1>0, <2>1, <2>2, OnceBegins
<1> QED  BY <1>1, <1>2, <1>3, <1>4

(* What an append leaves of a sequence.                                    *)
LEMMA Appended ==
  ASSUME NEW T, NEW seq \in Seq(T), NEW e \in T
  PROVE  /\ Len(seq) \in Nat /\ Append(seq, e) \in Seq(T)
         /\ DOMAIN seq = 1..Len(seq) /\ Len(Append(seq, e)) = Len(seq) + 1
         /\ DOMAIN Append(seq, e) = DOMAIN seq \cup {Len(seq) + 1} /\ Len(seq) + 1 \notin DOMAIN seq
         /\ \A i \in DOMAIN seq : Append(seq, e)[i] = seq[i]
         /\ Append(seq, e)[Len(seq) + 1] = e
<1>1. /\ Len(seq) \in Nat /\ Append(seq, e) \in Seq(T)
      /\ DOMAIN seq = 1..Len(seq) /\ Len(Append(seq, e)) = Len(seq) + 1
  OBVIOUS
<1>2. DOMAIN Append(seq, e) = 1..(Len(seq) + 1)  BY <1>1
<1>3. Len(seq) + 1 \notin DOMAIN seq /\ DOMAIN Append(seq, e) = DOMAIN seq \cup {Len(seq) + 1}
  BY <1>1, <1>2
<1>4. \A i \in DOMAIN seq : Append(seq, e)[i] = seq[i]  BY <1>1
<1>5. Append(seq, e)[Len(seq) + 1] = e  BY <1>1
<1> QED  BY <1>1, <1>3, <1>4, <1>5

(* The entry of a session: unless it is contested, it is the first one.    *)
LEMMA OnceEntry ==
  ASSUME WalletInv, OnceInv, NEW r \in Requests, AppendLedger(r)
  PROVE  OnceInv'
<1> DEFINE e == [kind |-> IF calls[r].job = "delivery" THEN "top_up" ELSE "auto_top_up",
                 session |-> calls[r].subject, day |-> today]
<1>x. PICK x : x = calls[r].subject  OBVIOUS
<1>0. /\ CallType /\ calls[r] \in Call /\ JobOK(calls[r]) /\ CallOK(calls[r]) /\ calls[r].pc = "append"
      /\ Len(ledger) \in Nat /\ ledger \in Seq(Entry) /\ today \in Nat
      /\ NoSubject \notin Sessions /\ \A s \in Sessions : s \notin Nat
  BY Subjects, WalletTypeParts, WalletAssumption DEF WalletInv, MoneyType, AppendLedger, CallAt, OnceInv
<1>1. CallTo(r, "balance") /\ ledger' = Append(ledger, e) /\ UNCHANGED <<invoices, contested>>
  BY DEF AppendLedger, walletRest
<1>2. \A q \in Requests : calls'[q] = IF q = r THEN [calls[r] EXCEPT !.pc = "balance"] ELSE calls[q]
  BY <1>0, <1>1 DEF CallTo, CallType
<1>3. \A q \in Requests : /\ calls'[q].subject = calls[q].subject /\ calls'[q].job = calls[q].job
                          /\ q # r => calls'[q] = calls[q]
                          /\ q = r => calls'[q].pc = "balance"
  BY <1>0, <1>2 DEF Call
<1>4. e.session = x /\ e \in Entry  BY <1>0, <1>x DEF JobOK, Entry
<1> HIDE DEF e
<1>5. \A s : CreditsOf(s)' = IF s = x THEN CreditsOf(s) \cup {Len(ledger) + 1} ELSE CreditsOf(s)
  <2>1. /\ DOMAIN ledger' = DOMAIN ledger \cup {Len(ledger) + 1} /\ Len(ledger) + 1 \notin DOMAIN ledger
        /\ \A i \in DOMAIN ledger : ledger'[i] = ledger[i]
        /\ ledger'[Len(ledger) + 1] = e
    <3>1. ledger \in Seq(Entry) /\ ledger' = Append(ledger, e)  BY <1>0, <1>1
    <3>2. /\ DOMAIN Append(ledger, e) = DOMAIN ledger \cup {Len(ledger) + 1}
          /\ Len(ledger) + 1 \notin DOMAIN ledger
          /\ \A i \in DOMAIN ledger : Append(ledger, e)[i] = ledger[i]
          /\ Append(ledger, e)[Len(ledger) + 1] = e
      BY <1>4, <3>1, Appended
    <3> QED  BY <3>1, <3>2, Zenon
  <2> TAKE s
  <2> DEFINE p == Len(ledger) + 1
  <2>2. /\ DOMAIN ledger' = DOMAIN ledger \cup {p}
        /\ \A i \in DOMAIN ledger : ledger'[i].session = ledger[i].session
        /\ ledger'[p].session = x
    BY <1>4, <2>1
  <2>3. /\ CreditsOf(s)' = {i \in DOMAIN ledger' : ledger'[i].session = s}
        /\ CreditsOf(s) = {i \in DOMAIN ledger : ledger[i].session = s}
    BY DEF CreditsOf
  <2> HIDE DEF p
  <2>4. CreditsOf(s)' = IF s = x THEN CreditsOf(s) \cup {p} ELSE CreditsOf(s)
    BY <2>2, <2>3
  <2> QED  BY <2>4 DEF p
<1>6. \A s : InvoicesOf(s)' = InvoicesOf(s) /\ NotesOn(s)' = NotesOn(s)
  BY <1>1 DEF InvoicesOf, NotesOn
<1>7. \/ calls[r].job = "delivery" /\ x \in Sessions
      \/ calls[r].job = "spend" /\ x = NoSubject
  BY <1>0, <1>x DEF JobOK
<1>8. x \in Sessions /\ x \notin contested => CreditsOf(x) = {} /\ Single(x)
  BY <1>0, <1>7, <1>x DEF CallOK, Missed, OnceInv, SessionOK
<1>9. \A q \in Requests : CallOK(calls[q])'
  <2> TAKE q \in Requests
  <2>0. CallOK(calls[q]) /\ JobOK(calls[q])  BY Subjects DEF OnceInv
  <2>1. SubjectOK(calls[q])'  BY <1>1, <1>3, <2>0 DEF CallOK, SubjectOK
  <2>2. CASE q = r
    <3>1. x \in Sessions => CreditsOf(x)' # {}  BY <1>5
    <3>2. Found(calls[q])'  BY <1>0, <1>3, <1>7, <1>x, <2>2, <3>1 DEF Found
    <3>3. Missed(calls[q])'  BY <1>3, <2>2 DEF Missed
    <3> QED  BY <2>1, <3>2, <3>3 DEF CallOK
  <2>3. CASE q # r
    <3>1. calls'[q] = calls[q]  BY <1>3, <2>3
    <3>2. Found(calls[q])'  BY <1>5, <1>6, <2>0, <3>1 DEF CallOK, Found
    <3>3. ASSUME calls[q].subject \notin contested  PROVE Missed(calls[q])'
      <4>1. calls[q].job = "delivery" => calls[q].subject \in Sessions /\ calls[q].subject # x
        BY <1>8, <1>x, <2>0, <2>3, <3>3 DEF JobOK, Single
      <4> QED  BY <1>5, <1>6, <2>0, <3>1, <3>3, <4>1 DEF CallOK, Missed
    <3> QED  BY <1>1, <2>1, <3>1, <3>2, <3>3 DEF CallOK
  <2> QED  BY <2>2, <2>3
<1>10. \A y : Single(y) => Single(y)'  BY <1>3 DEF Single
<1>11. \A s \in Sessions : SessionOK(s)'
  <2> TAKE s \in Sessions
  <2>0. SessionOK(s)  BY DEF OnceInv
  <2>1. s \notin contested => Lone(CreditsOf(s)')
    BY <1>5, <1>8, <2>0 DEF SessionOK, Lone
  <2>2. InvoicesOf(s)' # {} => CreditsOf(s)' # {}  BY <1>5, <1>6, <2>0 DEF SessionOK
  <2> QED  BY <1>1, <1>6, <1>10, <2>0, <2>1, <2>2 DEF SessionOK, Lone
<1>12. \A n : Marking(n)' <=> Marking(n)
  <2>1. \A q \in Requests : (calls[q].pc = "mark")' <=> calls[q].pc = "mark"  BY <1>0, <1>3
  <2> QED  BY <1>3, <2>1 DEF Marking
<1>13. \A n \in DOMAIN invoices : InvoiceOK(n)'
  BY <1>1, <1>6, <1>10, <1>12 DEF OnceInv, InvoiceOK, Lone
<1> QED  BY <1>1, <1>9, <1>11, <1>13 DEF OnceInv

(* An invoice whose status is changed, by a request that ends.             *)
LEMMA OnceMarks ==
  ASSUME WalletInv, OnceInv, NEW r \in Requests, MarkCredited(r) \/ MarkVoid(r)
  PROVE  OnceInv'
<1>x. PICK n : n = calls[r].subject  OBVIOUS
<1>0. /\ CallType /\ calls[r] \in Call /\ JobOK(calls[r]) /\ CallOK(calls[r])
      /\ invoices \in Seq(Invoice) /\ n \in DOMAIN invoices
  BY <1>x, Subjects, WalletTypeParts
  DEF WalletInv, InvoiceType, OnceInv, MarkCredited, MarkVoid, CallAt, JobOK, CallOK, SubjectOK
<1>1. CallDone(r) /\ UNCHANGED <<ledger, contested>>  BY DEF MarkCredited, MarkVoid, walletRest
<1>2. \A q \in Requests : calls'[q] = IF q = r THEN IdleCall ELSE calls[q]  BY <1>0, <1>1, Ends
<1>3. IdleCall.subject = NoSubject /\ IdleCall.job = "none" /\ IdleCall.pc = "idle"  BY DEF IdleCall
<1> HIDE DEF IdleCall
<1>4. PICK st \in {"credited", "void"} :
        /\ invoices' = [invoices EXCEPT ![n].status = st]
        /\ st = "credited" => NotesOn(n) # {}
  <2>1. CASE MarkCredited(r)
    <3>1. NotesOn(n) # {}  BY <1>0, <1>x, <2>1 DEF MarkCredited, CallAt, CallOK, Found, JobOK
    <3> QED  BY <1>x, <2>1, <3>1 DEF MarkCredited
  <2>2. CASE MarkVoid(r)  BY <1>x, <2>2 DEF MarkVoid
  <2> QED  BY <2>1, <2>2
<1>5. /\ DOMAIN invoices' = DOMAIN invoices /\ Len(invoices') = Len(invoices)
      /\ \A i \in DOMAIN invoices :
           /\ invoices'[i].session = invoices[i].session /\ invoices'[i].credits = invoices[i].credits
           /\ invoices'[i].status = IF i = n THEN st ELSE invoices[i].status
  BY <1>0, <1>4 DEF Invoice
<1>6. \A s : /\ CreditsOf(s)' = CreditsOf(s) /\ InvoicesOf(s)' = InvoicesOf(s)
             /\ NotesOn(s)' = NotesOn(s)
  BY <1>1, <1>5 DEF CreditsOf, InvoicesOf, NotesOn
<1>7. \A y : y # NoSubject /\ Single(y) => Single(y)'  BY <1>2, <1>3 DEF Single
<1>8. \A q \in Requests : CallOK(calls[q])'
  <2> TAKE q \in Requests
  <2>0. CallOK(calls[q]) /\ calls'[q] = IF q = r THEN IdleCall ELSE calls[q]  BY <1>2 DEF OnceInv
  <2>1. CASE q = r  BY <1>3, <2>0, <2>1, WalletAssumption DEF CallOK, SubjectOK, Found, Missed
  <2>2. CASE q # r  BY <1>1, <1>5, <1>6, <2>0, <2>2 DEF CallOK, SubjectOK, Found, Missed
  <2> QED  BY <2>1, <2>2
<1>9. \A s \in Sessions : SessionOK(s)'
  BY <1>1, <1>6, <1>7, WalletAssumption DEF OnceInv, SessionOK, Lone
<1>10. \A i \in DOMAIN invoices : InvoiceOK(i)'
  <2> TAKE i \in DOMAIN invoices
  <2>0. InvoiceOK(i) /\ i # NoSubject  BY Subjects DEF OnceInv
  <2>1. invoices'[i].credits \in 0..Len(invoices')  BY <1>5, <2>0 DEF InvoiceOK
  <2>2. invoices'[i].status = "credited" => NotesOn(i)' # {}  BY <1>4, <1>5, <1>6, <2>0 DEF InvoiceOK
  <2>3. ASSUME i \notin contested
        PROVE  /\ Single(i)' /\ Lone(NotesOn(i)')
               /\ invoices'[i].status = "issued" /\ ~Marking(i)' => NotesOn(i)' = {}
    <3>1. Single(i)' /\ Lone(NotesOn(i)')  BY <1>6, <1>7, <2>0, <2>3 DEF InvoiceOK
    <3>2. ASSUME invoices'[i].status = "issued", ~Marking(i)'  PROVE NotesOn(i)' = {}
      <4>1. i # n /\ invoices[i].status = "issued"  BY <1>5, <3>2
      <4>2. ~Marking(i)  BY <1>2, <1>x, <3>2, <4>1 DEF Marking
      <4> QED  BY <1>6, <2>0, <2>3, <4>1, <4>2 DEF InvoiceOK
    <3> QED  BY <3>1, <3>2
  <2> QED  BY <1>1, <2>1, <2>2, <2>3 DEF InvoiceOK, Lone
<1> QED  BY <1>5, <1>8, <1>9, <1>10 DEF OnceInv

(* A new invoice: the first of its session, or the first note on its subject
   unless that is contested. *)
LEMMA OnceInvoice ==
  ASSUME WalletInv, OnceInv, NEW r \in Requests, InsertInvoice(r)
  PROVE  OnceInv'
<1> DEFINE delivery == calls[r].job = "delivery"
           taken == calls[r].read # Len(invoices) + 1 \/ (delivery /\ InvoicesOf(calls[r].subject) # {})
           e == [session |-> IF delivery THEN calls[r].subject ELSE NoSubject,
                 credits |-> IF delivery THEN 0 ELSE calls[r].subject, status |-> "issued"]
<1>x. PICK x : x = calls[r].subject  OBVIOUS
<1>0. /\ CallType /\ calls[r] \in Call /\ JobOK(calls[r]) /\ CallOK(calls[r]) /\ calls[r].pc = "invoice"
      /\ invoices \in Seq(Invoice) /\ Len(invoices) \in Nat /\ DOMAIN invoices = 1..Len(invoices)
      /\ NoSubject \notin Sessions /\ NoSubject \notin Nat /\ \A s \in Sessions : s \notin Nat
  BY Subjects, WalletTypeParts, WalletAssumption DEF WalletInv, InvoiceType, InsertInvoice, CallAt, OnceInv
<1>j. \/ delivery /\ x \in Sessions
      \/ calls[r].job = "note" /\ x \in DOMAIN invoices
  BY <1>0, <1>x DEF JobOK, CallOK, SubjectOK
<1>1. UNCHANGED <<ledger, contested>>  BY DEF InsertInvoice
<1>2. CASE taken
  BY <1>0, <1>1, <1>2, OnceEnds DEF InsertInvoice, Over
<1>3. CASE ~taken
  <2>1. /\ invoices' = Append(invoices, e)
        /\ IF delivery THEN CallDone(r) ELSE CallTo(r, "mark")
    BY <1>3 DEF InsertInvoice, Over
  <2>2. /\ e \in Invoice /\ e.status = "issued"
        /\ e.session = (IF delivery THEN x ELSE NoSubject)
        /\ e.credits = (IF delivery THEN 0 ELSE x)
    BY <1>0, <1>j, <1>x DEF Invoice
  <2>3. /\ x \in Sessions => InvoicesOf(x) = {} /\ CreditsOf(x) # {}
        /\ x \in Nat /\ x \notin contested => NotesOn(x) = {}
    BY <1>0, <1>3, <1>j, <1>x DEF CallOK, Found, Missed
  <2>p. PICK p : p = Len(invoices) + 1  OBVIOUS
  <2>4. /\ DOMAIN invoices' = DOMAIN invoices \cup {p} /\ Len(invoices') = p /\ p \notin DOMAIN invoices
        /\ \A i \in DOMAIN invoices : invoices'[i] = invoices[i]
        /\ invoices'[p] = e
    <3> HIDE DEF e
    <3>1. /\ DOMAIN Append(invoices, e) = DOMAIN invoices \cup {p} /\ Len(Append(invoices, e)) = p
          /\ p \notin DOMAIN invoices
          /\ \A i \in DOMAIN invoices : Append(invoices, e)[i] = invoices[i]
          /\ Append(invoices, e)[p] = e
      BY <1>0, <2>2, <2>p, Appended
    <3> QED  BY <2>1, <3>1, Zenon
  <2> HIDE DEF e, taken
  <2>5. \A s : /\ CreditsOf(s)' = CreditsOf(s)
               /\ InvoicesOf(s)' = IF s = e.session THEN InvoicesOf(s) \cup {p} ELSE InvoicesOf(s)
               /\ NotesOn(s)' = IF s = e.credits THEN NotesOn(s) \cup {p} ELSE NotesOn(s)
    <3> TAKE s
    <3>1. CreditsOf(s)' = CreditsOf(s)  BY <1>1 DEF CreditsOf
    <3>2. /\ InvoicesOf(s)' = {i \in DOMAIN invoices' : invoices'[i].session = s}
          /\ InvoicesOf(s) = {i \in DOMAIN invoices : invoices[i].session = s}
          /\ NotesOn(s)' = {i \in DOMAIN invoices' : invoices'[i].credits = s}
          /\ NotesOn(s) = {i \in DOMAIN invoices : invoices[i].credits = s}
      BY DEF InvoicesOf, NotesOn
    <3> QED  BY <2>4, <3>1, <3>2
  <2>6. \A q \in Requests : /\ q # r => calls'[q] = calls[q]
                            /\ q = r => /\ calls'[q].subject = (IF delivery THEN NoSubject ELSE x)
                                        /\ calls'[q].job = (IF delivery THEN "none" ELSE "note")
                                        /\ calls'[q].pc = (IF delivery THEN "idle" ELSE "mark")
    <3>1. CASE delivery
      <4>1. \A q \in Requests : calls'[q] = IF q = r THEN IdleCall ELSE calls[q]
        BY <1>0, <2>1, <3>1, Ends
      <4>2. IdleCall.subject = NoSubject /\ IdleCall.job = "none" /\ IdleCall.pc = "idle"  BY DEF IdleCall
      <4> QED  BY <3>1, <4>1, <4>2
    <3>2. CASE ~delivery
      <4>1. \A q \in Requests : calls'[q] = IF q = r THEN [calls[r] EXCEPT !.pc = "mark"] ELSE calls[q]
        BY <1>0, <2>1, <3>2 DEF CallTo, CallType
      <4> QED  BY <1>0, <1>j, <1>x, <3>2, <4>1 DEF Call
    <3> QED  BY <3>1, <3>2
  <2>7. \A y : y # NoSubject /\ Single(y) => Single(y)'  BY <1>x, <2>6 DEF Single
  <2>8. \A q \in Requests : CallOK(calls[q])'
    <3> TAKE q \in Requests
    <3>0. CallOK(calls[q]) /\ JobOK(calls[q])  BY Subjects DEF OnceInv
    <3>1. CASE q = r
      <4>1. CASE delivery  BY <1>0, <2>6, <3>1, <4>1 DEF CallOK, SubjectOK, Found, Missed
      <4>2. CASE ~delivery
        <5>1. NotesOn(x)' # {}  BY <2>2, <2>5, <4>2
        <5>2. x \in DOMAIN invoices'  BY <1>j, <2>4, <4>2
        <5> QED  BY <2>6, <3>1, <4>2, <5>1, <5>2 DEF CallOK, SubjectOK, Found, Missed
      <4> QED  BY <4>1, <4>2
    <3>2. CASE q # r
      <4>1. calls'[q] = calls[q]  BY <2>6, <3>2
      <4>2. SubjectOK(calls[q])' /\ Found(calls[q])'
        BY <2>4, <2>5, <3>0, <4>1 DEF CallOK, SubjectOK, Found
      <4>3. ASSUME calls[q].subject \notin contested, calls[q].job = "note"
            PROVE  NotesOn(calls[q].subject) = NotesOn(calls[q].subject)' /\ calls[q].subject # 0
        <5>1. PICK y : y = calls[q].subject  OBVIOUS
        <5>2. y \in DOMAIN invoices  BY <3>0, <4>3, <5>1 DEF JobOK, CallOK, SubjectOK
        <5>3. y # 0  BY <1>0, <5>2
        <5>4. x # y  BY <1>x, <3>2, <4>3, <5>1, <5>2 DEF OnceInv, InvoiceOK, Single
        <5>5. NotesOn(y)' = NotesOn(y)  BY <2>2, <2>5, <5>3, <5>4
        <5> QED  BY <4>1, <5>1, <5>3, <5>5 DEF NotesOn
      <4>4. calls[q].subject \notin contested => Missed(calls[q])'
        BY <1>1, <2>5, <3>0, <4>1, <4>3 DEF CallOK, Missed
      <4> QED  BY <1>1, <4>1, <4>2, <4>4 DEF CallOK
    <3> QED  BY <3>1, <3>2
  <2>9. \A s \in Sessions : SessionOK(s)'
    <3> TAKE s \in Sessions
    <3>0. SessionOK(s) /\ s # NoSubject  BY <1>0 DEF OnceInv
    <3>1. Lone(InvoicesOf(s)')  BY <2>2, <2>3, <2>5, <3>0 DEF SessionOK, Lone
    <3>2. InvoicesOf(s)' # {} => CreditsOf(s)' # {}  BY <2>2, <2>3, <2>5, <3>0 DEF SessionOK
    <3>3. s \notin contested => Single(s)' /\ Lone(CreditsOf(s)')  BY <2>5, <2>7, <3>0 DEF SessionOK
    <3> QED  BY <1>1, <3>1, <3>2, <3>3 DEF SessionOK, Lone
  <2>10. \A n \in DOMAIN invoices' : InvoiceOK(n)'
    <3>1. ASSUME NEW n \in DOMAIN invoices  PROVE InvoiceOK(n)'
      <4>0. InvoiceOK(n) /\ n # NoSubject /\ n # 0 /\ n \in Nat /\ invoices'[n] = invoices[n]
        BY <1>0, <2>4 DEF OnceInv
      <4>1. invoices'[n].credits \in 0..Len(invoices')
        BY <1>0, <2>4, <2>p, <4>0 DEF InvoiceOK
      <4>2. invoices'[n].status = "credited" => NotesOn(n)' # {}  BY <2>5, <4>0 DEF InvoiceOK
      <4>3. ASSUME n \notin contested
            PROVE  /\ Single(n)' /\ Lone(NotesOn(n)')
                   /\ invoices'[n].status = "issued" /\ ~Marking(n)' => NotesOn(n)' = {}
        <5>1. Single(n)'  BY <2>7, <4>0, <4>3 DEF InvoiceOK
        <5>2. CASE n = e.credits
          <6>1. n = x /\ ~delivery /\ NotesOn(n) = {}  BY <2>2, <2>3, <4>0, <4>3, <5>2
          <6>2. Lone(NotesOn(n)')  BY <2>5, <6>1 DEF Lone
          <6>3. Marking(n)'  BY <2>6, <6>1 DEF Marking
          <6> QED  BY <5>1, <6>2, <6>3
        <5>3. CASE n # e.credits
          <6>1. NotesOn(n)' = NotesOn(n)  BY <2>5, <5>3
          <6>2. ~Marking(n)' => ~Marking(n)
            <7>1. calls[r].pc # "mark"  BY <1>0
            <7> QED  BY <2>6, <7>1 DEF Marking
          <6> QED  BY <4>0, <4>3, <5>1, <6>1, <6>2 DEF InvoiceOK
        <5> QED  BY <5>2, <5>3
      <4> QED  BY <1>1, <4>1, <4>2, <4>3 DEF InvoiceOK, Lone
    <3>2. InvoiceOK(p)'
      <4>1. p \in Nat /\ p # 0  BY <1>0, <2>p
      <4>2. e.credits \in 0..p /\ e.credits # p  BY <1>0, <1>j, <2>2, <2>p
      <4>3. NotesOn(p) = {}
        <5>1. \A i \in DOMAIN invoices : invoices[i].credits \in 0..Len(invoices)
          BY DEF OnceInv, InvoiceOK
        <5>2. \A i \in DOMAIN invoices : invoices[i].credits # p  BY <1>0, <2>p, <5>1
        <5> QED  BY <5>2 DEF NotesOn
      <4>4. NotesOn(p)' = {}  BY <2>5, <4>2, <4>3
      <4>5. \A q \in Requests : calls[q].subject # p
        BY <2>4, <4>1 DEF OnceInv, CallOK, SubjectOK
      <4>6. \A q \in Requests : calls'[q].subject # p
        <5> TAKE q \in Requests
        <5>1. CASE q = r  BY <1>0, <1>x, <2>6, <4>1, <4>5, <5>1
        <5>2. CASE q # r  BY <2>6, <4>5, <5>2
        <5> QED  BY <5>1, <5>2
      <4>7. Single(p)'  BY <4>6 DEF Single
      <4>8. invoices'[p].credits \in 0..Len(invoices') /\ invoices'[p].status = "issued"
        BY <2>2, <2>4, <4>2
      <4> QED  BY <4>4, <4>7, <4>8 DEF InvoiceOK, Lone
    <3> QED  BY <2>4, <3>1, <3>2
  <2> QED  BY <2>8, <2>9, <2>10 DEF OnceInv
<1> QED  BY <1>2, <1>3

(* What touches no request, no entry and no invoice.                       *)
LEMMA OnceStays ==
  ASSUME OnceInv, UNCHANGED <<ledger, invoices, calls, contested>>
  PROVE  OnceInv'
<1>1. \A s : /\ CreditsOf(s)' = CreditsOf(s) /\ InvoicesOf(s)' = InvoicesOf(s)
             /\ NotesOn(s)' = NotesOn(s) /\ Single(s)' = Single(s) /\ Marking(s)' = Marking(s)
  BY DEF CreditsOf, InvoicesOf, NotesOn, Single, Marking
<1>2. \A q \in Requests : CallOK(calls[q])'  BY <1>1 DEF OnceInv, CallOK, SubjectOK, Found, Missed
<1>3. \A s \in Sessions : SessionOK(s)'  BY <1>1 DEF OnceInv, SessionOK, Lone
<1>4. \A n \in DOMAIN invoices : InvoiceOK(n)'  BY <1>1 DEF OnceInv, InvoiceOK, Lone
<1> QED  BY <1>2, <1>3, <1>4 DEF OnceInv

LEMMA StepOnce == WalletInv /\ OnceInv /\ [WalletNext]_walletVars => OnceInv'
<1> SUFFICES ASSUME WalletInv, OnceInv, [WalletNext]_walletVars  PROVE OnceInv'
  OBVIOUS
<1>1. ASSUME NEW r \in Requests, CallStep(r)  PROVE OnceInv'
  BY <1>1, OnceLooks, OnceEntry, OnceInvoice, OnceMarks DEF CallStep
<1>2. ASSUME NEW r \in Requests, Killed(r) \/ WriteThrows(r)  PROVE OnceInv'
  BY <1>2, OnceCutShort
<1>3. ASSUME (\E s \in Sessions : Pay(s)) \/ SaveAutoTopUp \/ NextDay \/ UNCHANGED walletVars
      PROVE  OnceInv'
  <2>1. UNCHANGED <<ledger, invoices, calls, contested>>
    BY <1>3 DEF Pay, SaveAutoTopUp, NextDay, walletVars, walletTables
  <2> QED  BY <2>1, OnceStays
<1> QED  BY <1>1, <1>2, <1>3, OnceBeginnings DEF WalletNext

LEMMA InitOnce == WalletInit => OnceInv
<1> SUFFICES ASSUME WalletInit  PROVE OnceInv
  OBVIOUS
<1>1. \A r \in Requests : calls[r].subject = NoSubject /\ calls[r].job = "none"
  BY DEF WalletInit, IdleCall
<1>2. DOMAIN ledger = {} /\ DOMAIN invoices = {}  BY DEF WalletInit
<1>3. \A r \in Requests : CallOK(calls[r])
  BY <1>1, WalletAssumption DEF CallOK, SubjectOK, Found, Missed
<1>4. \A s \in Sessions : SessionOK(s)
  BY <1>1, <1>2, WalletAssumption DEF SessionOK, Lone, Single, CreditsOf, InvoicesOf
<1> QED  BY <1>2, <1>3, <1>4 DEF OnceInv

LEMMA OnceInvariant == WalletSpec => [](WalletInv /\ OnceInv)
<1>1. WalletInit => WalletInv /\ OnceInv  BY InitWallet, InitOnce
<1>2. WalletInv /\ OnceInv /\ [WalletNext]_walletVars => (WalletInv /\ OnceInv)'
  BY StepWallet, StepOnce
<1> QED  BY <1>1, <1>2, PTL DEF WalletSpec

-----------------------------------------------------------------------------
(* The automatic top-ups of a day.  Those that have been counted and are not
   written yet are the ones that exceed the limit. *)
Adding == {r \in Requests : calls[r].job = "spend" /\ calls[r].pc \in {"wallet", "append"}}
Allowed == MaxPerDay + Cardinality(Requests) - 1

DaysInv ==
  /\ \A i \in DOMAIN ledger : ledger[i].day <= today
  /\ \A d \in 0..(today - 1) : AutosOf(d) # {} => Cardinality(AutosOf(d)) <= Allowed
  /\ Adding # {} => MaxPerDay > 0
  /\ Adding # {} \/ AutosOf(today) # {} => Cardinality(AutosOf(today)) + Cardinality(Adding) <= Allowed

(* The sets of the invariant are finite.                                   *)
LEMMA DaysFinite ==
  ASSUME WalletInv, IsFiniteSet(Requests)
  PROVE  /\ Cardinality(Requests) \in Nat /\ Allowed \in Int /\ today \in Nat
         /\ IsFiniteSet(Adding) /\ Cardinality(Adding) \in Nat
         /\ Cardinality(Adding) <= Cardinality(Requests)
         /\ \A d : IsFiniteSet(AutosOf(d)) /\ Cardinality(AutosOf(d)) \in Nat
<1>1. Cardinality(Requests) \in Nat  BY FS_CardinalityType
<1>2. Allowed \in Int /\ today \in Nat
  BY <1>1, WalletAssumption, WalletTypeParts DEF Allowed, WalletInv, MoneyType
<1>3. Adding \in SUBSET Requests  BY DEF Adding
<1>4. IsFiniteSet(Adding) /\ Cardinality(Adding) <= Cardinality(Requests)  BY <1>3, FS_Subset
<1>5. Cardinality(Adding) \in Nat  BY <1>4, FS_CardinalityType
<1>6. ASSUME NEW d  PROVE IsFiniteSet(AutosOf(d)) /\ Cardinality(AutosOf(d)) \in Nat
  <2>1. Len(ledger) \in Nat /\ DOMAIN ledger = 1..Len(ledger)
    BY WalletTypeParts DEF WalletInv, MoneyType
  <2>2. IsFiniteSet(1..Len(ledger))  BY <2>1, FS_Interval
  <2>3. AutosOf(d) \in SUBSET (1..Len(ledger))  BY <2>1 DEF AutosOf
  <2>4. IsFiniteSet(AutosOf(d))  BY <2>2, <2>3, FS_Subset
  <2> QED  BY <2>4, FS_CardinalityType
<1> QED  BY <1>1, <1>2, <1>4, <1>5, <1>6

(* Nothing is added to the ledger, and no top-up to those counted.         *)
LEMMA DaysShrink ==
  ASSUME WalletInv, DaysInv, IsFiniteSet(Requests), UNCHANGED <<ledger, today>>, Adding' \subseteq Adding
  PROVE  DaysInv'
<1>0. Allowed' = Allowed  BY DEF Allowed
<1>1. \A d : AutosOf(d)' = AutosOf(d)  BY DEF AutosOf
<1>2. IsFiniteSet(Adding) /\ Adding' \in SUBSET Adding  BY DaysFinite
<1>3. Cardinality(Adding') <= Cardinality(Adding) /\ IsFiniteSet(Adding')  BY <1>2, FS_Subset
<1>4. Cardinality(Adding') \in Nat /\ Cardinality(Adding) \in Nat  BY <1>2, <1>3, FS_CardinalityType
<1>5. PICK d : d = today  OBVIOUS
<1>6. AutosOf(today)' = AutosOf(today) /\ Cardinality(AutosOf(today)) \in Nat
  BY <1>1, <1>5, DaysFinite DEF AutosOf
<1>7. Adding' # {} => Adding # {}  BY <1>2
<1>8. Allowed \in Int  BY DaysFinite
<1>9. Adding' # {} \/ AutosOf(today)' # {}
      => Cardinality(AutosOf(today)') + Cardinality(Adding') <= Allowed
  BY <1>3, <1>4, <1>6, <1>7, <1>8 DEF DaysInv
<1> QED  BY <1>0, <1>1, <1>7, <1>9 DEF DaysInv

(* A request that moves on, unless it was counted just now.                *)
LEMMA AddingShrinks ==
  ASSUME NEW r \in Requests, NEW k, \A q \in Requests : calls'[q] = IF q = r THEN k ELSE calls[q],
         k.job = "spend" /\ k.pc \in {"wallet", "append"} => r \in Adding
  PROVE  Adding' \subseteq Adding
BY DEF Adding

LEMMA AddingStays ==
  ASSUME WalletInv, NEW r \in Requests,
         \/ CallStep(r) /\ ~Count(r)
         \/ Killed(r) \/ WriteThrows(r)
         \/ \E s \in Sessions : Deliver(r, s) \/ DeliverAgain(r, s)
         \/ \E n \in DOMAIN invoices : CreditNote(r, n) \/ Void(r, n)
         \/ \E again \in BOOLEAN : BeginSpend(r, again)
  PROVE  Adding' \subseteq Adding
<1>0. CallType /\ calls[r] \in Call /\ JobOK(calls[r]) /\ balance \in Nat /\ Len(invoices) \in Nat
  BY Subjects, WalletTypeParts DEF WalletInv, MoneyType
<1>1. ASSUME CallDone(r)  PROVE Adding' \subseteq Adding
  <2>1. \A q \in Requests : calls'[q] = IF q = r THEN IdleCall ELSE calls[q]  BY <1>0, <1>1, Ends
  <2>2. IdleCall.job # "spend"  BY DEF IdleCall
  <2> HIDE DEF IdleCall
  <2> QED  BY <2>1, <2>2, AddingShrinks
<1>2. ASSUME NEW pc \in CallPC, NEW n \in Nat, CallTo(r, pc) \/ CallRead(r, n, pc),
             \/ pc \notin {"wallet", "append"}
             \/ calls[r].job # "spend"
             \/ calls[r].pc \in {"wallet", "append"}
      PROVE  Adding' \subseteq Adding
  <2>1. CASE CallTo(r, pc)
    <3> DEFINE k == [calls[r] EXCEPT !.pc = pc]
    <3>1. \A q \in Requests : calls'[q] = IF q = r THEN k ELSE calls[q]  BY <1>0, <2>1, Moves
    <3>2. k.pc = pc /\ k.job = calls[r].job  BY <1>0 DEF Call
    <3> HIDE DEF k
    <3>3. k.job = "spend" /\ k.pc \in {"wallet", "append"} => r \in Adding  BY <1>2, <3>2 DEF Adding
    <3> QED  BY <3>1, <3>3, AddingShrinks
  <2>2. CASE CallRead(r, n, pc)
    <3> DEFINE k == [calls[r] EXCEPT !.pc = pc, !.read = n]
    <3>1. \A q \in Requests : calls'[q] = IF q = r THEN k ELSE calls[q]  BY <1>0, <2>2, Moves
    <3>2. k.pc = pc /\ k.job = calls[r].job  BY <1>0 DEF Call
    <3> HIDE DEF k
    <3>3. k.job = "spend" /\ k.pc \in {"wallet", "append"} => r \in Adding  BY <1>2, <3>2 DEF Adding
    <3> QED  BY <3>1, <3>3, AddingShrinks
  <2> QED  BY <1>2, <2>1, <2>2
<1>3. ASSUME NEW job, NEW subject, NEW pc \in {"lookup", "number", "void", "auto"}, NEW again,
             Begin(r, job, subject, pc, again)
      PROVE  Adding' \subseteq Adding
  <2> DEFINE k == [pc |-> pc, job |-> job, subject |-> subject, read |-> 0, again |-> again]
  <2>1. \A q \in Requests : calls'[q] = IF q = r THEN k ELSE calls[q]
    BY <1>0, <1>3 DEF Begin, CallType
  <2>2. k.pc = pc  OBVIOUS
  <2> HIDE DEF k
  <2> QED  BY <2>1, <2>2, AddingShrinks
<1>p. /\ {"find", "wallet", "append", "balance", "number", "invoice", "mark", "count", "floor", "auto", "spend"}
         \subseteq CallPC
      /\ 0 \in Nat /\ Len(invoices) + 1 \in Nat
  BY <1>0 DEF CallPC
<1>4. CASE Lookup(r) \/ ReadNumber(r) \/ InsertInvoice(r) \/ MarkCredited(r) \/ MarkVoid(r) \/ Spend(r)
  <2>1. CallDone(r) \/ CallTo(r, "find") \/ CallRead(r, Len(invoices) + 1, "invoice") \/ CallTo(r, "mark")
    BY <1>4 DEF Lookup, ReadNumber, InsertInvoice, MarkCredited, MarkVoid, Spend, Over
  <2> QED  BY <1>1, <1>2, <1>p, <2>1
<1>5. CASE Find(r)
  <2>1. calls[r].job = "delivery" /\ (CallTo(r, "number") \/ CallTo(r, "wallet"))
    BY <1>0, <1>5 DEF Find, CallAt, JobOK
  <2> QED  BY <1>2, <1>p, <2>1
<1>6. CASE ReadWallet(r)  BY <1>0, <1>2, <1>6, <1>p DEF ReadWallet, CallAt
<1>7. CASE AppendLedger(r)  BY <1>2, <1>7, <1>p DEF AppendLedger
<1>8. CASE WriteBalance(r)
  <2>1. CallRead(r, 0, "number") \/ CallRead(r, 0, "floor")  BY <1>8 DEF WriteBalance
  <2> QED  BY <1>2, <1>p, <2>1
<1>9. CASE MaybeAutoTopUp(r)
  <2>1. CallTo(r, "count") \/ CallTo(r, "floor")  BY <1>9 DEF MaybeAutoTopUp
  <2> QED  BY <1>2, <1>p, <2>1
<1>10. CASE CheckFloor(r)
  <2>1. CASE CallTo(r, "spend")  BY <1>2, <1>p, <2>1
  <2>2. CASE calls' = [calls EXCEPT ![r].again = FALSE, ![r].pc = "auto"]
    <3> DEFINE k == [calls[r] EXCEPT !.again = FALSE, !.pc = "auto"]
    <3>1. \A q \in Requests : calls'[q] = IF q = r THEN k ELSE calls[q]
      BY <1>0, <2>2 DEF CallType, Call
    <3>2. k.pc = "auto"  BY <1>0 DEF Call
    <3> HIDE DEF k
    <3> QED  BY <3>1, <3>2, AddingShrinks
  <2> QED  BY <1>1, <1>10, <2>1, <2>2 DEF CheckFloor
<1>11. CASE Killed(r) \/ WriteThrows(r)  BY <1>1, <1>11 DEF Killed, WriteThrows
<1>12. ASSUME NEW s \in Sessions, Deliver(r, s) \/ DeliverAgain(r, s)  PROVE Adding' \subseteq Adding
  BY <1>3, <1>12 DEF Deliver, DeliverAgain
<1>13. ASSUME NEW n \in DOMAIN invoices, CreditNote(r, n) \/ Void(r, n)  PROVE Adding' \subseteq Adding
  BY <1>3, <1>13 DEF CreditNote, Void
<1>14. ASSUME NEW again \in BOOLEAN, BeginSpend(r, again)  PROVE Adding' \subseteq Adding
  BY <1>3, <1>14 DEF BeginSpend
<1> QED
  BY <1>4, <1>5, <1>6, <1>7, <1>8, <1>9, <1>10, <1>11, <1>12, <1>13, <1>14 DEF CallStep

(* A top-up is counted: it joins those under way only below the limit.     *)
LEMMA DaysCount ==
  ASSUME WalletInv, DaysInv, IsFiniteSet(Requests), NEW r \in Requests, Count(r)
  PROVE  DaysInv'
<1>0. CallType /\ calls[r] \in Call /\ calls[r].pc = "count"
  BY Subjects, WalletTypeParts DEF WalletInv, Count, CallAt
<1>1. UNCHANGED <<ledger, today>>  BY DEF Count, walletTables, walletRest
<1>2. CASE CallTo(r, "floor")
  <2> DEFINE k == [calls[r] EXCEPT !.pc = "floor"]
  <2>1. \A q \in Requests : calls'[q] = IF q = r THEN k ELSE calls[q]
    BY <1>0, <1>2 DEF CallTo, CallType
  <2>2. k.pc = "floor"  BY <1>0 DEF Call
  <2> HIDE DEF k
  <2>3. Adding' \subseteq Adding  BY <2>1, <2>2, AddingShrinks
  <2> QED  BY <1>1, <2>3, DaysShrink
<1>3. CASE Cardinality(AutosOf(today)) < MaxPerDay
  <2>0. /\ Cardinality(Requests) \in Nat /\ Allowed \in Int /\ today \in Nat /\ MaxPerDay \in Nat
        /\ Cardinality(AutosOf(today)) \in Nat
    BY DaysFinite, WalletAssumption
  <2>1. Adding' \in SUBSET Requests  BY DEF Adding
  <2>2. Cardinality(Adding') <= Cardinality(Requests) /\ Cardinality(Adding') \in Nat
    <3>1. IsFiniteSet(Adding') /\ Cardinality(Adding') <= Cardinality(Requests)  BY <2>1, FS_Subset
    <3> QED  BY <3>1, FS_CardinalityType
  <2>3. \A d : AutosOf(d)' = AutosOf(d)  BY <1>1 DEF AutosOf
  <2>4. AutosOf(today)' = AutosOf(today)  BY <1>1 DEF AutosOf
  <2>5. MaxPerDay > 0  BY <1>3, <2>0
  <2>6. Cardinality(AutosOf(today)') + Cardinality(Adding') <= Allowed
    BY <1>3, <2>0, <2>2, <2>4 DEF Allowed
  <2>7. Allowed' = Allowed  BY DEF Allowed
  <2> QED  BY <1>1, <2>3, <2>5, <2>6, <2>7 DEF DaysInv
<1>4. Cardinality(AutosOf(today)) \in Nat /\ MaxPerDay \in Nat  BY DaysFinite, WalletAssumption
<1> QED  BY <1>2, <1>3, <1>4 DEF Count

(* The entry of a top-up that was counted takes the place of its request.  *)
LEMMA DaysEntry ==
  ASSUME WalletInv, DaysInv, IsFiniteSet(Requests), NEW r \in Requests, AppendLedger(r)
  PROVE  DaysInv'
<1> DEFINE e == [kind |-> IF calls[r].job = "delivery" THEN "top_up" ELSE "auto_top_up",
                 session |-> calls[r].subject, day |-> today]
<1>0. /\ CallType /\ calls[r] \in Call /\ JobOK(calls[r]) /\ calls[r].pc = "append"
      /\ ledger \in Seq(Entry) /\ today \in Nat
  BY Subjects, WalletTypeParts DEF WalletInv, MoneyType, AppendLedger, CallAt
<1>1. CallTo(r, "balance") /\ ledger' = Append(ledger, e) /\ UNCHANGED today
  BY DEF AppendLedger, walletRest
<1>d. PICK d : d = today  OBVIOUS
<1>p. PICK p : p = Len(ledger) + 1  OBVIOUS
<1>2. /\ e \in Entry /\ e.day = d
      /\ e.kind = "auto_top_up" <=> calls[r].job # "delivery"
  BY <1>0, <1>d DEF JobOK, Entry
<1> HIDE DEF e
<1>3. /\ DOMAIN ledger' = DOMAIN ledger \cup {p} /\ p \notin DOMAIN ledger
      /\ \A i \in DOMAIN ledger : ledger'[i] = ledger[i]
      /\ ledger'[p] = e
  <2>1. /\ DOMAIN Append(ledger, e) = DOMAIN ledger \cup {p} /\ p \notin DOMAIN ledger
        /\ \A i \in DOMAIN ledger : Append(ledger, e)[i] = ledger[i]
        /\ Append(ledger, e)[p] = e
    BY <1>0, <1>2, <1>p, Appended
  <2> QED  BY <1>1, <2>1, Zenon
<1>4. \A c : AutosOf(c)' = IF calls[r].job # "delivery" /\ c = d THEN AutosOf(c) \cup {p} ELSE AutosOf(c)
  <2> TAKE c
  <2>1. /\ AutosOf(c)' = {i \in DOMAIN ledger' : ledger'[i].kind = "auto_top_up" /\ ledger'[i].day = c}
        /\ AutosOf(c) = {i \in DOMAIN ledger : ledger[i].kind = "auto_top_up" /\ ledger[i].day = c}
    BY DEF AutosOf
  <2> QED  BY <1>2, <1>3, <2>1
<1>5. \A q \in Requests : calls'[q] = IF q = r THEN [calls[r] EXCEPT !.pc = "balance"] ELSE calls[q]
  BY <1>0, <1>1 DEF CallTo, CallType
<1>6. Adding' = Adding \ {r}
  <2>1. [calls[r] EXCEPT !.pc = "balance"].pc = "balance"  BY <1>0 DEF Call
  <2> QED  BY <1>5, <2>1 DEF Adding
<1>7. /\ Allowed \in Int /\ IsFiniteSet(Adding) /\ Cardinality(Adding) \in Nat
      /\ \A c : IsFiniteSet(AutosOf(c)) /\ Cardinality(AutosOf(c)) \in Nat
  BY DaysFinite
<1>8. /\ Cardinality(Adding') = IF r \in Adding THEN Cardinality(Adding) - 1 ELSE Cardinality(Adding)
      /\ Adding' # {} => Adding # {}
  BY <1>6, <1>7, FS_RemoveElement
<1>9. Adding' # {} \/ AutosOf(d)' # {}
      => Cardinality(AutosOf(d)') + Cardinality(Adding') <= Allowed
  <2>0. Adding # {} \/ AutosOf(d) # {} => Cardinality(AutosOf(d)) + Cardinality(Adding) <= Allowed
    BY <1>d DEF DaysInv
  <2>1. CASE calls[r].job = "delivery"
    <3>1. AutosOf(d)' = AutosOf(d) /\ r \notin Adding  BY <1>4, <2>1 DEF Adding
    <3> QED  BY <1>8, <2>0, <3>1
  <2>2. CASE calls[r].job # "delivery"
    <3>1. r \in Adding  BY <1>0, <2>2 DEF Adding, JobOK
    <3>2. p \notin AutosOf(d)  BY <1>3 DEF AutosOf
    <3>3. Cardinality(AutosOf(d)') = Cardinality(AutosOf(d)) + 1
      BY <1>4, <1>7, <2>2, <3>2, FS_AddElement
    <3> QED  BY <1>7, <1>8, <2>0, <3>1, <3>3
  <2> QED  BY <2>1, <2>2
<1>10. \A i \in DOMAIN ledger' : ledger'[i].day <= today
  BY <1>0, <1>2, <1>3, <1>d DEF DaysInv
<1>11. \A c \in 0..(today - 1) : AutosOf(c)' = AutosOf(c)
  <2>1. \A c \in 0..(today - 1) : c # d  BY <1>0, <1>d
  <2> QED  BY <1>4, <2>1
<1>12. (AutosOf(today))' = AutosOf(d)'  BY <1>1, <1>d DEF AutosOf
<1>13. Allowed' = Allowed  BY DEF Allowed
<1> QED  BY <1>1, <1>8, <1>9, <1>10, <1>11, <1>12, <1>13 DEF DaysInv

(* A new day has no entries.                                               *)
LEMMA DaysNext ==
  ASSUME WalletInv, DaysInv, IsFiniteSet(Requests), NextDay
  PROVE  DaysInv'
<1>1. today' = today + 1 /\ UNCHANGED <<ledger, calls>>  BY DEF NextDay, walletTables
<1>2. /\ Cardinality(Requests) \in Nat /\ Allowed \in Int /\ today \in Nat /\ Cardinality(Adding) \in Nat
      /\ Cardinality(Adding) <= Cardinality(Requests) /\ MaxPerDay \in Nat
      /\ Cardinality(AutosOf(today)) \in Nat
  BY DaysFinite, WalletAssumption
<1>3. \A d : AutosOf(d)' = AutosOf(d)  BY <1>1 DEF AutosOf
<1>4. Adding' = Adding  BY <1>1 DEF Adding
<1>5. ledger \in Seq(Entry)  BY WalletTypeParts DEF WalletInv, MoneyType
<1>6. \A i \in DOMAIN ledger : ledger[i].day \in Nat
  <2>1. \A i \in DOMAIN ledger : ledger[i] \in Entry  BY <1>5
  <2> QED  BY <2>1 DEF Entry
<1>7. \A i \in DOMAIN ledger : ledger[i].day <= today'  BY <1>1, <1>2, <1>6 DEF DaysInv
<1>8. AutosOf(today)' = {}
  <2>1. \A i \in DOMAIN ledger : ledger[i].day # today + 1  BY <1>2, <1>6 DEF DaysInv
  <2> QED  BY <1>1, <2>1 DEF AutosOf
<1>9. \A d \in 0..today : AutosOf(d) # {} => Cardinality(AutosOf(d)) <= Allowed
  <2> TAKE d \in 0..today
  <2>1. CASE d = today  BY <1>2, <2>1 DEF DaysInv
  <2>2. CASE d \in 0..(today - 1)  BY <2>2 DEF DaysInv
  <2> QED  BY <1>2, <2>1, <2>2
<1>10. Cardinality(AutosOf(today)') = 0  BY <1>8, FS_EmptySet
<1>11. Adding # {} => Cardinality(AutosOf(today)') + Cardinality(Adding) <= Allowed
  <2>1. Adding # {} => MaxPerDay > 0  BY DEF DaysInv
  <2> QED  BY <1>2, <1>10, <2>1 DEF Allowed
<1>12. Allowed' = Allowed /\ (0..(today - 1))' = 0..today  BY <1>1, <1>2 DEF Allowed
<1> QED  BY <1>1, <1>3, <1>4, <1>7, <1>8, <1>9, <1>11, <1>12 DEF DaysInv

LEMMA StepDays ==
  ASSUME IsFiniteSet(Requests)
  PROVE  WalletInv /\ DaysInv /\ [WalletNext]_walletVars => DaysInv'
<1> SUFFICES ASSUME WalletInv, DaysInv, [WalletNext]_walletVars  PROVE DaysInv'
  OBVIOUS
<1>1. ASSUME NEW r \in Requests, CallStep(r)  PROVE DaysInv'
  <2>1. CASE Count(r)  BY <2>1, DaysCount
  <2>2. CASE AppendLedger(r)  BY <2>2, DaysEntry
  <2>3. CASE ~Count(r) /\ ~AppendLedger(r)
    <3>1. UNCHANGED <<ledger, today>>
      BY <1>1, <2>3
      DEF CallStep, Lookup, Find, ReadWallet, WriteBalance, ReadNumber, InsertInvoice, MarkCredited,
          MarkVoid, MaybeAutoTopUp, CheckFloor, Spend, walletTables, walletRest
    <3> QED  BY <1>1, <2>3, <3>1, AddingStays, DaysShrink
  <2> QED  BY <2>1, <2>2, <2>3
<1>2. ASSUME NEW r \in Requests,
             \/ Killed(r) \/ WriteThrows(r)
             \/ \E s \in Sessions : Deliver(r, s) \/ DeliverAgain(r, s)
             \/ \E n \in DOMAIN invoices : CreditNote(r, n) \/ Void(r, n)
             \/ \E again \in BOOLEAN : BeginSpend(r, again)
      PROVE  DaysInv'
  <2>1. UNCHANGED <<ledger, today>>
    BY <1>2 DEF Killed, WriteThrows, Deliver, DeliverAgain, CreditNote, Void, BeginSpend, Begin, walletTables
  <2> QED  BY <1>2, <2>1, AddingStays, DaysShrink
<1>3. ASSUME (\E s \in Sessions : Pay(s)) \/ SaveAutoTopUp \/ UNCHANGED walletVars
      PROVE  DaysInv'
  <2>1. UNCHANGED <<ledger, today, calls>>
    BY <1>3 DEF Pay, SaveAutoTopUp, walletVars, walletTables
  <2>2. Adding' \subseteq Adding  BY <2>1 DEF Adding
  <2> QED  BY <2>1, <2>2, DaysShrink
<1> QED  BY <1>1, <1>2, <1>3, DaysNext DEF WalletNext

LEMMA InitDays == WalletInit => DaysInv
<1> SUFFICES ASSUME WalletInit  PROVE DaysInv
  OBVIOUS
<1>1. DOMAIN ledger = {} /\ today = 0 /\ 0..(today - 1) = {}  BY DEF WalletInit
<1>2. Adding = {}  BY DEF WalletInit, Adding, IdleCall
<1>3. AutosOf(today) = {}  BY <1>1 DEF AutosOf
<1> QED  BY <1>1, <1>2, <1>3 DEF DaysInv

LEMMA DaysInvariant ==
  ASSUME IsFiniteSet(Requests)
  PROVE  WalletSpec => [](WalletInv /\ DaysInv)
<1>1. WalletInit => WalletInv /\ DaysInv  BY InitWallet, InitDays
<1>2. WalletInv /\ DaysInv /\ [WalletNext]_walletVars => (WalletInv /\ DaysInv)'
  BY StepWallet, StepDays
<1> QED  BY <1>1, <1>2, PTL DEF WalletSpec

-----------------------------------------------------------------------------
(* However often a session is delivered, and whatever is killed between two
   writes, it is invoiced once, never without its credit, and credited once
   unless two deliveries of it ran at a time (applyPaidCreditTopUp). *)
THEOREM SessionsAreCreditedOnce == WalletSpec => []SessionCreditedOnce
<1>1. OnceInv => SessionCreditedOnce
  <2> SUFFICES ASSUME OnceInv, NEW s \in Sessions
               PROVE  /\ Cardinality(InvoicesOf(s)) <= 1
                      /\ InvoicesOf(s) # {} => CreditsOf(s) # {}
                      /\ s \notin contested => Cardinality(CreditsOf(s)) <= 1
    BY DEF SessionCreditedOnce
  <2> QED  BY LoneCounts DEF OnceInv, SessionOK
<1> QED  BY <1>1, OnceInvariant, PTL

(* An invoice is credited by one note, and is marked so only if it has one,
   unless two requests were at it or one was killed (issueCreditNote). *)
THEOREM InvoicesAreCreditedOnce == WalletSpec => []CreditedByOneNote
<1>1. OnceInv => CreditedByOneNote
  <2> SUFFICES ASSUME OnceInv, NEW n \in DOMAIN invoices
               PROVE  /\ invoices[n].status = "credited" => NotesOn(n) # {}
                      /\ n \notin contested => Cardinality(NotesOn(n)) <= 1
    BY DEF CreditedByOneNote
  <2> QED  BY LoneCounts DEF OnceInv, InvoiceOK
<1> QED  BY <1>1, OnceInvariant, PTL

(* The automatic top-ups of a day exceed their limit by at most the requests
   that had counted before it was reached (maybeAutoTopUp), also those that
   counted the day before. *)
THEOREM AutoTopUpsAreBounded ==
  ASSUME IsFiniteSet(Requests)
  PROVE  WalletSpec => []AutoTopUpsBounded
<1>1. WalletInv /\ DaysInv => AutoTopUpsBounded
  <2> SUFFICES ASSUME WalletInv, DaysInv, NEW d \in 0..today, AutosOf(d) # {}
               PROVE  Cardinality(AutosOf(d)) <= Allowed
    BY DEF AutoTopUpsBounded, Allowed
  <2>0. /\ Allowed \in Int /\ today \in Nat /\ Cardinality(Adding) \in Nat
        /\ Cardinality(AutosOf(d)) \in Nat
    BY DaysFinite
  <2>1. CASE d = today
    <3>1. Cardinality(AutosOf(d)) + Cardinality(Adding) <= Allowed  BY <2>1 DEF DaysInv
    <3> QED  BY <2>0, <3>1
  <2>2. CASE d \in 0..(today - 1)  BY <2>2 DEF DaysInv
  <2> QED  BY <2>0, <2>1, <2>2
<1> QED  BY <1>1, DaysInvariant, PTL
=============================================================================
