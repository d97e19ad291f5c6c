# MarketingHub in TLA+

MarketingHub is a multi-tenant marketing service: Next.js server actions, webhooks and a cron route
on a hosted Postgres. Its core rule is *AI drafts, users review, approvers approve, the system
publishes; nothing unapproved is published* (`README.md:4`). This directory is a formal model of the
parts in which that rule, or money, depends on the order in which concurrent requests reach the
database, with TLC runs over small instances and TLAPS proofs over all of them.

Paths below are relative to the application's source, `src/src/` (so `lib/publishing.ts` is
`src/src/lib/publishing.ts`).

## 1. The system

### How it runs

Every request (a server action, an approval link, a webhook, a scheduler tick) is a sequential
asynchronous program. Its repository calls (`lib/db/index.ts`) are single awaited queries; there are
**no transactions** across them and no locks. Between two calls of a request, any other request may
run. Several facts about the data layer shape everything else:

- a read returns a snapshot: changing the object changes nothing in the database;
- a write is an `UPDATE` of the named columns *whatever the row holds by then*; the one conditional
  write of the publishing path is `transitionScheduledPost` (`UPDATE ... WHERE status IN (...)`);
- a patch key that is `undefined` is left out of the `UPDATE` (`lib/db/mapper.ts:71-76`), so
  "set to undefined" clears nothing.

A fourth concerns the company's profile, which is one JSON column: settings, the time of the last
report, the milestones of a delivery and the calendar assistant's suggestions are all in it, and whoever
changes one of them writes back the whole of what it read.

The scheduler tick (`lib/scheduler.ts`, called hourly from `vercel.json` through
`app/api/cron/tick/route.ts`, and by hand) runs one job after the other for every tenant; two ticks
may overlap, and operators' clicks run beside them.

### Components, state, operations, what makes them correct

| Component | State | Operations | Correct when |
|---|---|---|---|
| Publish queue, publisher (`lib/publish-queue.ts`, `lib/publishing.ts`, `lib/publishing-connectors.ts`) | `scheduled_posts`, append-only `publish_logs`, the simulator's key registry | tick: recover stale claims, select, back off, claim, attempt, settle, dead-letter; publish now, requeue | one worker per claim; one delivery per post; nothing reported published that was not; a bounded number of retries; crashed claims are released; a stop takes effect |
| Scheduling (`lib/scheduling.ts`, `calendar/actions.ts`) | `scheduled_posts`, the status of content and campaign item | schedule, bulk schedule, reschedule, cancel | only approved content is queued; a cancelled row is never sent |
| Approval workflow (`content/actions.ts`, `lib/client-approval.ts`, `lib/auto-publish-on-approve.ts`) | `content_items` with status, body, versions, client review | save, submit, share, approve, reject by staff or client, auto-publish | the text that goes out is the text that was approved; an old invitation does not approve a new text |
| Campaigns (`campaigns/actions.ts`) | `campaigns`, `campaign_items` | plan, submit, approve, complete, reopen, cancel | completed exactly when its items are done; a cancelled campaign sends nothing |
| Platform limits (`lib/platform-limits.ts`) | derived from logs and rows | 24 h ceiling per account | never more than the ceiling in any 24 h |
| Publishing controls (`publishing/actions.ts`, `lib/security-slice.ts`) | one row: switches and lists of frozen scopes | stop, freeze, thaw, security modes, legal hold | no freeze is lost to another change |
| Credit wallet (`lib/credit-wallet.ts`, `lib/credit-top-up.ts`, `lib/tax-invoices.ts`, `lib/spend-approval.ts`) | balance, ledger, invoices, approvals | top up by checkout or automatically, note, void, approve a spend | balance equals the ledger, a checkout is credited once, spending is funded |
| Billing (`app/api/billing/webhook`, `billing/actions.ts`, `lib/entitlements.ts`) | plan, recorded subscription, add-ons | Stripe events, duplicated and out of order; disabling an add-on | the plan follows the subscription that lives; nothing is kept for one that ended |
| Managed delivery, reports (`lib/managed-service/*`, `lib/client-reports.ts`) | delivery runs with a phase, a company profile | phases advanced by ticks, report mailed when due | a run builds one campaign and comes to rest; no edit of the profile is lost |
| Automation, AI budget (`lib/automation.ts`, `lib/ai/calendar-assist.ts`, `lib/ai/budget.ts`) | drafts, usage records, the suggestions in the company's profile | run, scan, accept, dismiss, generate | one draft per topic, a suggestion becomes one draft, the budget bounds the generations |
| Connect invitations, OAuth (`lib/connect-invites.ts`, `lib/oauth.ts`) | invitations, states, connections | create, open, complete, revoke, expire | an invitation is used once |
| Rate limiting (`lib/ratelimit.ts`) | windows of counts | hit | no more than the limit in a window |
| Email and SMS marketing | campaigns, subscribers | send in batches, unsubscribe | each recipient once, nobody who unsubscribed |
| Social inbox, reviews | messages, replies | draft, approve, publish a reply | a reply is posted once |
| Bookings, ordering (`lib/bookings.ts`, `ordering/actions.ts`, `app/order`, `app/book`) | reservations of a slot, orders and their payment | reserve, order, pay, advance, cancel | a charge is recorded, a status moves forward (that a slot is not overbooked is meant, and does not hold: section 7) |
| Loyalty, photo market, ads | records around external services | create, pay, cancel | a paid thing is delivered once |
| Everything else (CMS, dashboards, brand brain, recommendations, privacy, sessions and roles, interface) | records | create, read, update, delete | no protocol of their own |

`PROJECT.json` lists every component with its sources and status.

### How they interact

    editors, clients ──► content_items ──► schedule ──► scheduled_posts ◄── calendar (move, cancel)
                             ▲   │                           │   ▲
         approval, edit ─────┘   │ read before a send        │   │ publish now, requeue
                                 ▼                           ▼   │
    campaign_items, campaigns ◄──────── publish attempt ◄── claim ── scheduler tick
                                             │                          │
                        platform API ◄───────┘         publish_logs ◄───┘

    Stripe ──► webhook ──► wallet, ledger, invoices │ plan, add-ons │ orders
    scheduler tick ──► delivery run ──► campaign, profile ◄── reports, company form, suggestions
                   ──► automation ──► drafts, approved replies; calendar scan ──► profile

Content, its campaign item, its campaign, its rows and the log are five tables that one operation
updates in up to ten separate awaited calls. A tick or a click claims a row by moving it to
`publishing`, and whatever else happens to the content meanwhile is only noticed where the attempt
looks again.

### What is hard

Nearly every hazard has one shape: *something is read in one call and acted upon in a later one, while
another request runs in between*. Added to it are requests that die between two calls (a serverless
function is killed, a process restarts), inserts that throw after the write they document, platform
answers that are lost after the post was accepted, and workers that are slower than the limit after
which they are presumed dead. The `hazards` of `PROJECT.json` name each at its line, with the
properties that would catch it.

## 2. Plan

| # | Module | What | Composed in | State | Proofs |
|---|---|---|---|---|---|
| 1 | `PublishQueue` | queue, claims, attempts, recovery, retries | `MCPublishQueue` | checked; safety proved | `PublishQueueProofs`, `PublishBudgetProofs` |
| 2 | `PublishPromise` | abstract: what the queue promises of each post | refined by 1 (`KeepsPromise`) | checked and proved | `PublishQueueProofs` |
| 3 | `ContentWorkflow` | drafts, approvals, scheduling, campaign item, the attempt's view of the content | `MCContentWorkflow` | checked; safety proved | `ContentWorkflowProofs` |
| 4 | `CreditWallet` | ledger, balance, invoices, spending decisions | `MCPayments` | checked; safety proved | `CreditWalletProofs` |
| 5 | `BillingEvents`, `Storefront` | plan and add-on events; orders and reservations | `MCPayments` | checked; safety proved | `PaymentsProofs` |
| 6 | `PublishCeiling` | the ceiling of posts an account may have in 24 hours | `MCOperations` | checked and proved | `PublishCeilingProofs` |
| 7 | `PublishingControls`, `SocialReplies`, `ConnectInvites`, `EmailCampaigns` | read-modify-write, single use, mailing | `MCOperations` | checked and proved | `OperationsProofs` |
| 8 | `ManagedDelivery`, `Drafting`, `CalendarAssist` | phases and profile; drafts under a budget; the list of suggestions in the profile | `MCOperations` | checked; safety proved | `DeliveryProofs` |

The types of a whole composition are proved where the last of its parts are: `MCPayments` in
`PaymentsProofs`, `MCOperations` in `OperationsProofs`.

*Composition.* `PublishQueue` and `ContentWorkflow` are two views of one attempt. The first keeps the
queue's detail (attempts, backoff, evidence, faults) and reduces the content to "still publishable";
the second keeps the content's detail and reduces the queue to claim, release and settlement. Both
have the claim as the conditional update of the same row. `PublishCeiling` is a third view, of several
posts of one account, that keeps of an attempt what the count depends on.

`MCPayments` puts components side by side that write no common row: every action of one commutes with
every action of another, a behaviour of all of them is one of each (`PartsAreThemselves`), and the
product of their states would show nothing that their sum does not. A variable `part` gives a behaviour
to one of them. Actions of different subscriptions of `BillingEvents` that do touch the same tenant
stay together (`plan`), and so do orders with each other (`orders`).

`MCOperations` does the same for two kinds of components. `SocialReplies`, `PublishingControls`,
`ConnectInvites`, `EmailCampaigns` and `PublishCeiling` have tables of their own. `ManagedDelivery` and
`CalendarAssist` do **not**: both write the profile of a company. They are two views of that column, as
`PublishQueue` and `ContentWorkflow` are of an attempt. The first keeps the form's edits and the time of the
report; the second keeps the list of suggestions. Each has all writers of the column among its own
requests, those of the other view reduced to what they do to its part of it: read it, and write back
what they read (`SaveSuggestion`, `SurfaceRead`, `SurfaceWrite` in the first; `BeginOther`, `WriteOther`,
`BeginCalendarPhase`, `PatchCalendar` in the second). So no interleaving of theirs is lost by giving a
behaviour to one view, and nothing is claimed of both at once. `Drafting` and `CalendarAssist` share the
request that accepts a suggestion: the first has the budget it asks, the second the suggestion.

*Abstract specifications.* `PublishPromise` knows of a post only where it is (queue, flight, parked, out,
gone), how often the page has it and how often all that showed it was lost; `PublishQueue` implements it
under the mapping of `KeepsPromise`, for requests shorter than the stale limit and log inserts that do
not throw. The ledger plays the abstract part in `CreditWallet`: it is append-only, and the balance is
compared with it.

*Proved and not.* Every invariant and every action property of a passing run is a theorem. What is not:
the five liveness properties (`ClaimsReleased`, `DuePostsSettle`, `PaidIsCredited`, `ChargeRecorded`,
`DeliveryRests`), since liveness under fairness is outside what the prover does, and `NothingUnapproved` and `ShareIsLive`,
which the code violates (section 7). A theorem with a hypothesis names it: `QuietHost`, finite sets of
requests where requests are counted, and requests one after the other for `CampaignFollows`.

## 3. `PublishQueue`

### Correspondence

A worker is one running request, a tick or a click. Each action is one awaited repository call with the
synchronous code up to the next; the program counter `wk[w].pc` names the next call, and the other
fields of `wk[w]` are the locals kept across awaits: the tick's snapshot of candidates (`snap`), the
failures it read for stale rows (`seen`), `claimFrom` (`from`), the status a skip restores (`prior`)
and the attempt number derived from the log (`attempt`).

| Code | Actions |
|---|---|
| `processPublishQueue`: recovery first, then controls, then selection | `TickStart`, `RecoverLogs`, `RecoverRow`, `RecoverFail`, `ReadControls`, `Select` |
| the loop: parked, cooling, exhausted, at the ceiling | `Park`, `LoopTake`, `LoopDefer`, `LoopDone` |
| the claim of `publishPostNow` and `attemptScheduledPost` | `Claim`, `ReadHistory`, `ReadContent`, `Check`, `Release`, `QueryThrows`, `AttemptThrows` |
| `sendToPlatform` and the connectors | `PlatformAccepts`, `PlatformRejects`, `AnswerArrives`, `AnswerLost` |
| settlement (`settleIdempotentPublish`, the end of `attemptScheduledPost`), logging, `deadLetter`, the catch | `SettlePublished`, `PinThrows`, `LogPublished`, `SettleFailed`, `LogFailed`, `LogThrows`, `DeadLetter`, `AuditThrows` |
| `publishing/actions.ts`, `calendar/actions.ts` | `PublishNow`, `Requeue`, `RequeueLog`, `Reschedule`, `RescheduleWrite`, `Cancel` |
| environment: an edit, time, controls, crash of a request, restart of the server | `Demote`, `BecomesDue`, `BackoffElapses`, `ClaimAges`, `CloseGate`, `OpenGate`, `Die`, `Restart` |

Abstractions, and why they are harmless:

- *The log is kept as what the code derives from it*: the failures since the newest requeued or
  published entry, and whether a published entry exists. Skipped entries change neither.
- *Time is three predicates on a row*: due, cooling (inside the backoff of its newest failure), aged
  (older than `STALE_CLAIM_MINUTES`); `older` remembers which rows a tick's `staleBefore` precedes. The
  code only ever compares times with these limits.
- *Gates*. What the platform checks and controls decide is one of three gates the environment opens and
  closes: `disabled` (the tenant's switch, read before selection), `frozen` (any transient block of an
  attempt), `full` (the account at its ceiling).
- *The simulator's registry* lives in the one server process and is emptied by `Restart`. Several
  serverless instances would each have their own; that weaker setting is not modelled.
- A query error that leaves nothing behind equals not having reached the row yet, so only errors in
  front of which something was written or claimed are actions.

Bounds: `MaxFaults` caps crashes and lost answers (one is enough to enter every recovery path; what
several faults do to the safety properties is settled by the proofs, which bound nothing), `ClickLimit` caps retries by hand. `MaxAttempts` is 5 in the code and 1 or 2 in
the runs: the first attempt, one that is not the last, and the last one.

### Properties and runs

| Run | Instance | Checks |
|---|---|---|
| `queue_race` | two requests, each tick or click; one post; real connector; one fault | `TypeOK`; `ExclusiveClaim`: a post being worked on has one worker and its row stays out of reach; `OneDeliveryPerLoss`: delivered once, plus once for each destroyed evidence of an acceptance; `KeepsPromise`: the queue implements `PublishPromise` |
| `queue_ticks` | two ticks, kill switch and freeze, simulator | `AttemptBudget`: at most `MaxAttempts` failures, plus one for each other worker; `DeadMeansSpent`; `StopDrains`: after a stop, at most one more call per worker |
| `queue_hostile` | a tick and a click, ceiling, slow workers, throwing log inserts, one fault | `PublishedWasDelivered`, `OutcomesStand`: what needs no well-behaved host |
| `queue_live` | ticks over two posts, kill switch, one fault, fairness | `ClaimsReleased`: a claim whose worker died is released, even while publishing is disabled; `DuePostsSettle`: a due post ends published, dead or cancelled |
| `queue_stolen` | throwing log inserts, freeze | finding: `OneDeliveryPerLoss` violated |
| `queue_requeue` | a tick and a requeue | finding: `DeadMeansSpent` violated |

`KeepsPromise` maps a row to a place by its status and to the counts by `delivered` and `lost`. A crash
before the platform is reached is a put-back, a recovery that finds evidence a confirmation, a restart of
the server the loss of sight of several posts at a time; that no step of the queue puts back, withdraws
or sends again a post that is known to be up is what the abstract actions forbid.

One post suffices for the safety properties because they speak of one row and posts interact only
through the tick's loop, which two posts exercise in `queue_live`, and through the ceiling, which has a
module of its own. Two requests suffice for claim
races; the proofs cover any number. The runs do not check for deadlock, because the system may really
come to rest: everything settled, the operators' clicks and the faults used up.

*Fairness* (`FairSpec`). `WF(Step(w))`: a live request's awaited query returns and it goes on (`Die`
disables it). `WF(TickStart(w))`: the cron calls the tick every hour. `WF(BackoffElapses)`,
`WF(ClaimAges)`: time passes. Clicks, gates, faults and edits have no fairness: operators owe nothing.

### Proofs (`PublishQueueProofs`, `PublishBudgetProofs`)

For any posts, workers, gates, budgets and faults:

- `TypeCorrect`: `Spec => []TypeOK`, together with `JobOK`: a worker past its claim has a post.
- `NothingInvented`: `Spec => []PublishedWasDelivered`, also with slow workers and failing log
  inserts. The invariant `DeliveryInv` adds that every worker about to write "published" somewhere holds
  a post with evidence or an acceptance, and that all evidence is of a delivered post.
- `OutcomesAreFinal`: `Spec => OutcomesStand`, on any host. No invariant beyond the types: every
  `UPDATE` names the statuses it may leave.
- `ClaimIsExclusive`, `DeliveredOncePerLoss`: under the hypothesis `QuietHost` (`~SlowWorkers /\ ~LogErrors`).
  `ExclusiveClaim` is not inductive: that a claimed row is not taken away depends on the recovery's
  snapshot being of an older claim (`OldIsAged`), on nobody releasing a row twice (`NoSecondRelease`),
  and on what a settling worker has in hand (`SettlesOnEvidence`); that a post is not sent twice
  depends on the sender having looked for evidence under the claim it still holds
  (`SendsWithoutEvidence`), on a recovery that saw none when it looked (`RecoversUnseen`) and on the
  balance of deliveries, evidence and losses (`DeliveriesAccounted`). `Custody` is their conjunction. The
  hypothesis is needed: `queue_stolen` is the counterexample without the second half, and a worker
  slower than the stale limit is one without the first.
- `PromiseKept`: `QuietHost` gives `Spec => KeepsPromise`, the refinement. Each action is mapped to the
  step of `PublishPromise` it takes for its post, or to none; `Custody` supplies what the abstract guards
  ask for. A post that is known to be up is not put back, withdrawn or sent again.
- `PromiseMeans`: what the promise is worth by itself. `KeepsPromise` implies `[]OneDeliveryPerLoss` and that
  what is out or gone has not moved since, from `PublishPromise` alone.
- `StoppedCallsDrain`: for a finite set of workers, `Spec => []StopDrains`. The invariant `Draining` counts,
  once publishing is stopped, the late calls together with the workers that have passed the gate and not
  called yet; each call moves one from the second count to the first and nothing adds to either.
- `BudgetIsKept` (`AttemptBudget`) and `DeadHaveSpent` (`DeadMeansSpent`): on a `QuietHost`, for a finite set of
  ticks, without clicks (a requeue hands out a new budget, and `queue_requeue` shows that it may lose it).
  Failures are logged after the row is released, so another tick can begin an attempt before the last
  one is counted. `Tally` says that what a worker derived from the log never exceeds what is logged by
  now (`Counted`, which gives the second theorem at once); that while a post waits or is in flight, one
  tick at least has no retry of it in mind (`OneSpare`); and that beyond its budget the failures, the
  attempt in flight and the ticks that have decided to retry it still fit under the bound (`Bounded`).

Only model-checked: the two liveness properties.

## 4. `ContentWorkflow`

### Correspondence

One content item, the single item of a campaign or in none (`Linked`), its rows, and editors' and
publishers' requests. Each action is one awaited read or write, with the guards the code evaluates on
what it read.

| Code | Actions |
|---|---|
| `saveContentAction` and `restoreVersionAction` (an edit back to an earlier text) with the sweep of the rows at rest (`cancellableSchedulesForContent`), the demotion of item and campaign | `Save`, `SweepList`, `SweepRow`, `SweepDone`, `Edit`, `BackItem`, `BackItemWrite`, `BackCampaign`, `Reopen` |
| `submitForApprovalAction`, sharing with the client | `Submit`, `SubmitWrite`, `Share`, `ShareWrite` |
| approval and rejection by staff and by the client | `Decide`, `Govern`, `ApproveWrite`, `ApproveItem`, `Complete`, `CompleteItems`, `CompleteWrite`, `Reject`, `RejectWrite` |
| `scheduleOne` | `ScheduleRead`, `Critique`, `CreateRow`, `CreateThrows`, `ScheduleWrite`, `ScheduleItem` |
| cancelling a row, cancelling the campaign | `CancelRow`, `CancelRead`, `CancelActive`, `Unschedule`, `ItemRead`, `ItemWrite`, `CancelCampaign`, `CampaignItems`, `CampaignContent`, `CampaignWrite` |
| the attempt, as far as it concerns the content | `Claim`, `ClaimLost`, `ReadContent`, `CancelSelf`, `Checks`, `Skip`, `Send`, `Settle`, `SettleFail`, `Exhaust`, `Fresh`, `Advance`, `ItemPublished` |
| a request dies, a stale claim is recovered, a dead row requeued | `Stop`, `Recover`, `Requeue` |

The hosted database is modelled (not the in-memory store of the tests), so an undefined patch key
clears nothing. The outcomes of governance, critique, routing and the platform are nondeterministic.
History variables record which texts were approved (`cleared`), delivered (`sent`), queued for (`born`),
shared (`shared`), and whether a status decided on one text was written onto another (`raced`); no guard
reads them. Recovery of a stale claim happens only when nobody works on the row: slow workers are the
subject of `PublishQueue`. Bounds: two texts (the old and the new one), one or two rows.

### Properties and runs

| Run | Instance | Checks |
|---|---|---|
| `content_race` | two editors, a publisher, one row, two texts, crashes at any await | `TypeOK`; `ApprovedUnlessRaced`: every approved, scheduled, published or delivered text passed an approval that governed it, until a status decided on one text is written onto another; `CancelledStaysSilent`: a cancelled row is never delivered and never revived |
| `content_linked` | one editor, two rows, item and campaign | `CampaignFollows`: between requests the campaign item tells how far its content is, and the campaign is completed exactly when its item is done |
| `content_unapproved` | two editors | finding: `NothingUnapproved` violated |
| `content_share` | one editor | finding: `ShareIsLive` violated |

`content_race` uses a `VIEW` that drops the history its properties do not depend on, and symmetry among
the editors. `ApprovedUnlessRaced` isolates what `content_unapproved` shows: the lost update of an
approval is the *only* way around approval; crashes, sweeps, rows in flight and attempts add none.
Deadlock is checked in these runs.

### Proofs (`ContentWorkflowProofs`)

For any rows, requests and texts, linked or not, with crashes or without, and no assumption beyond the
named ones of the constants:

- `TypeCorrect`: `Spec => []TypeOK`.
- `OnlyRacesEscapeApproval`: `Spec => []ApprovedUnlessRaced`. The property alone is not inductive: a
  worker may be about to promote or to send the text it read earlier. `ClearInv` adds `LocalsClear`: as long as nothing raced,
  at each program point of `Relies` (the points where a worker still acts on its copy) the copy is
  a cleared text. It is stable because `cleared` only grows.
- `CancelledIsSilent`: `Spec => CancelledStaysSilent`. The invariant `FlightInv` says that a worker in an
  attempt holds its row, which is in flight (`InFlight`), that no other worker does (`Sole`), and that sweeps
  and cancellations, which are conditional on other statuses, leave it alone. So a row once cancelled has
  no worker left that could send it.

- `CampaignKeepsUp`: without crashes, `Spec /\ []OneAtATime => []CampaignFollows`, for any number of editors
  and publishers that work one after the other. `CampaignFollows` speaks of the moments between two
  requests; `FollowInv` extends it to those within one by a table over the program points: what the item
  and the campaign still lack there, and what the request read of them. Both hypotheses are needed: a
  request killed between its two writes, or one that overlaps, leaves the campaign behind, and no job puts
  that right.

## 5. What takes payments: `CreditWallet`, `BillingEvents`, `Storefront`

### `CreditWallet`

Each action is one awaited call of a request (`calls[r].pc` names the next one). Every top-up is worth one
unit, so a ledger is worth its length; an invoice is its position, which is its number.

| Code | Actions |
|---|---|
| `onCreditTopUpCheckout` and `applyPaidCreditTopUp`: look the invoice up, then the ledger entry, top up, issue the invoice | `Deliver`, `DeliverAgain`, `Lookup`, `Find`, `ReadNumber`, `InsertInvoice` |
| `topUpCredit`, read, append, write the balance | `ReadWallet`, `AppendLedger`, `WriteBalance` |
| `issueCreditNote`, `voidTaxInvoice` | `CreditNote`, `MarkCredited`, `Void`, `MarkVoid` |
| a spending decision (`ads/actions.ts`, `lib/spend-approval.ts`) behind `maybeAutoTopUp` and `assertPrepaidCredit` | `BeginSpend`, `MaybeAutoTopUp`, `Count`, `CheckFloor`, `Spend` |
| settings, the client, the host, the day | `SaveAutoTopUp`, `Pay`, `Killed`, `WriteThrows`, `Over`, `NextDay` |

`WriteThrows` keeps a fact of the route that is easily missed: a handler that throws is answered with
200 all the same (`app/api/billing/webhook/route.ts:321-338`), so Stripe does not come back. A session
whose handler threw is `refused`, and the properties name it as the exception it is.

### `BillingEvents`

Stripe emits the events of one subscription in order and delivers them side by side; a delivery reads
the tenant (or the entitlement) and writes it in a later call. `PlanCheckout`, `PlanUpdated`,
`PlanDeleted`, `AddonCheckout` and `AddonDeleted` are the handlers, `Receive`, `WriteTenant`,
`WriteAddon`, `WriteFails` and `Answer` the stages of a delivery, `Disable`, `CancelAtStripe` and
`CancelRefused` the owner's `disableAddonAction`, the rest Stripe. A patch of `undefined` changes
nothing, which decides what the downgrade leaves on record.

### `Storefront`

`PlaceOrder`, `OpenCheckout`, `SimulatePayment`, `OrderPaid`, `RecordPayment`, `PaymentThrows`,
`AdvanceOrder` and `WriteOrder` are an order between its guest, Stripe and the kitchen;
`RequestReservation`, `AdvanceReservation` and `WriteReservation` are reservations.
`OrderTransitions` and `BookingTransitions` are the code's tables.

`RequestReservation` has no guard on the slot, because the code's has no effect on the hosted database:
`assertSlotCapacity` (`lib/bookings.ts:105`) compares times as strings, and the request's
(`toISOString`, ending in `Z`) never equals one that comes back from a `timestamptz` column (`+00:00`). It
sums over no reservation and lets every party pass that the slot could hold alone.

`Handled` of `BillingEvents` has one arm per case of the handlers' conditions, and the arms exclude each
other.

### The run `payments`

Two requests interleave at every awaited call; one of them may be killed. `part` gives a behaviour to
one component (the plan and the add-on, orders and reservations apart).

| Property | Meaning |
|---|---|
| `BalanceBacked` | the balance never exceeds what the ledger explains |
| `CreditsKept` | it falls short only after two top-ups overlapped or one was cut short (`mixed`) |
| `SessionCreditedOnce` | a checkout has one invoice, none without a credit, and one credit unless two deliveries of it ran at a time (`contested`) |
| `AutoTopUpsBounded` | a day's automatic top-ups exceed the limit by at most the other requests |
| `SpendFunded` | no spending decision before the ledger held the floor |
| `CreditedByOneNote` | an invoice marked credited has a note, and one note unless two requests were at it or one was killed |
| `NoFreeRide` | no paid plan or add-on stays for a subscription whose end was handled, unless its own events were handled out of order or lost (`muddled`) |
| `PlanFollowsSubscription` | when all events are handled, the plan is the living subscription's, unless two lived or overlapped (`doubled`) |
| `StoreMovesForward` | an order or a reservation leaves its table of transitions only by a payment recorded first or a write over a change unseen |
| `PaidIsCredited`, `ChargeRecorded` | a paid session is credited and a charge recorded in the end, through kills and collisions, unless a handler threw |

*Bounds.* The subject of every race is a pair of requests, so two requests, one session, one order and two
subscriptions of a kind (an old and a new one) are enough to enter each. `WalletStaff` lets one invoice be credited or voided twice, or a spend
follow a change of settings; the day may change once.

*Fairness.* `WalletFairness` and `StoreFairness`: a request runs on, and Stripe delivers a paid session
until it is answered. Nobody need pay, and staff owe nothing.

### Proofs (`CreditWalletProofs`, `PaymentsProofs`)

For any sessions, requests, floors, limits, subscriptions, plans, deliveries, orders and reservations:

- `WalletTypes`, `BalanceIsBacked`, `SpendIsFunded`, `CreditIsKept`. A request about to write a balance holds
  one it computed from an earlier read, so none of the three properties is inductive. `WalletInv` adds that
  each such request holds no more than the ledger explains (`Explained`), that one past the check of the
  floor knows a ledger that held it, and, as long as nothing is `mixed`, that the one top-up under way
  read the balance as it still stands (`Undisturbed`).
- `SessionsAreCreditedOnce`, `InvoicesAreCreditedOnce`. `OnceInv`: what a request has found of its subject
  (session or invoice) stays there, and at a subject that is not `contested` one request is at work, so
  that what it has missed is still missing when it writes.
- `AutoTopUpsAreBounded`, for a finite set of requests: `DaysInv` bounds the top-ups written today together with
  the requests that have counted and not written theirs (`Adding`). A request that counts finds the
  written ones below the limit, and the others in `Adding` are the other requests at most.
- `RidesArePaid`. `RideInv`: unless its events were handled out of order (`muddled`), one delivery at most handles a
  subscription, its end is the last of its events, and once that is handled no record lives on it
  (`Closed(s) => Released(s)`).
- `PlanIsFollowed`. `FollowInv`: until two plan subscriptions lived at a time or their events overlapped, the one
  that lives is the only one whose events may still change the tenant once its checkout was received; then it is
  on record or about to be (`OnRecord`), and its last event carries its price (`LastPrice`, `Priced`).
- `StoreGoesForward`, an action property. `OrdersInv`: a checkout is in the hands of one delivery, a charge that is
  not recorded belongs to an order whose payment is pending (`ChargedIsPending`, `PaidOnPending`). A
  request that advances a row holds a transition of the status it saw (`VisitOK`), so that it
  follows the table unless the row has changed since.
- `PartsAreThemselves`: a behaviour of `MCPayments` is one of each component, so the theorems above hold where
  the run checks them; `PaymentTypes`: `Spec => []TypesOK`.

Only model-checked: `PaidIsCredited` and `ChargeRecorded`, which are liveness.

## 6. What ticks and staff do besides the queue

| Module | Code | Actions |
|---|---|---|
| `PublishCeiling` | the ceiling as `processPublishQueue` and `publishPostNow` keep to it: counted once, then added to | `BeginTick`, `BeginClick`, `ReadUsage`, `ClaimDue`, `AttemptFails`, `PlatformTakes`, `SettleRow`, `LogEntry`, `LogEntryThrows`, `EndDuty`; `ClaimUnseen`, `UsageUnread` (lookups that miss); `LeavesWindow` |
| `PublishingControls` | `toggleControlAction`, `freezeScopeAction`, `updatePublishingControls` | `BeginChange` (the row that computes the patch), `FetchRow` (the row it is merged into), `UpsertRow` |
| `SocialReplies` | `approveSocialAction`, `closeSocialAction`, `publishSocialReplyAction`, the engine's approvals | `BeginApprove`, `BeginAutoApprove`, `Approve`, `BeginClose`, `Close`, `BeginPublish`, `GiveUp`, `Post`, `MarkPublished` |
| `ConnectInvites` | `connectInviteManualAction`, `completeConnectInvite`, revocation, the page that marks it expired | `BeginConnect`, `CreateIntegration`, `CompleteInvite`, `StampInvite`, `BeginRevoke`, `BeginExpire`, `Visit`, `WriteStatus` |
| `EmailCampaigns` | `sendEmailCampaignAction`, `sendBulkEmail` | `BeginSend`, `ListRecipients`, `SendBatch`, `BatchThrows`, `SendOne`, `MarkSent`, `Unsubscribe` |
| `ManagedDelivery` | `processManagedDeliveryRun`, `advancePhase`, `patchCompanyManaged`, scheduled reports, the company form and the other writers of the profile | `BeginDelivery`, `Validate`, `Enter`, `Build`, `SurfaceRead`, `SurfaceWrite`, `SkipSurfacing`, `Advance`, `AdvanceLost`, `PatchCompany`, `FinishDelivery`, `DeliveryThrows`; `BeginReport`, `PrepareReport`, `SendReport`, `MarkReported`; `BeginSave`, `SaveCompany`, `SaveSuggestion` |
| `Drafting` | `runAutomations` (a campaign, then content per topic), the AI budget, also of an accepted suggestion | `BeginRun`, `AskBudget`, `OpenCampaign`, `Generate`, `CreateDraft`, `RecordUsage`, `ListTitles`, `NextTopic`, ...; `CampaignsUnread`, `TitlesUnread`, `SpendUnread`; `BeginAccept`, `AcceptBudget`, `AcceptRecord` |
| `CalendarAssist` | the suggestions of the calendar assistant, a list in the company's profile | `BeginScan`, `BeginCalendarPhase`, `ListOpen`, `ListUnread`, `FetchBoard`, `WriteSuggestion`, `PatchCalendar`; `AcceptSuggestion`, `DraftSuggestion`, `DismissSuggestion`, `LookUp`, `WriteSettled`; `BeginOther`, `WriteOther` |

A read that fails is an action where the adapter hides it: `listCampaigns`, `listContent`,
`listCalendarAssistSuggestions`, `findConnectedIntegration` and `aiSpendThisMonth` drop the error and return
nothing, which their callers take for "none" (`lib/db/supabase-adapter.ts:929, 408, 1475, 1064, 1283`). Each is
counted as one fault of its component.

In all of them a request reads, decides, and writes without a condition on what the row holds by then.
What they promise is therefore stated as *exactly when* it fails. A history variable says that two
requests of a kind overlapped (`crowded`, `controlHarm`, `replyRaced`, `inviteRaced`, `mailRaced`,
`mishaps`, `overlaps`, `assistMishaps`) or that one was cut short; no guard reads it. Outside of that the promise is
absolute, and where it can be it is also a bound on what an overlap costs.

### The run `operations`

| Property | Meaning |
|---|---|
| `CeilingKept` | requests one after the other keep an account to its ceiling of posts in 24 hours, lost acceptances and what lookups missed (`missed`: posts sent without the check, entries not counted) aside; each that overlaps adds one ceiling and the missed ones at most |
| `FreezeStands` | what admins asked for is in force in every column of the row |
| `RepliedOnce` | a reply is posted once, and once more for each lost answer |
| `InviteUsedOnce` | an invitation connects one account, and one more for each killed request; none once revoked or expired, but by such a kill or by expiring between the two checks of one completion |
| `MailedOnce` | a subscriber gets a campaign once, and once more for each loss; a batch that throws and is sent again one by one adds none |
| `OneCampaignPerRun` | a run builds one campaign, and one more for each killed request; past its strategy it has one |
| `ProfileKept` | no edit of the company form is lost, no period has two reports, unless two requests held the one profile column or a request died after its mail |
| `DeliveryRests` | a queued run comes to rest, through kills and lost writes in any phase |
| `BudgetHolds` | the model is called beyond the cap only by the other requests past the check, killed ones, dropped drafts and checks that could not read what was spent |
| `OneDraftEach` | one waiting campaign, one draft per topic, and one more for each lookup that failed |
| `OneOpenEach` | one open suggestion per key, and one more for each list that could not be read, unless scans overlapped or the profile was written over a change its writer had not seen |
| `AcceptedOnce` | one draft per suggestion, none of a dismissed one, and one more for each accept that ended between the two, unless two requests settled it or the profile was written over a change unseen |

*Bounds.* Two requests of a kind and one kill, lost answer, or read or write that failed. Three due posts under a
ceiling of one: a tick stops before the end of its list, two requests together exceed it, and a missed
lookup lets a third post out. A budget of two is asked below, at and above its cap. `MaxCampaigns` is one
above what `OneCampaignPerRun` allows. Two of a set (companies to freeze, recipients, suggestions of one
key) are enough to confuse them.

*Constraint.* `Followed` ends a behaviour where the invariants promise nothing more: once the profile was
written over an unseen change or suggestions were both surfaced and settled by overlapping requests (`assistMishaps`
never forgets, and `OneOpenEach` and `AcceptedOnce` are then true by their exceptions), or once changes of the
controls overlapped (`controlHarm`). It cuts nothing of the part `delivery`, which the liveness
property is about. The proofs have no such constraint.

*Fairness.* `DeliveryFairness`: requests run on, and a tick begins again and again (the cron). The latter is strong
fairness because the model has two places for requests: clicks may take both over and over, and a
tick, which needs no place in the code, must still get its turn.

Neither run checks for deadlock: requests, faults and clicks may be used up, and then everything is at
rest.

### Proofs (`OperationsProofs`, `PublishCeilingProofs`, `DeliveryProofs`)

Each invariant has the form *the history variable says that something overlapped, or* the rest, so that
the proofs are about requests one after the other, killed ones and faults included; the bounds
that hold through overlaps (the ceiling, the budget) are conjuncts of their own.

- `ReplyOnce`: one clerk at most is at it (`OneClerk`), the status is still the one it opened
  (`StillAsOpened`), and a posted reply is marked so or about to be, lost answers aside (`MarkedOrAboutTo`).
- `ControlsAsAsked`: `OneAdmin`, and what it read is still the row (`ReadIsCurrent`); the lemma
  `PatchSets` says that replacing one column sets one switch.
- `InviteOnce`: `OneGuest`, `StillPending`, and every integration is `Accounted` for by the status, the guest
  in hand or a kill.
- `MailOnce`: `OneSender`; a subscriber whose mail is still to come, in this click or a later one, has had the
  campaign only through faults, any other once more than that (`Delivered`).
- `CeilingIsKept`: each request knows of its own entries, the missed ones aside, and checks only while it knows of fewer
  than the ceiling (`TallyOK`); alone, it knows of all of them but those (`Lonely`, `Aware`). A post
  claimed unseen is in `missed` from its claim on. The cardinality arguments need
  `DuePosts` finite, which the module assumes.
- `CampaignsAreBuiltOnce`: campaigns are counted against the faults until the one request on the run is past its
  strategy (`OneBuilds`); past it, the run has its campaign (`HasCampaign`).
- `ProfileIsKept`: the one request between its read and its write of the profile column holds it as it is
  (`OneHolds`), and the report it mails is one the profile does not show (`OneReports`); each part is waived
  once its mishap is on record. A delivery run in its calendar phase holds the column twice, from its own read and from
  that of the suggestion it surfaces; both are the profile as it stands.
- `BudgetIsHeld`, for a finite set of requests, through any overlap: what was called and the requests past their check
  that have yet to call stay within the cap, one for each request but one, and the faults (`Metered`); what was called
  and is not spent is in the hands of a request (`Unrecorded`) or a fault.
- `DraftsNeverPile`: one run (`OneRuns`), and what it listed is still what is there (`RunOK`), but for the lists that failed.
- `SuggestionsStayFew`, for a finite set of ids. `SurveyInv`: one scan, which is about to surface only while nothing but
  failed lists explains what is open. A writer of the profile that has seen the last of the list
  writes that list, so it opens nothing.
- `SuggestionsDraftOnce`. `SettleInv`: a suggestion has one request that settles it, is open (or wiped out by a delivery) while that one
  is at it, and has drafts only of it and of those that ended on the way. The lemmas `Stepped` and `ListWritten`
  say this once for all requests that write the list. That a delivery run wipes out what it surfaced needs
  that it had read the company before (`RecordOK`).
- `OperationTypes`: `Spec => []TypesOK`, of all components together.

Only model-checked: `DeliveryRests`, which is liveness.

## 7. Findings

| Run | The code | What was promised |
|---|---|---|
| `queue_stolen` | an attempt releases its row before its log insert; when that throws, the catch (`lib/publish-queue.ts:376`) releases the row a second time, whoever holds it now; a third request then sends a post that is being sent | "exactly one wins ... No double-posting" (`publish-queue.ts:9-11`) |
| `queue_requeue` | requeue moves the row before it writes the marker that resets the count (`publishing/actions.ts:259, 264`); a tick in between dead-letters the post on its first failure | "the post gets a fresh retry budget" (`publishing/actions.ts:244-246`) |
| `content_unapproved` | an approval writes its status onto whatever text the row holds by then (`content/actions.ts:287`) | "Nothing unapproved is published" (`README.md:4`) |
| `content_share` | `clientReview: undefined` is dropped from the `UPDATE`, so an old invitation survives an edit (`content/actions.ts:201`) | "a stale token can never approve a body the client never saw" (`content/actions.ts:199-200`) |

Met while modelling, without a run of their own:

- An attempt in flight during an edit, past its content check (`lib/publishing.ts:223`), that then
  fails, settles as failed and not as cancelled; the sweep of `content/actions.ts:176` passed it by, so
  it is retried with the new text once that is approved. `db/index.ts:1385-1388` says a stale failed
  post must not stay retryable.
- Webhook handlers that throw are acknowledged (`app/api/billing/webhook/route.ts:321-338`): the paid
  thing is then neither recorded nor delivered again.
- An update of a delivery run that fails unseen in `advancePhase` can leave the run past its strategy without
  its campaign (`AdvanceLost`).
- The slot check counts nothing on the hosted database (`lib/bookings.ts:102-106`): the request's time is
  `toISOString()` (`app/book/[companyId]/actions.ts:50`), the reservations' come from a `timestamptz` column
  (`0034_bookings.sql:42`) in another notation, and the two are compared as strings. Guests one after the
  other overbook a slot without bound.
- The calendar phase of a delivery run surfaces suggestions into the profile and then writes its milestone into
  the profile it had read before (`lib/managed-service/delivery-runner.ts:305, 338`): what it has surfaced is
  gone again (`PatchCalendar`), although the run records it as surfaced.
- A suggestion that was accepted or dismissed is open again after a form, a report or a scan writes back the profile it had
  read before (`lib/db/supabase-adapter.ts:1509, 1526`), and is then drafted a second time; the bounds of
  `OneOpenEach` and `AcceptedOnce` end there, as those of `ProfileKept` do for the form's edits.
- An account whose lookup fails (`lib/db/supabase-adapter.ts:1064`), or that is connected between the tick's lookup and the
  attempt's (`lib/publishing.ts:254`), is published to without the ceiling and without being counted
  (`lib/publish-queue.ts:562, 576`); and the entries of the last 24 hours are none if the
  companies could not be listed (`supabase-adapter.ts:133, 1189`).
- A usage query that fails lets the budget check pass (`supabase-adapter.ts:1283`).
- A reply can be posted twice when requests overlap, contrary to the comment at `social/actions.ts:107-108`.
- Drafts dropped for an existing title are not charged to the budget (`lib/automation.ts:319-320`).

## 8. Not modelled, and why

- **Around the content**: requests and variant groups linked to an item, attaching assets, approval
  policies; a campaign has one item. The version history is pushed on a snapshot and not written back with the hosted
  database (`content/actions.ts:164, 526`): no other state depends on it. `generateDraftAction`
  (`requests/actions.ts:90-215`) writes its status blindly, in the shape the modelled handlers have.
  A cancelled campaign's failed and dead rows stay retryable (`campaigns/actions.ts:385`); an
  attempt on one cancels itself, which `ContentWorkflow` has (`CancelSelf`).
- **Around money**: the simulated top-up of the portal and `debitCredit` have no caller in production. An
  applied spend change marks its recommendation applied before the check of the credit
  (`lib/spend-approval.ts:187`): a failed check takes it off the list of those still to apply
  (`ads/page.tsx:143`) without the budget having moved. One request, two writes, no
  later step. The checkout of the photo marketplace is a kind the webhook does not handle; loyalty's
  redemption and referrals have no caller; the advertising platforms are simulated unless `ADS_LIVE`
  is set.
- **Around the operations**: review responses (`reviews/actions.ts:55`) have the shape of
  `SocialReplies`; automatic progress and the rolling calendar have that of `CalendarAssist`'s scan;
  dismissed suggestions may be surfaced again in a later scan. SMS is kept in memory. The public unsubscribe
  route (`app/api/email/unsubscribe/route.ts:9`) uses the session client, which sees no subscriber
  there when hosted, so only the staff's unsubscription is an action.
- **Rate limiting** (`lib/ratelimit.ts`): one process, no await between reading and writing a window.
- **Pure algorithms** (scoring, recommendation, segmentation, time zones, text generation and
  retrieval): functions of their input, most of them arithmetic on heuristics without a reference to
  compare with.
- **Records and the interface** (CMS, brand brain, dashboards, public API, privacy, media): plain reads and
  writes with nothing that depends on order. Most of the source is of this kind or is markup, which is
  why the models stand for a small share of its lines.
- **Authentication, roles, tenancy**: every modelled action assumes an authorised user of the tenant.

## 9. Running it

    tlc -workers 2 -config PublishQueue_race.cfg MCPublishQueue.tla
    tlc -workers 2 -config ContentWorkflow_race.cfg MCContentWorkflow.tla
    tlc -workers 2 -config Payments_parts.cfg MCPayments.tla
    tlc -workers 2 -config Operations_parts.cfg MCOperations.tla
    tlapm PublishQueueProofs.tla        # and the other modules named *Proofs

`PROJECT.json` names for every run its module, configuration and properties; for every definition the
source lines it models; and for every property a mutation of the model under which TLC finds the
property violated (the mutated operators stand just before the definitions they replace).
