--------------------------- MODULE PublishQueue ---------------------------
(***************************************************************************)
(* The publish job queue of src/lib/publish-queue.ts together with the     *)
(* single-attempt publisher of src/lib/publishing.ts and the operators'    *)
(* actions that move a queued row (publish now, requeue, reschedule,       *)
(* cancel).                                                                *)
(*                                                                         *)
(* A worker is one running request: a scheduler tick or an operator's      *)
(* click.  Every repository call of the code is one awaited query, so an   *)
(* action below is one such call with the synchronous code up to the next  *)
(* one, and between two actions of a worker any other worker may run.      *)
(* What a worker read before an await and uses after it is in wk[w].       *)
(*                                                                         *)
(* The append-only publish log of a post is kept as the facts the code     *)
(* derives from it: the failed entries since the newest requeued/published *)
(* marker (attemptsSinceRequeue) and whether a published entry exists      *)
(* (findPublishedLogForPost); "skipped" entries change neither.  Time is   *)
(* kept as three predicates on a row: due (isDue), cooling (its newest     *)
(* failure is younger than its backoff), aged (its updatedAt is older than *)
(* STALE_CLAIM_MINUTES).                                                   *)
(***************************************************************************)
EXTENDS Naturals, FiniteSets

CONSTANTS
  Posts,          \* scheduled_posts rows of one tenant
  Workers,        \* concurrent requests of the one server process
  Ticks,          \* the workers that run scheduler ticks
  Clicks,         \* the workers that serve operators' clicks
  NoPost,         \* "no post in hand"
  MaxAttempts,    \* MAX_PUBLISH_ATTEMPTS
  Gates,          \* the gates the environment may close, out of AllGates
  LiveConnector,  \* TRUE: real platform API; FALSE: the built-in simulator
  SlowWorkers,    \* TRUE: a live worker may hold a claim past the stale limit
  LogErrors,      \* TRUE: an insert into a log table may throw
  ClickLimit,     \* bound: operators retry a post with fewer failures only, and
                  \* requeue one with fewer failures beyond its budget only
  MaxFaults       \* bound on crashes and lost platform answers

(* What holds posts back: the tenant's automatedPublishingDisabled switch,
   any transient block of an attempt (freeze, crisis or sandbox mode, legal
   hold, asset rights), and an account at its 24h ceiling. *)
AllGates == {"disabled", "frozen", "full"}

ASSUME WorkersAssumption == Ticks \subseteq Workers /\ Clicks \subseteq Workers
ASSUME NoPostAssumption == NoPost \notin Posts
ASSUME MaxAttemptsAssumption == MaxAttempts \in Nat \ {0}
ASSUME GatesAssumption == Gates \subseteq AllGates
ASSUME ModeAssumption ==
  LiveConnector \in BOOLEAN /\ SlowWorkers \in BOOLEAN /\ LogErrors \in BOOLEAN
ASSUME BoundsAssumption == ClickLimit \in Nat /\ MaxFaults \in Nat

VARIABLES
  status,       \* scheduled_posts.status
  aged,         \* in-flight rows older than the stale-claim limit
  older,        \* <<w, p>>: updatedAt of p precedes staleBefore of w's tick
  due,          \* rows whose scheduled date and time have passed
  publishable,  \* rows whose content is still "scheduled" or "published"
  gates,        \* the gates closed now
  fails,        \* failed log entries since the newest requeued/published one
  plogged,      \* a "published" log entry exists
  cooling,      \* rows inside the backoff of their newest failure
  registry,     \* attempts under which simPublishedByKey holds the post
  wk,           \* the local state of each worker
  delivered,    \* times the platform accepted the post (history)
  lost,         \* times the only evidence of an acceptance was lost (history)
  late,         \* platform calls since publishing was stopped (history)
  faults        \* crashes and lost answers so far

rowVars  == <<status, aged, older>>
envVars  == <<due, publishable, gates>>
logVars  == <<fails, plogged, cooling>>
platVars == <<registry, delivered, lost, late, faults>>
vars == <<rowVars, envVars, logVars, platVars, wk>>

Status == {"scheduled", "publishing", "published", "failed", "dead", "cancelled"}
Resting == {"scheduled", "failed"}

(* Program points at which a worker owns the claim it made on its post.    *)
Holding == {"history", "idemSettle", "content", "cancelSelf", "checks", "skip",
            "send", "accepted", "settleFail", "settlePub", "catch"}
PC == Holding \cup {"idle", "recoverLogs", "recover", "recoverSettle", "recoverFail", "select",
                    "loop", "claim", "logPub", "logFail", "recatch", "catchLog",
                    "deadLetter", "requeueLog", "reschedule"}

(* A worker's locals: where it is and where it returns to after the post in
   hand; what a tick's snapshot still plans for each post, and the failures
   it read in the logs of the stale ones; claimFrom; the status a skip
   restores; the attempt number derived from the log. *)
Plan == {"none", "stale", "sent", "scheduled", "failed", "park"}
Worker == [pc: PC, ret: {"recover", "loop"}, job: Posts \cup {NoPost},
           snap: [Posts -> Plan], seen: [Posts -> Nat],
           from: SUBSET Resting, prior: Resting, attempt: Nat]

Nothing == [p \in Posts |-> "none"]
Unread == [p \in Posts |-> 0]
IdleWorker == [pc |-> "idle", ret |-> "loop", job |-> NoPost, snap |-> Nothing,
               seen |-> Unread, from |-> {}, prior |-> "scheduled", attempt |-> 0]

At(w, label) == wk[w].pc = label
Holds(w, p) == wk[w].pc \in Holding /\ wk[w].job = p
Stopped == gates \cap {"disabled", "frozen"} # {}

(* Mutant: any log entry with the attempt's number, whatever its status.   *)
EvidenceAnyEntry(p) == plogged[p] \/ registry[p] # {} \/ fails[p] > 0

(* Evidence of an earlier publication, as resolvePriorPublish and the stale
   recovery look for it: any published log entry, any registry key. *)
Evidence(p) == plogged[p] \/ registry[p] # {}

Goto(w, label) == wk' = [wk EXCEPT ![w].pc = label]

(* Done with the post in hand: on to the next one of the tick, or idle.    *)
Return(w) ==
  wk' = [wk EXCEPT ![w] =
           IF @.ret = "loop" /\ @.snap = Nothing THEN IdleWorker
           ELSE [IdleWorker EXCEPT !.pc = wk[w].ret, !.ret = wk[w].ret,
                                   !.snap = wk[w].snap, !.seen = wk[w].seen]]

(* transitionScheduledPost: one conditional UPDATE; a match refreshes
   updated_at, a mismatch changes nothing. *)
Transition(p, source, target) ==
  IF status[p] \in source
  THEN /\ status' = [status EXCEPT ![p] = target]
       /\ aged' = aged \ {p}
       /\ older' = {x \in older : x[2] # p}
  ELSE UNCHANGED rowVars

Init ==
  /\ status = [p \in Posts |-> "scheduled"]
  /\ aged = {} /\ older = {} /\ due = {} /\ cooling = {} /\ publishable = Posts /\ gates = {}
  /\ fails = [p \in Posts |-> 0] /\ plogged = [p \in Posts |-> FALSE]
  /\ registry = [p \in Posts |-> {}]
  /\ wk = [w \in Workers |-> IdleWorker]
  /\ delivered = [p \in Posts |-> 0] /\ lost = [p \in Posts |-> 0]
  /\ late = 0 /\ faults = 0

---------------------------------------------------------------------------
(* Mutant: the kill switch is looked at before the recovery.               *)
TickStartUnlessDisabled(w) ==
  /\ w \in Ticks /\ At(w, "idle") /\ "disabled" \notin gates
  /\ wk' = [wk EXCEPT ![w].pc = "recoverLogs", ![w].ret = "recover",
       ![w].snap = [p \in Posts |->
          CASE status[p] = "publishing" /\ p \in aged -> "stale"
            [] status[p] = "scheduled" /\ p \in due -> "scheduled"
            [] status[p] = "failed" -> "failed"
            [] OTHER -> "none"]]
  /\ older' = older \cup {<<w, p>> : p \in aged}
  /\ UNCHANGED <<status, aged, envVars, logVars, platVars>>

(* The tick: snapshot, stale-claim recovery, selection, candidate loop.    *)

TickStart(w) ==
  /\ w \in Ticks /\ At(w, "idle")
  /\ wk' = [wk EXCEPT ![w].pc = "recoverLogs", ![w].ret = "recover",
       ![w].snap = [p \in Posts |->
          CASE status[p] = "publishing" /\ p \in aged -> "stale"
            [] status[p] = "scheduled" /\ p \in due -> "scheduled"
            [] status[p] = "failed" -> "failed"
            [] OTHER -> "none"]]
  /\ older' = older \cup {<<w, p>> : p \in aged}
  /\ UNCHANGED <<status, aged, envVars, logVars, platVars>>

(* One query reads the logs of all the stale rows.                         *)
RecoverLogs(w) ==
  /\ At(w, "recoverLogs")
  /\ LET stale == {p \in Posts : wk[w].snap[p] = "stale"} IN
     wk' = [wk EXCEPT ![w].pc = "recover",
       ![w].seen = [p \in Posts |-> IF p \in stale THEN fails[p] ELSE 0],
       ![w].snap = [p \in Posts |->
          IF p \in stale /\ plogged[p] THEN "sent" ELSE @[p]]]
  /\ UNCHANGED <<rowVars, envVars, logVars, platVars>>

(* Mutant: a stale row is judged by its log alone.                         *)
RecoverRowByLog(w, p) ==
  /\ At(w, "recover") /\ wk[w].snap[p] \in {"stale", "sent"}
  /\ wk' = [wk EXCEPT ![w].job = p, ![w].snap[p] = "none", ![w].seen[p] = 0,
              ![w].attempt = wk[w].seen[p] + 1,
              ![w].pc = IF wk[w].snap[p] = "sent" THEN "recoverSettle" ELSE "recoverFail"]
  /\ UNCHANGED <<rowVars, envVars, logVars, platVars>>

(* One stale row: the logs read before and the registry of this moment decide
   whether it is settled as published or becomes a counted failed attempt. *)
RecoverRow(w, p) ==
  /\ At(w, "recover") /\ wk[w].snap[p] \in {"stale", "sent"}
  /\ wk' = [wk EXCEPT ![w].job = p, ![w].snap[p] = "none", ![w].seen[p] = 0,
              ![w].attempt = wk[w].seen[p] + 1,
              ![w].pc = IF wk[w].snap[p] = "sent" \/ registry[p] # {}
                        THEN "recoverSettle" ELSE "recoverFail"]
  /\ UNCHANGED <<rowVars, envVars, logVars, platVars>>

(* Mutant: without the updatedBefore guard.                                *)
RecoverFailAnyAge(w) ==
  /\ At(w, "recoverFail")
  /\ LET p == wk[w].job IN
     IF status[p] = "publishing"
     THEN /\ Transition(p, {"publishing"}, "failed")
          /\ wk' = [wk EXCEPT ![w].pc = "logFail", ![w].snap[p] = "failed"]
     ELSE Return(w) /\ UNCHANGED rowVars
  /\ UNCHANGED <<envVars, logVars, platVars>>

(* Guarded by updatedBefore: a row touched since the snapshot is left alone;
   a recovered one joins the failed rows of the snapshot. *)
RecoverFail(w) ==
  /\ At(w, "recoverFail")
  /\ LET p == wk[w].job IN
     IF <<w, p>> \in older /\ status[p] = "publishing"
     THEN /\ Transition(p, {"publishing"}, "failed")
          /\ wk' = [wk EXCEPT ![w].pc = "logFail", ![w].snap[p] = "failed"]
     ELSE Return(w) /\ UNCHANGED rowVars
  /\ UNCHANGED <<envVars, logVars, platVars>>

(* Recovery done: with automated publishing disabled the tick ends here.   *)
ReadControls(w) ==
  /\ At(w, "recover") /\ \A p \in Posts : wk[w].snap[p] \notin {"stale", "sent"}
  /\ wk' = [wk EXCEPT ![w] = IF "disabled" \in gates THEN IdleWorker
                             ELSE [@ EXCEPT !.pc = "select", !.ret = "loop"]]
  /\ older' = {x \in older : x[1] # w}
  /\ UNCHANGED <<status, aged, envVars, logVars, platVars>>

(* Mutant: the budget is not looked at when failed rows are selected.      *)
SelectWithoutBudget(w) ==
  /\ At(w, "select")
  /\ wk' = [wk EXCEPT ![w].pc = "loop", ![w].snap = [p \in Posts |->
       IF @[p] = "failed" /\ p \notin due \ cooling THEN "none" ELSE @[p]]]
  /\ UNCHANGED <<rowVars, envVars, logVars, platVars>>

(* Mutant: exhausted rows are skipped instead of parked.                   *)
SelectWithoutPark(w) ==
  /\ At(w, "select")
  /\ wk' = [wk EXCEPT ![w].pc = "loop", ![w].snap = [p \in Posts |->
       IF @[p] = "failed" /\ (fails[p] >= MaxAttempts \/ p \notin due \ cooling)
       THEN "none" ELSE @[p]]]
  /\ UNCHANGED <<rowVars, envVars, logVars, platVars>>

(* Failed rows: park the exhausted ones, retry the due ones whose backoff
   has elapsed, leave the rest. *)
Select(w) ==
  /\ At(w, "select")
  /\ wk' = [wk EXCEPT ![w].pc = "loop", ![w].snap = [p \in Posts |->
       CASE @[p] # "failed" -> @[p]
         [] @[p] = "failed" /\ fails[p] >= MaxAttempts -> "park"
         [] @[p] = "failed" /\ fails[p] < MaxAttempts
              /\ p \in due \ cooling -> "failed"
         [] OTHER -> "none"]]
  /\ UNCHANGED <<rowVars, envVars, logVars, platVars>>

Park(w, p) ==
  /\ At(w, "loop") /\ wk[w].snap[p] = "park"
  /\ Transition(p, {"failed"}, "dead")
  /\ wk' = [wk EXCEPT ![w].snap[p] = "none"]
  /\ UNCHANGED <<envVars, logVars, platVars>>

Parked(w) == \A p \in Posts : wk[w].snap[p] # "park"

(* Mutant: a skip restores whatever status the row was seen in.            *)
EnteredVerbatim(k, p, allowed) ==
  [k EXCEPT !.pc = "claim", !.job = p, !.from = allowed, !.snap[p] = "none",
            !.prior = status[p]]

(* The row is read again before the claim, only to remember where a skip
   should return it. *)
Entered(k, p, allowed) ==
  [k EXCEPT !.pc = "claim", !.job = p, !.from = allowed, !.snap[p] = "none",
            !.prior = IF status[p] = "failed" THEN "failed" ELSE "scheduled"]

LoopTake(w, p) ==
  /\ At(w, "loop") /\ Parked(w) /\ wk[w].snap[p] \in Resting
  /\ "full" \notin gates
  /\ wk' = [wk EXCEPT ![w] = Entered(@, p, {@.snap[p]})]
  /\ UNCHANGED <<rowVars, envVars, logVars, platVars>>

(* Over the account's ceiling: no claim, no log, no retry burned.          *)
LoopDefer(w, p) ==
  /\ At(w, "loop") /\ Parked(w) /\ wk[w].snap[p] \in Resting
  /\ "full" \in gates
  /\ wk' = [wk EXCEPT ![w].snap[p] = "none"]
  /\ UNCHANGED <<rowVars, envVars, logVars, platVars>>

LoopDone(w) ==
  /\ At(w, "loop") /\ wk[w].snap = Nothing
  /\ Return(w)
  /\ UNCHANGED <<rowVars, envVars, logVars, platVars>>

---------------------------------------------------------------------------
(* publishPostNow and attemptScheduledPost: claim, history, eligibility.   *)

Claim(w) ==
  /\ At(w, "claim")
  /\ Transition(wk[w].job, wk[w].from, "publishing")
  /\ IF status[wk[w].job] \in wk[w].from
     THEN wk' = [wk EXCEPT ![w].pc = "history", ![w].from = {}]
     ELSE Return(w)
  /\ UNCHANGED <<envVars, logVars, platVars>>

ReadHistory(w) ==
  /\ At(w, "history")
  /\ wk' = [wk EXCEPT ![w].attempt = fails[wk[w].job] + 1,
              ![w].pc = IF Evidence(wk[w].job) THEN "idemSettle" ELSE "content"]
  /\ UNCHANGED <<rowVars, envVars, logVars, platVars>>

(* Queries outside the try block: an error there leaves the row as it is, a
   claim in flight for the stale recovery, an exhausted row for the next
   tick to park. *)
QueryThrows(w) ==
  /\ wk[w].pc \in {"history", "idemSettle", "catch", "recatch", "deadLetter"}
  /\ Return(w)
  /\ UNCHANGED <<rowVars, envVars, logVars, platVars>>

ReadContent(w) ==
  /\ At(w, "content")
  /\ Goto(w, IF wk[w].job \in publishable THEN "checks" ELSE "cancelSelf")
  /\ UNCHANGED <<rowVars, envVars, logVars, platVars>>

(* Mutant: the freeze is not looked at, only the kill switch.              *)
CheckWithoutFreeze(w) ==
  /\ At(w, "checks")
  /\ Goto(w, IF "disabled" \in gates THEN "skip" ELSE "send")
  /\ UNCHANGED <<rowVars, envVars, logVars, platVars>>

(* Legal hold, asset rights and controlsBlockReason.                       *)
Check(w) ==
  /\ At(w, "checks")
  /\ Goto(w, IF Stopped THEN "skip" ELSE "send")
  /\ UNCHANGED <<rowVars, envVars, logVars, platVars>>

(* Demoted content cancels the in-flight row, a transient block returns it;
   a "skipped" log entry follows, and when its insert throws the catch of
   publishPostNow takes over a row that is already released. *)
Release(w) ==
  /\ \/ At(w, "cancelSelf") /\ Transition(wk[w].job, {"publishing"}, "cancelled")
     \/ At(w, "skip") /\ Transition(wk[w].job, {"publishing"}, wk[w].prior)
  /\ Return(w) \/ (LogErrors /\ Goto(w, "recatch"))
  /\ UNCHANGED <<envVars, logVars, platVars>>

(* Any awaited call of the attempt before its release may throw; the catch
   of publishPostNow then releases the claim as a counted failure. *)
AttemptThrows(w) ==
  /\ wk[w].pc \in {"content", "checks", "cancelSelf", "skip", "send", "settleFail"}
  /\ Goto(w, "catch")
  /\ UNCHANGED <<rowVars, envVars, logVars, platVars>>

---------------------------------------------------------------------------
(* sendToPlatform.                                                         *)

(* This very attempt was accepted before: no call.                         *)
SendCached(w) ==
  /\ At(w, "send") /\ wk[w].attempt \in registry[wk[w].job]
  /\ Goto(w, "settlePub")
  /\ UNCHANGED <<rowVars, envVars, logVars, platVars>>

PlatformCall(w) ==
  /\ At(w, "send") /\ wk[w].attempt \notin registry[wk[w].job]
  /\ late' = IF Stopped THEN late + 1 ELSE late
  /\ UNCHANGED <<rowVars, envVars, logVars, lost, faults>>

(* Mutant: an accepted send is not remembered.                             *)
RegisterNothing(w) == UNCHANGED registry

Register(w) ==
  registry' = [registry EXCEPT ![wk[w].job] = @ \cup {wk[w].attempt}]

(* The simulator answers synchronously; a real platform accepts first and
   its answer reaches the worker later. *)
PlatformAccepts(w) ==
  /\ PlatformCall(w)
  /\ delivered' = [delivered EXCEPT ![wk[w].job] = @ + 1]
  /\ IF LiveConnector THEN Goto(w, "accepted") /\ UNCHANGED registry
                      ELSE Goto(w, "settlePub") /\ Register(w)

(* No connected integration, or the platform refuses.                      *)
PlatformRejects(w) ==
  /\ PlatformCall(w)
  /\ Goto(w, "settleFail")
  /\ UNCHANGED <<registry, delivered>>

AnswerArrives(w) ==
  /\ At(w, "accepted")
  /\ Register(w)
  /\ Goto(w, "settlePub")
  /\ UNCHANGED <<rowVars, envVars, logVars, delivered, lost, late, faults>>

(* The platform took the post but the connection broke: dispatchPublish
   turns the thrown fetch error into a failure. *)
AnswerLost(w) ==
  /\ At(w, "accepted") /\ faults < MaxFaults
  /\ faults' = faults + 1
  /\ lost' = [lost EXCEPT ![wk[w].job] = @ + 1]
  /\ Goto(w, "settleFail")
  /\ UNCHANGED <<rowVars, envVars, logVars, registry, delivered, late>>

---------------------------------------------------------------------------
(* Settling: the row first, then the log, then the dead-letter check.      *)

SettlePublished(w) ==
  /\ wk[w].pc \in {"settlePub", "idemSettle", "recoverSettle"}
  /\ Transition(wk[w].job, {"publishing"}, "published")
  /\ Goto(w, "logPub")
  /\ UNCHANGED <<envVars, logVars, platVars>>

(* The bookkeeping of a successful send throws and so does pinning the row
   again: it stays in flight, with its log entry. *)
PinThrows(w) ==
  /\ At(w, "settlePub")
  /\ Goto(w, "logPub")
  /\ UNCHANGED <<rowVars, envVars, logVars, platVars>>

LogPublished(w) ==
  /\ At(w, "logPub")
  /\ plogged' = [plogged EXCEPT ![wk[w].job] = TRUE]
  /\ fails' = [fails EXCEPT ![wk[w].job] = 0]
  /\ cooling' = cooling \ {wk[w].job}
  /\ Return(w)
  /\ UNCHANGED <<rowVars, envVars, platVars>>

(* Mutant: an unguarded release.                                           *)
SettleFailedAlways(w) ==
  /\ wk[w].pc \in {"settleFail", "catch", "recatch"}
  /\ Transition(wk[w].job, Status, "failed")
  /\ Goto(w, IF At(w, "settleFail") THEN "logFail" ELSE "catchLog")
  /\ UNCHANGED <<envVars, logVars, platVars>>

SettleFailed(w) ==
  /\ wk[w].pc \in {"settleFail", "catch", "recatch"}
  /\ Transition(wk[w].job, {"publishing"}, "failed")
  /\ Goto(w, IF At(w, "settleFail") THEN "logFail" ELSE "catchLog")
  /\ UNCHANGED <<envVars, logVars, platVars>>

(* Mutant: dead-lettered one attempt early.                                *)
LogFailedEarly(w) ==
  /\ wk[w].pc \in {"logFail", "catchLog"}
  /\ fails' = [fails EXCEPT ![wk[w].job] = @ + 1]
  /\ cooling' = cooling \cup {wk[w].job}
  /\ IF wk[w].attempt + 1 >= MaxAttempts THEN Goto(w, "deadLetter") ELSE Return(w)
  /\ UNCHANGED <<rowVars, envVars, plogged, platVars>>

LogFailed(w) ==
  /\ wk[w].pc \in {"logFail", "catchLog"}
  /\ fails' = [fails EXCEPT ![wk[w].job] = @ + 1]
  /\ cooling' = cooling \cup {wk[w].job}
  /\ IF wk[w].attempt >= MaxAttempts THEN Goto(w, "deadLetter") ELSE Return(w)
  /\ UNCHANGED <<rowVars, envVars, plogged, platVars>>

DeadLetter(w) ==
  /\ At(w, "deadLetter")
  /\ Transition(wk[w].job, {"failed"}, "dead")
  /\ Return(w)
  /\ UNCHANGED <<envVars, logVars, platVars>>

(* Log inserts that throw after the row was released.  Inside an attempt the
   failure reaches publishPostNow's catch, which releases and logs once more
   (its audit entry may throw after the publish log took the failure); any
   other entry is dropped, in the recovery with the row's place in the tick. *)
LogThrows(w) ==
  /\ LogErrors
  /\ \/ At(w, "logFail") /\ wk[w].ret = "loop" /\ Goto(w, "recatch")
     \/ /\ At(w, "logFail") /\ wk[w].ret = "recover"
        /\ wk' = [wk EXCEPT ![w] = [@ EXCEPT !.pc = "recover", !.job = NoPost,
                                      !.attempt = 0, !.snap[wk[w].job] = "none"]]
     \/ wk[w].pc \in {"catchLog", "logPub", "requeueLog"} /\ Return(w)
  /\ UNCHANGED <<rowVars, envVars, logVars, platVars>>

AuditThrows(w) ==
  /\ LogErrors /\ At(w, "logFail") /\ wk[w].ret = "loop"
  /\ fails' = [fails EXCEPT ![wk[w].job] = @ + 1]
  /\ cooling' = cooling \cup {wk[w].job}
  /\ Goto(w, "recatch")
  /\ UNCHANGED <<rowVars, envVars, plogged, platVars>>

---------------------------------------------------------------------------
(* Operators' clicks.                                                      *)

(* "Publish now" / "Retry": refused at the ceiling, otherwise an attempt on
   a row whatever state the operator saw it in. *)
PublishNow(w, p) ==
  /\ w \in Clicks /\ At(w, "idle") /\ "full" \notin gates
  /\ fails[p] < ClickLimit
  /\ wk' = [wk EXCEPT ![w] = Entered(@, p, Resting)]
  /\ UNCHANGED <<rowVars, envVars, logVars, platVars>>

(* requeueDeadPostAction: the row returns to the queue, then the marker that
   resets the derived attempt count is written. *)
Requeue(w, p) ==
  /\ w \in Clicks /\ At(w, "idle") /\ status[p] = "dead"
  /\ fails[p] < MaxAttempts + ClickLimit
  /\ Transition(p, {"dead"}, "scheduled")
  /\ wk' = [wk EXCEPT ![w].pc = "requeueLog", ![w].job = p]
  /\ UNCHANGED <<envVars, logVars, platVars>>

RequeueLog(w) ==
  /\ At(w, "requeueLog")
  /\ fails' = [fails EXCEPT ![wk[w].job] = 0]
  /\ cooling' = cooling \ {wk[w].job}
  /\ Return(w)
  /\ UNCHANGED <<rowVars, envVars, plogged, platVars>>

(* rescheduleOne: the status is checked, the AI critique is awaited, then the
   date is written without looking at the status again. *)
Reschedule(w, p) ==
  /\ w \in Clicks /\ At(w, "idle") /\ status[p] = "scheduled"
  /\ wk' = [wk EXCEPT ![w].pc = "reschedule", ![w].job = p]
  /\ UNCHANGED <<rowVars, envVars, logVars, platVars>>

RescheduleWrite(w) ==
  /\ At(w, "reschedule")
  /\ due' = due \ {wk[w].job}
  /\ aged' = aged \ {wk[w].job}
  /\ older' = {x \in older : x[2] # wk[w].job}
  /\ Return(w)
  /\ UNCHANGED <<status, publishable, gates, logVars, platVars>>

(* cancelScheduleAction and the sweep of a demotion: only a resting row.   *)
Cancel(p) ==
  /\ status[p] \in {"scheduled", "failed", "dead"}
  /\ Transition(p, {"scheduled", "failed", "dead"}, "cancelled")
  /\ UNCHANGED <<envVars, logVars, platVars, wk>>

---------------------------------------------------------------------------
(* The environment: time, other components, faults.                        *)

Demote(p) ==
  /\ p \in publishable
  /\ publishable' = publishable \ {p}
  /\ UNCHANGED <<rowVars, due, gates, logVars, platVars, wk>>

BecomesDue(p) ==
  /\ p \notin due
  /\ due' = due \cup {p}
  /\ UNCHANGED <<rowVars, publishable, gates, logVars, platVars, wk>>

BackoffElapses(p) ==
  /\ p \in cooling
  /\ cooling' = cooling \ {p}
  /\ UNCHANGED <<rowVars, envVars, fails, plogged, platVars, wk>>

ClaimAges(p) ==
  /\ status[p] = "publishing" /\ p \notin aged
  /\ SlowWorkers \/ \A w \in Workers : ~Holds(w, p)
  /\ aged' = aged \cup {p}
  /\ UNCHANGED <<status, older, envVars, logVars, platVars, wk>>

CloseGate(g) ==
  /\ g \in Gates \ gates
  /\ gates' = gates \cup {g}
  /\ late' = IF Stopped THEN late ELSE 0
  /\ UNCHANGED <<rowVars, due, publishable, logVars, registry, delivered, lost,
                 faults, wk>>

OpenGate(g) ==
  /\ g \in gates
  /\ gates' = gates \ {g}
  /\ UNCHANGED <<rowVars, due, publishable, logVars, platVars, wk>>

(* A request is killed: its local state is gone, the process lives on.     *)
Die(w) ==
  /\ ~At(w, "idle") /\ faults < MaxFaults
  /\ faults' = faults + 1
  /\ lost' = IF At(w, "accepted") THEN [lost EXCEPT ![wk[w].job] = @ + 1] ELSE lost
  /\ wk' = [wk EXCEPT ![w] = IdleWorker]
  /\ older' = {x \in older : x[1] # w}
  /\ UNCHANGED <<status, aged, envVars, logVars, registry, delivered, late>>

(* The server process restarts: every request and the registry are gone.   *)
Restart ==
  /\ faults < MaxFaults
  /\ faults' = faults + 1
  /\ lost' = [p \in Posts |->
       IF /\ ~plogged[p]
          /\ registry[p] # {} \/ \E w \in Workers : At(w, "accepted") /\ wk[w].job = p
       THEN lost[p] + 1 ELSE lost[p]]
  /\ registry' = [p \in Posts |-> {}]
  /\ wk' = [w \in Workers |-> IdleWorker]
  /\ older' = {}
  /\ UNCHANGED <<status, aged, envVars, logVars, delivered, late>>

---------------------------------------------------------------------------
(* One step of a request that is under way.                                *)
Step(w) ==
  \/ RecoverLogs(w) \/ RecoverFail(w) \/ ReadControls(w) \/ Select(w) \/ LoopDone(w)
  \/ Claim(w) \/ ReadHistory(w) \/ QueryThrows(w)
  \/ ReadContent(w) \/ Check(w) \/ Release(w) \/ AttemptThrows(w)
  \/ SendCached(w) \/ PlatformAccepts(w) \/ PlatformRejects(w)
  \/ AnswerArrives(w) \/ AnswerLost(w)
  \/ SettlePublished(w) \/ PinThrows(w) \/ LogPublished(w)
  \/ SettleFailed(w) \/ LogFailed(w) \/ DeadLetter(w)
  \/ LogThrows(w) \/ AuditThrows(w)
  \/ RequeueLog(w) \/ RescheduleWrite(w)
  \/ \E p \in Posts : \/ RecoverRow(w, p) \/ Park(w, p)
                      \/ LoopTake(w, p) \/ LoopDefer(w, p)

Click(w, p) == PublishNow(w, p) \/ Requeue(w, p) \/ Reschedule(w, p)

Next ==
  \/ \E w \in Workers : TickStart(w) \/ Step(w) \/ Die(w)
  \/ \E w \in Workers, p \in Posts : Click(w, p)
  \/ \E p \in Posts : \/ Cancel(p) \/ Demote(p) \/ BecomesDue(p)
                      \/ BackoffElapses(p) \/ ClaimAges(p)
  \/ \E g \in AllGates : CloseGate(g) \/ OpenGate(g)
  \/ Restart

Spec == Init /\ [][Next]_vars

(* Requests that run are served to their end, the cron keeps calling the
   tick, and time passes.  Operators owe nothing. *)
Fairness ==
  /\ \A w \in Workers : WF_vars(Step(w))
  /\ \A w \in Ticks : WF_vars(TickStart(w))
  /\ \A p \in Posts : WF_vars(BackoffElapses(p)) /\ WF_vars(ClaimAges(p))

FairSpec == Spec /\ Fairness

---------------------------------------------------------------------------
(* Types of all variables.                                                 *)
TypeOK ==
  /\ status \in [Posts -> Status]
  /\ aged \in SUBSET Posts /\ older \in SUBSET (Workers \X Posts) /\ due \in SUBSET Posts /\ cooling \in SUBSET Posts
  /\ publishable \in SUBSET Posts /\ gates \in SUBSET AllGates
  /\ fails \in [Posts -> Nat] /\ plogged \in [Posts -> BOOLEAN]
  /\ registry \in [Posts -> SUBSET Nat]
  /\ wk \in [Workers -> Worker]
  /\ delivered \in [Posts -> Nat] /\ lost \in [Posts -> Nat]
  /\ late \in Nat /\ faults \in Nat

(* The atomic claim (publish-queue.ts:8-11): overlapping ticks and clicks
   never work on the same post, and the row of a post being worked on stays
   in flight, out of reach of cancel, requeue and retry; only the recovery of
   an older claim may settle it early, and only as what it already is. *)
ExclusiveClaim ==
  \A p \in Posts, w \in Workers : Holds(w, p) =>
    /\ \/ status[p] = "publishing"
       \/ status[p] = "published" /\ Evidence(p)
    /\ \A v \in Workers : Holds(v, p) => v = w

(* Publish idempotency (publish-queue.ts:29-32): across retries, stale-claim
   recovery, clicks and ticks the platform receives a post once, plus once
   for every time the only evidence of an acceptance was destroyed. *)
OneDeliveryPerLoss == \A p \in Posts : delivered[p] <= 1 + lost[p]

(* Nothing is reported as published that the platform does not have: neither
   the row nor the log claims a publication that never happened. *)
PublishedWasDelivered ==
  \A p \in Posts : status[p] = "published" \/ plogged[p] => delivered[p] >= 1

(* The retry budget (MAX_PUBLISH_ATTEMPTS): when only the scheduler works, a
   post fails at most MaxAttempts times, plus once per other worker that
   derived its attempt number before the newest failure was logged. *)
AttemptBudget ==
  Clicks = {} =>
    \A p \in Posts : fails[p] <= MaxAttempts + Cardinality(Ticks) - 1

(* A dead-lettered post has spent its retry budget (publish-queue.ts:16-20). *)
DeadMeansSpent ==
  \A p \in Posts : status[p] = "dead" => fails[p] >= MaxAttempts

(* The kill switch and the freeze (publishing.ts:57-80): once publishing is
   stopped every worker makes at most the call it had already cleared. *)
StopDrains == Stopped => late <= Cardinality(Workers)

(* Guarded transitions (publishing.ts:153-164): a published or cancelled row
   is never moved again, and a dead one only by an operator. *)
OutcomesStand ==
  [][\A p \in Posts :
       /\ status[p] \in {"published", "cancelled"} => status'[p] = status[p]
       /\ status[p] = "dead" => status'[p] \in {"dead", "scheduled", "cancelled"}
    ]_vars

(* Stale-claim recovery (publish-queue.ts:24-28, 425-431): a claim whose
   worker died is released, even while automated publishing is disabled. *)
ClaimsReleased ==
  \A p \in Posts : status[p] = "publishing" ~> status[p] # "publishing"

(* A due post is not forgotten: unless an operator moves it or a gate is
   closed it ends published, dead or cancelled. *)
DuePostsSettle ==
  \A p \in Posts :
    status[p] \in Resting /\ p \in due
      ~> \/ status[p] \in {"published", "dead", "cancelled"}
         \/ p \notin due \/ gates # {}

(* Where each status puts a post, as those who scheduled it see it.         *)
PlaceOf ==
  [scheduled |-> "queue", failed |-> "queue", publishing |-> "flight",
   published |-> "out", dead |-> "parked", cancelled |-> "gone"]

Promise ==
  INSTANCE PublishPromise WITH
    place <- [p \in Posts |-> PlaceOf[status[p]]], sent <- delivered, blind <- lost

(* The queue implements what it promises of each post (publish-queue.ts:8-32):
   every step of ticks, clicks, recoveries and crashes is, seen from outside, a
   step of the promise or none at all; a post that is known to be up is neither
   sent again nor put back nor given up. *)
KeepsPromise == Promise!Spec
=============================================================================
