------------------------ MODULE PublishBudgetProofs ------------------------
(* Theorems about PublishQueue that count: the calls made after publishing is
   stopped, and the failures a post may collect. *)
EXTENDS PublishQueueProofs, FiniteSetTheorems

---------------------------------------------------------------------------
(* The kill switch drains.                                                 *)

(* Every worker that has cleared the checks may still make one call, and no
   other worker joins them while publishing is stopped. *)
Senders == {w \in Workers : At(w, "send")}
Draining == Stopped => late + Cardinality(Senders) <= Cardinality(Workers)

(* A step changes no worker but the one that takes it, and that one passes the
   checks only while publishing is not stopped. *)
LEMMA NobodyClears ==
  ASSUME TypeInv, NEW w \in Workers, Stopped,
         TickStart(w) \/ Step(w) \/ Die(w) \/ \E p \in Posts : Click(w, p)
  PROVE  wk'[w].pc # "send" /\ \A v \in Workers \ {w} : wk'[v] = wk[v]
<1>0. wk \in [Workers -> Worker]  BY DEF TypeInv, TypeOK
<1>1. wk[w] \in Worker /\ wk[w].ret \in {"recover", "loop"}  BY <1>0 DEF Worker
<1>g. ASSUME NEW l \in PC \ {"send"}, Goto(w, l)
      PROVE  wk'[w].pc # "send" /\ \A v \in Workers \ {w} : wk'[v] = wk[v]
  BY <1>0, <1>1, <1>g DEF Goto, Worker
<1>r. ASSUME Return(w)
      PROVE  wk'[w].pc # "send" /\ \A v \in Workers \ {w} : wk'[v] = wk[v]
  BY <1>r, ReturnStep
<1>s. ASSUME NEW k, wk' = [wk EXCEPT ![w] = k], k.pc # "send"
      PROVE  wk'[w].pc # "send" /\ \A v \in Workers \ {w} : wk'[v] = wk[v]
  BY <1>0, <1>s
<1>2. CASE TickStart(w) \/ RecoverLogs(w) \/ RecoverFail(w) \/ ReadControls(w) \/ Select(w)
  <2>1. CASE TickStart(w)  BY <1>0, <1>1, <2>1 DEF TickStart, Worker
  <2>2. CASE RecoverLogs(w)  BY <1>0, <1>1, <2>2 DEF RecoverLogs, Worker
  <2>3. CASE RecoverFail(w)  BY <1>0, <1>1, <1>r, <2>3 DEF RecoverFail, Worker
  <2>4. CASE ReadControls(w)
    BY <1>0, <1>1, <2>4, IdleType DEF ReadControls, Worker
  <2>5. CASE Select(w)  BY <1>0, <1>1, <2>5 DEF Select, Worker
  <2> QED  BY <1>2, <2>1, <2>2, <2>3, <2>4, <2>5
<1>3. ASSUME NEW p \in Posts, RecoverRow(w, p) \/ Park(w, p) \/ LoopTake(w, p) \/ LoopDefer(w, p)
      PROVE  wk'[w].pc # "send" /\ \A v \in Workers \ {w} : wk'[v] = wk[v]
  <2>1. CASE RecoverRow(w, p)  BY <1>0, <1>1, <2>1 DEF RecoverRow, Worker
  <2>2. CASE Park(w, p) \/ LoopDefer(w, p)
    BY <1>0, <1>1, <2>2 DEF Park, LoopDefer, At, Worker
  <2>3. CASE LoopTake(w, p)
    <3> DEFINE k == Entered(wk[w], p, {wk[w].snap[p]})
    <3>1. k.pc = "claim"  BY <1>1 DEF Entered, Worker
    <3>2. wk' = [wk EXCEPT ![w] = k]  BY <1>0, <2>3 DEF LoopTake
    <3> HIDE DEF k
    <3> QED  BY <3>1, <3>2, <1>s
  <2> QED  BY <1>3, <2>1, <2>2, <2>3
<1>4. CASE Claim(w) \/ ReadHistory(w)
  BY <1>0, <1>1, <1>r, <1>4 DEF Claim, ReadHistory, Worker
<1>5. CASE \/ QueryThrows(w) \/ LoopDone(w) \/ LogPublished(w) \/ DeadLetter(w)
           \/ RequeueLog(w) \/ RescheduleWrite(w)
  BY <1>r, <1>5 DEF QueryThrows, LoopDone, LogPublished, DeadLetter, RequeueLog, RescheduleWrite
<1>6. CASE \/ ReadContent(w) \/ Check(w) \/ AttemptThrows(w) \/ SendCached(w)
           \/ PlatformAccepts(w) \/ PlatformRejects(w) \/ AnswerArrives(w)
           \/ AnswerLost(w) \/ SettlePublished(w) \/ PinThrows(w) \/ SettleFailed(w)
           \/ AuditThrows(w)
  <2>1. \E l \in {"checks", "cancelSelf", "skip", "catch", "settlePub", "accepted",
                  "settleFail", "logPub", "logFail", "catchLog", "recatch"} : Goto(w, l)
    BY <1>6 DEF ReadContent, Check, AttemptThrows, SendCached, PlatformAccepts,
                PlatformRejects, AnswerArrives, AnswerLost, SettlePublished, PinThrows,
                SettleFailed, AuditThrows
  <2> QED  BY <2>1, <1>g DEF PC, Holding
<1>7. CASE Release(w) \/ LogFailed(w) \/ LogThrows(w)
  <2>1. \/ Return(w) \/ Goto(w, "recatch") \/ Goto(w, "deadLetter")
        \/ wk' = [wk EXCEPT ![w] = [@ EXCEPT !.pc = "recover", !.job = NoPost,
                                      !.attempt = 0, !.snap[wk[w].job] = "none"]]
    BY <1>7 DEF Release, LogFailed, LogThrows
  <2>2. CASE wk' = [wk EXCEPT ![w] = [@ EXCEPT !.pc = "recover", !.job = NoPost,
                                      !.attempt = 0, !.snap[wk[w].job] = "none"]]
    BY <2>2, <1>0, <1>1 DEF Worker
  <2> QED  BY <2>1, <2>2, <1>g, <1>r DEF PC
<1>8. CASE Die(w)
  BY <1>0, <1>8, IdleType DEF Die
<1>9. ASSUME NEW p \in Posts, Click(w, p)
      PROVE  wk'[w].pc # "send" /\ \A v \in Workers \ {w} : wk'[v] = wk[v]
  <2>1. CASE PublishNow(w, p)
    <3> DEFINE k == Entered(wk[w], p, Resting)
    <3>1. k.pc = "claim"  BY <1>1 DEF Entered, Worker
    <3>2. wk' = [wk EXCEPT ![w] = k]  BY <1>0, <2>1 DEF PublishNow
    <3> HIDE DEF k
    <3> QED  BY <3>1, <3>2, <1>s
  <2>2. CASE Requeue(w, p) \/ Reschedule(w, p)
    BY <1>0, <1>1, <2>2 DEF Requeue, Reschedule, Worker
  <2> QED  BY <1>9, <2>1, <2>2 DEF Click
<1> QED  BY <1>2, <1>3, <1>4, <1>5, <1>6, <1>7, <1>8, <1>9 DEF Step

(* Calls are made by those who have cleared the checks only.               *)
LEMMA CallsCounted ==
  ASSUME TypeInv, NEW w \in Workers,
         TickStart(w) \/ Step(w) \/ Die(w) \/ \E p \in Posts : Click(w, p)
  PROVE  late' = late \/ (At(w, "send") /\ late' \in {late, late + 1})
<1>1. CASE PlatformAccepts(w) \/ PlatformRejects(w)
  BY <1>1 DEF PlatformAccepts, PlatformRejects, PlatformCall
<1>2. CASE TickStart(w) \/ Die(w) \/ \E p \in Posts : Click(w, p)
  BY <1>2 DEF TickStart, Die, Click, PublishNow, Requeue, Reschedule, platVars
<1>3. CASE Step(w) /\ ~PlatformAccepts(w) /\ ~PlatformRejects(w)
  <2>1. CASE \/ RecoverLogs(w) \/ RecoverFail(w) \/ ReadControls(w) \/ Select(w)
             \/ LoopDone(w) \/ \E p \in Posts : \/ RecoverRow(w, p) \/ Park(w, p)
                                                \/ LoopTake(w, p) \/ LoopDefer(w, p)
    BY <2>1 DEF RecoverLogs, RecoverFail, ReadControls, Select, LoopDone, RecoverRow,
                Park, LoopTake, LoopDefer, platVars
  <2>2. CASE \/ Claim(w) \/ ReadHistory(w) \/ QueryThrows(w) \/ ReadContent(w)
             \/ Check(w) \/ Release(w) \/ AttemptThrows(w) \/ SendCached(w)
             \/ AnswerArrives(w) \/ AnswerLost(w)
    BY <2>2 DEF Claim, ReadHistory, QueryThrows, ReadContent, Check, Release,
                AttemptThrows, SendCached, AnswerArrives, AnswerLost, platVars
  <2>3. CASE \/ SettlePublished(w) \/ PinThrows(w) \/ LogPublished(w) \/ SettleFailed(w)
             \/ LogFailed(w) \/ DeadLetter(w) \/ LogThrows(w) \/ AuditThrows(w)
             \/ RequeueLog(w) \/ RescheduleWrite(w)
    BY <2>3 DEF SettlePublished, PinThrows, LogPublished, SettleFailed, LogFailed,
                DeadLetter, LogThrows, AuditThrows, RequeueLog, RescheduleWrite, platVars
  <2> QED  BY <1>3, <2>1, <2>2, <2>3 DEF Step
<1> QED  BY <1>1, <1>2, <1>3

(* Any step keeps the calls made and the calls cleared within the number of
   the workers. *)
LEMMA DrainingStep ==
  ASSUME IsFiniteSet(Workers), TypeInv, Draining, [Next]_vars
  PROVE  Draining'
<1>0. /\ late \in Nat /\ Cardinality(Workers) \in Nat
      /\ IsFiniteSet(Senders) /\ Cardinality(Senders) \in Nat
      /\ Cardinality(Senders) <= Cardinality(Workers)
  <2>1. Senders \in SUBSET Workers  BY DEF Senders
  <2> QED  BY <2>1, FS_Subset, FS_CardinalityType DEF TypeInv, TypeOK
<1>s. ASSUME Senders' \subseteq Senders
      PROVE  Cardinality(Senders') \in Nat /\ Cardinality(Senders') <= Cardinality(Senders)
  <2>1. Senders' \in SUBSET Senders  BY <1>s
  <2> QED  BY <2>1, <1>0, FS_Subset, FS_CardinalityType
<1>1. CASE \E w \in Workers : \/ TickStart(w) \/ Step(w) \/ Die(w)
                              \/ \E p \in Posts : Click(w, p)
  <2>0. PICK w \in Workers : \/ TickStart(w) \/ Step(w) \/ Die(w)
                             \/ \E p \in Posts : Click(w, p)
    BY <1>1
  <2>1. gates' = gates
    BY <2>0 DEF TickStart, Step, Die, Click, PublishNow, Requeue, Reschedule,
       RecoverLogs, RecoverFail, ReadControls, Select, LoopDone, RecoverRow, Park,
       LoopTake, LoopDefer, Claim, ReadHistory, QueryThrows, ReadContent, Check,
       Release, AttemptThrows, SendCached, PlatformAccepts, PlatformRejects,
       PlatformCall, AnswerArrives, AnswerLost, SettlePublished, PinThrows,
       LogPublished, SettleFailed, LogFailed, DeadLetter, LogThrows, AuditThrows,
       RequeueLog, RescheduleWrite, envVars
  <2> SUFFICES ASSUME Stopped
               PROVE  late' + Cardinality(Senders') <= Cardinality(Workers)
    BY <2>1 DEF Draining, Stopped
  <2>2. wk'[w].pc # "send" /\ \A v \in Workers \ {w} : wk'[v] = wk[v]
    BY <2>0, NobodyClears
  <2>3. Senders' \subseteq Senders \ {w}  BY <2>2 DEF Senders, At
  <2>4. CASE late' = late
    BY <2>3, <2>4, <1>0, <1>s DEF Draining
  <2>5. CASE w \in Senders /\ late' = late + 1
    <3>1. IsFiniteSet(Senders \ {w}) /\ Cardinality(Senders \ {w}) = Cardinality(Senders) - 1
      BY <2>5, <1>0, FS_RemoveElement
    <3>2. Senders' \in SUBSET (Senders \ {w})  BY <2>3
    <3>3. /\ Cardinality(Senders') <= Cardinality(Senders \ {w})
          /\ Cardinality(Senders') \in Nat
      BY <3>1, <3>2, FS_Subset, FS_CardinalityType
    <3> QED  BY <3>1, <3>3, <2>5, <1>0 DEF Draining
  <2> QED
    BY <2>0, <2>4, <2>5, CallsCounted DEF Senders
<1>2. ASSUME NEW g \in AllGates, CloseGate(g) PROVE Draining'
  <2>1. Senders' = Senders  BY <1>2 DEF CloseGate, Senders, At
  <2>2. late' = IF Stopped THEN late ELSE 0  BY <1>2 DEF CloseGate
  <2> QED  BY <2>1, <2>2, <1>0 DEF Draining
<1>3. ASSUME NEW g \in AllGates, OpenGate(g) PROVE Draining'
  <2>1. Senders' = Senders /\ late' = late
    BY <1>3 DEF OpenGate, Senders, At, platVars
  <2>2. Stopped' => Stopped  BY <1>3 DEF OpenGate, Stopped
  <2> QED  BY <2>1, <2>2 DEF Draining
<1>4. CASE Restart
  <2>1. wk' = [w \in Workers |-> IdleWorker] /\ late' = late /\ gates' = gates
    BY <1>4 DEF Restart, envVars
  <2>2. Senders' = {}  BY <2>1, IdleType DEF Senders, At
  <2>3. Senders' \subseteq Senders  BY <2>2
  <2> QED  BY <2>1, <2>3, <1>0, <1>s DEF Draining, Stopped
<1>5. CASE \/ UNCHANGED vars
           \/ \E p \in Posts : \/ Cancel(p) \/ Demote(p) \/ BecomesDue(p)
                               \/ BackoffElapses(p) \/ ClaimAges(p)
  <2>1. wk' = wk /\ late' = late /\ gates' = gates
    BY <1>5 DEF vars, Cancel, Demote, BecomesDue, BackoffElapses, ClaimAges, envVars, platVars
  <2> QED  BY <2>1 DEF Draining, Senders, At, Stopped
<1> QED  BY <1>1, <1>2, <1>3, <1>4, <1>5 DEF Next

(* The kill switch and the freeze: for any posts, gates, faults and number of
   requests, once publishing is stopped no more calls follow than there are
   requests, each the one it had already cleared. *)
THEOREM StoppedCallsDrain ==
  ASSUME IsFiniteSet(Workers)
  PROVE  Spec => []StopDrains
<1>1. Init => TypeInv /\ Draining  BY InitType DEF Init, Draining, Stopped
<1>2. TypeInv /\ Draining /\ [Next]_vars => TypeInv' /\ Draining'
  BY TypeStep, DrainingStep
<1>3. TypeInv /\ Draining => StopDrains
  <2> SUFFICES ASSUME TypeInv, Draining, Stopped PROVE late <= Cardinality(Workers)
    BY DEF StopDrains
  <2>1. Senders \in SUBSET Workers  BY DEF Senders
  <2>2. Cardinality(Senders) \in Nat /\ Cardinality(Workers) \in Nat /\ late \in Nat
    BY <2>1, FS_Subset, FS_CardinalityType DEF TypeInv, TypeOK
  <2> QED  BY <2>2 DEF Draining
<1> QED  BY <1>1, <1>2, <1>3, PTL DEF Spec

---------------------------------------------------------------------------
(* The retry budget, on a quiet host where only the scheduler works.       *)

(* A post that something shows is in flight or out.                        *)
ShownStays == \A p \in Posts : Shown(p) => status[p] \in {"publishing", "published"}
TicksOnly == \A w \in Workers \ Ticks : wk[w].pc = "idle"

(* Where a tick's worker may be for the tick's phase: recovering the stale
   rows, or working through the candidates it has selected. *)
Recovering == {"recoverLogs", "recover", "recoverSettle", "recoverFail"}
InTick(k) ==
  /\ k.pc \in Recovering => k.ret = "recover"
  /\ k.pc \in Holding \cup {"select", "loop", "claim", "catchLog"} => k.ret = "loop"
  /\ k.ret = "loop" /\ k.pc \in Holding \cup {"claim", "logFail", "catchLog"}
       => k.snap[k.job] # "failed"
  /\ k.pc \notin {"requeueLog", "reschedule", "recatch"}

(* What a worker k derived from the log of a post never exceeds the n failures
   logged by now; a post it gives up has used up its budget. *)
Trying == {"content", "cancelSelf", "checks", "skip", "send", "accepted", "settleFail",
           "catch", "recoverFail", "logFail", "catchLog"}
CountOK(k, p, n) ==
  /\ k.seen[p] <= n
  /\ k.snap[p] = "park" => n >= MaxAttempts
  /\ k.job = p => /\ k.pc \in Trying => k.attempt <= n + 1
                  /\ k.pc = "deadLetter" => n >= MaxAttempts
CountsAt(k, f, l) == \A p \in Posts : l[p] \/ CountOK(k, p, f[p])
DeadSpent == \A p \in Posts : status[p] = "dead" => fails[p] >= MaxAttempts
Counted == DeadSpent /\ \A w \in Workers : CountsAt(wk[w], fails, plogged)

(* The workers that may still retry a post: those that plan to, and among them
   those that have decided to before its newest failure was logged. *)
Pending(k, p) == /\ k.job = p
                 /\ \/ k.pc = "claim" /\ "failed" \in k.from
                    \/ k.pc \in {"logFail", "catchLog"}
Retries(k, p) == k.snap[p] = "failed" \/ Pending(k, p)
Commits(k, p) == \/ k.snap[p] = "failed" /\ k.ret = "loop" /\ k.pc # "select"
                 \/ Pending(k, p)
Retrying(p) == {w \in Ticks : Retries(wk[w], p)}
Committed(p) == {w \in Ticks : Commits(wk[w], p)}
Live(p) == status[p] \in {"scheduled", "publishing"}

(* While a post waits or is in flight one tick at least has no retry of it in
   mind, and beyond its budget every committed worker, and the attempt in
   flight, still fits under the bound. *)
OneSpare(p) == Live(p) => Ticks = {} \/ Retrying(p) # Ticks
Bounded(p) ==
  fails[p] >= MaxAttempts =>
    fails[p] + (IF Live(p) THEN 1 ELSE 0) + Cardinality(Committed(p))
      <= MaxAttempts + Cardinality(Ticks) - 1
Budgeted(p) == OneSpare(p) /\ Bounded(p)

Tally == /\ TicksOnly /\ \A w \in Workers : InTick(wk[w])
         /\ Counted /\ \A p \in Posts : Budgeted(p)

(* A shown post stays in flight or out: the promise allows nothing else.    *)
LEMMA ShownStaysStep ==
  ASSUME Custody, Custody', ShownStays, [Next]_vars
  PROVE  ShownStays'
<1> SUFFICES ASSUME NEW p \in Posts, Shown(p)'
             PROVE  status'[p] \in {"publishing", "published"}
  BY DEF ShownStays
<1>1. Promised(p)  BY StepPromised DEF Custody
<1>2. /\ delivered[p] \in Nat /\ lost[p] \in Nat /\ delivered'[p] \in Nat /\ lost'[p] \in Nat
  BY DEF Custody, TypeInv, TypeOK
<1>3. /\ delivered[p] = lost[p] + (IF Shown(p) THEN 1 ELSE 0)
      /\ delivered'[p] = lost'[p] + 1
  BY DEF Custody, DeliveriesAccounted, Accounted
<1>4. Shown(p) => status[p] \in {"publishing", "published"}  BY DEF ShownStays
<1>5. Same(p) => Shown(p)  BY <1>2, <1>3 DEF Same
<1>6. CASE Same(p)  BY <1>1, <1>4, <1>5, <1>6 DEF Promised, Becomes, Resting
<1>7. CASE ~Same(p)  BY <1>1, <1>2, <1>3, <1>4, <1>7 DEF Promised, Becomes, Same
<1> QED  BY <1>6, <1>7

(* The committed of a post are finitely many ticks, all of them retrying.   *)
LEMMA CommittedFinite ==
  ASSUME IsFiniteSet(Ticks), NEW S \in SUBSET Ticks
  PROVE  /\ IsFiniteSet(S) /\ Cardinality(S) \in Nat /\ Cardinality(Ticks) \in Nat
         /\ Cardinality(S) <= Cardinality(Ticks)
         /\ \A T \in SUBSET S : Cardinality(T) \in Nat /\ Cardinality(T) <= Cardinality(S)
         /\ \A w \in S : /\ Cardinality(S \ {w}) \in Nat
                         /\ Cardinality(S \ {w}) = Cardinality(S) - 1
         /\ S # Ticks => Cardinality(S) <= Cardinality(Ticks) - 1
<1>1. IsFiniteSet(S) /\ Cardinality(S) <= Cardinality(Ticks)
  BY FS_Subset
<1>2. Cardinality(S) \in Nat /\ Cardinality(Ticks) \in Nat  BY <1>1, FS_CardinalityType
<1>3. ASSUME NEW T \in SUBSET S
      PROVE  Cardinality(T) \in Nat /\ Cardinality(T) <= Cardinality(S)
  BY <1>1, FS_Subset, FS_CardinalityType
<1>4. ASSUME NEW w \in S
      PROVE  Cardinality(S \ {w}) \in Nat /\ Cardinality(S \ {w}) = Cardinality(S) - 1
  BY <1>1, FS_RemoveElement, FS_CardinalityType
<1>5. S # Ticks => Cardinality(S) # Cardinality(Ticks)  BY FS_Subset
<1> QED  BY <1>1, <1>2, <1>3, <1>4, <1>5

(* What a step may do to the budget of a post: leave it as it is or relax it, ... *)
Level(p) ==
  /\ fails'[p] = fails[p]
  /\ Live(p)' => Live(p) /\ \A v \in Ticks : Retries(wk'[v], p) => Retries(wk[v], p)
  /\ fails[p] >= MaxAttempts =>
       \A v \in Ticks : Commits(wk'[v], p) => Commits(wk[v], p)
(* ... end the attempt in flight as a failure not yet logged, log a failure,
   take the post for a retry, or log it as published. *)
Ends(w, p) ==
  /\ fails'[p] = fails[p] /\ Live(p) /\ ~Live(p)'
  /\ ~Commits(wk[w], p) /\ \A v \in Ticks \ {w} : wk'[v] = wk[v]
Logs(w, p) ==
  /\ fails'[p] = fails[p] + 1 /\ Commits(wk[w], p) /\ ~Commits(wk'[w], p)
  /\ Live(p)' => Live(p) /\ (Retries(wk'[w], p) => Retries(wk[w], p))
  /\ \A v \in Ticks \ {w} : wk'[v] = wk[v]
Takes(w, p) ==
  /\ fails'[p] = fails[p] /\ Commits(wk[w], p) /\ ~Retries(wk'[w], p)
  /\ \A v \in Ticks \ {w} : wk'[v] = wk[v]
Resets(p) ==
  /\ fails'[p] = 0
  /\ Live(p)' => Live(p) /\ \A v \in Ticks : Retries(wk'[v], p) => Retries(wk[v], p)

(* Each of them keeps the post within its budget.                          *)
LEMMA BudgetKept ==
  ASSUME IsFiniteSet(Ticks), TypeInv, NEW p \in Posts, Budgeted(p),
         \/ Level(p) \/ Resets(p)
         \/ \E w \in Ticks : Ends(w, p) \/ Logs(w, p) \/ Takes(w, p)
  PROVE  Budgeted(p)'
<1> DEFINE A == Committed(p)
           B == {v \in Ticks : Commits(wk'[v], p)}
           R == Retrying(p)
           Q == {v \in Ticks : Retries(wk'[v], p)}
           N == Cardinality(Ticks)
<1>0. /\ fails[p] \in Nat /\ MaxAttempts \in Nat /\ MaxAttempts > 0
  BY MaxAttemptsAssumption DEF TypeInv, TypeOK
<1>1. A \in SUBSET R /\ B \in SUBSET Q /\ R \in SUBSET Ticks /\ Q \in SUBSET Ticks
  BY DEF Committed, Retrying, Commits, Retries
<1>2. /\ \A v \in Ticks : v \in A <=> Commits(wk[v], p)
      /\ \A v \in Ticks : v \in B <=> Commits(wk'[v], p)
      /\ \A v \in Ticks : v \in R <=> Retries(wk[v], p)
      /\ \A v \in Ticks : v \in Q <=> Retries(wk'[v], p)
  BY DEF Committed, Retrying
<1>3. A \in SUBSET Ticks /\ B \in SUBSET Ticks  BY <1>1
<1>4. N \in Nat /\ Cardinality(A) \in Nat /\ Cardinality(B) \in Nat
  BY <1>3, CommittedFinite
<1>5. B \subseteq A => Cardinality(B) <= Cardinality(A)
  <2>1. B \subseteq A => B \in SUBSET A  OBVIOUS
  <2> QED  BY <2>1, <1>3, CommittedFinite
<1>6. ASSUME NEW w \in A, B \subseteq A \ {w}
      PROVE  Cardinality(B) <= Cardinality(A) - 1
  <2>1. A \ {w} \in SUBSET Ticks /\ B \in SUBSET (A \ {w})  BY <1>3, <1>6
  <2>2. Cardinality(B) <= Cardinality(A \ {w})  BY <2>1, CommittedFinite
  <2>3. Cardinality(A \ {w}) = Cardinality(A) - 1  BY <1>3, CommittedFinite
  <2> QED  BY <2>2, <2>3
<1>7. Committed(p)' = B /\ Retrying(p)' = Q  BY DEF Committed, Retrying
<1>8. /\ OneSpare(p) <=> (Live(p) => Ticks = {} \/ R # Ticks)
      /\ OneSpare(p)' <=> (Live(p)' => Ticks = {} \/ Q # Ticks)
  BY <1>7 DEF OneSpare
<1>9. /\ Bounded(p) <=> (fails[p] >= MaxAttempts =>
           fails[p] + (IF Live(p) THEN 1 ELSE 0) + Cardinality(A) <= MaxAttempts + N - 1)
      /\ Bounded(p)' <=> (fails'[p] >= MaxAttempts =>
           fails'[p] + (IF Live(p)' THEN 1 ELSE 0) + Cardinality(B) <= MaxAttempts + N - 1)
  BY <1>7 DEF Bounded
<1> HIDE DEF A, B, R, Q, N
<1>10. OneSpare(p) /\ Bounded(p)  BY DEF Budgeted
<1>11. CASE Level(p)
  <2>1. Live(p)' => Live(p) /\ Q \subseteq R  BY <1>1, <1>2, <1>11 DEF Level
  <2>2. fails'[p] = fails[p] /\ (fails[p] >= MaxAttempts => B \subseteq A)
    BY <1>2, <1>3, <1>11 DEF Level
  <2>3. OneSpare(p)'  BY <2>1, <1>1, <1>8, <1>10
  <2>4. Bounded(p)'  BY <2>1, <2>2, <1>0, <1>4, <1>5, <1>9, <1>10
  <2> QED  BY <2>3, <2>4 DEF Budgeted
<1>12. ASSUME NEW w \in Ticks, Ends(w, p) PROVE Budgeted(p)'
  <2>1. fails'[p] = fails[p] /\ Live(p) /\ ~Live(p)'  BY <1>12 DEF Ends
  <2>2. B \ {w} \subseteq A /\ w \notin A  BY <1>2, <1>3, <1>12 DEF Ends
  <2>3. Cardinality(B) <= Cardinality(A) + 1
    <3>1. CASE w \in B
      <4>1. B \ {w} \in SUBSET A  BY <2>2
      <4>2. Cardinality(B \ {w}) <= Cardinality(A) /\ Cardinality(B \ {w}) = Cardinality(B) - 1
        BY <4>1, <3>1, <1>3, CommittedFinite
      <4> QED  BY <4>2, <1>4
    <3>2. CASE w \notin B
      <4>1. B \subseteq A  BY <2>2, <3>2
      <4> QED  BY <4>1, <1>4, <1>5
    <3> QED  BY <3>1, <3>2
  <2>4. OneSpare(p)'  BY <2>1, <1>8
  <2>5. Bounded(p)'  BY <2>1, <2>3, <1>0, <1>4, <1>9, <1>10
  <2> QED  BY <2>4, <2>5 DEF Budgeted
<1>13. ASSUME NEW w \in Ticks, Logs(w, p) PROVE Budgeted(p)'
  <2>1. /\ fails'[p] = fails[p] + 1 /\ w \in A /\ w \notin B
        /\ B \subseteq A \ {w}
    BY <1>2, <1>3, <1>13 DEF Logs
  <2>2. Live(p)' => Live(p) /\ Q \subseteq R
    BY <1>1, <1>2, <1>13 DEF Logs
  <2>3. OneSpare(p)'  BY <2>2, <1>1, <1>8, <1>10
  <2>4. Cardinality(B) <= Cardinality(A) - 1  BY <2>1, <1>6
  <2>5. Cardinality(B) <= N - 1
    <3>1. B # Ticks  BY <2>1
    <3> QED  BY <3>1, <1>3, CommittedFinite DEF N
  <2>6. Live(p)' => Cardinality(B) <= N - 2
    <3> SUFFICES ASSUME Live(p)' PROVE Cardinality(B) <= N - 2
      OBVIOUS
    <3>1. R # Ticks  BY <2>2, <1>8, <1>10
    <3>2. A # Ticks  BY <3>1, <1>1
    <3>3. Cardinality(A) <= N - 1  BY <3>2, <1>3, CommittedFinite DEF N
    <3> QED  BY <3>3, <2>4, <1>4
  <2>7. fails[p] >= MaxAttempts => Bounded(p)'
    BY <2>1, <2>2, <2>4, <1>0, <1>4, <1>9, <1>10
  <2>8. fails[p] < MaxAttempts => Bounded(p)'
    <3>1. fails[p] < MaxAttempts /\ fails'[p] >= MaxAttempts => fails'[p] = MaxAttempts
      BY <2>1, <1>0
    <3> QED  BY <3>1, <2>5, <2>6, <1>0, <1>4, <1>9
  <2> QED  BY <2>3, <2>7, <2>8, <1>0 DEF Budgeted
<1>14. ASSUME NEW w \in Ticks, Takes(w, p) PROVE Budgeted(p)'
  <2>1. fails'[p] = fails[p] /\ w \in A /\ w \notin Q /\ w \notin B /\ B \subseteq A \ {w}
    <3>1. fails'[p] = fails[p] /\ w \in A /\ w \notin Q
      BY <1>2, <1>14 DEF Takes
    <3>2. \A v \in Ticks \ {w} : v \in B => v \in A  BY <1>2, <1>14 DEF Takes
    <3> QED  BY <3>1, <3>2, <1>1, <1>3
  <2>2. OneSpare(p)'  BY <2>1, <1>8
  <2>3. Cardinality(B) <= Cardinality(A) - 1  BY <2>1, <1>6
  <2>4. Bounded(p)'  BY <2>1, <2>3, <1>0, <1>4, <1>9, <1>10
  <2> QED  BY <2>2, <2>4 DEF Budgeted
<1>15. CASE Resets(p)
  <2>1. Live(p)' => Live(p) /\ Q \subseteq R  BY <1>1, <1>2, <1>15 DEF Resets
  <2>2. OneSpare(p)'  BY <2>1, <1>1, <1>8, <1>10
  <2>3. Bounded(p)'  BY <1>15, <1>0, <1>9 DEF Resets
  <2> QED  BY <2>2, <2>3 DEF Budgeted
<1> QED  BY <1>11, <1>12, <1>13, <1>14, <1>15

(* The facts a step of one worker starts from and must restore.            *)
Sound == Custody /\ ShownStays /\ Tally

(* A step of one tick restores the tally if its own counts stay right, the log
   only grows, and the budget of every post is kept. *)
LEMMA WorkerTally ==
  ASSUME IsFiniteSet(Ticks), Sound, Custody', ShownStays', NEW w \in Ticks,
         \A v \in Workers \ {w} : wk'[v] = wk[v],
         InTick(wk'[w]), CountsAt(wk'[w], fails', plogged'),
         \A p \in Posts :
           /\ plogged[p] => plogged'[p]
           /\ plogged'[p] \/ fails'[p] >= fails[p]
           /\ status'[p] = "dead" => status[p] = "dead" \/ fails'[p] >= MaxAttempts
           /\ Level(p) \/ Ends(w, p) \/ Logs(w, p) \/ Takes(w, p) \/ Resets(p)
  PROVE  Tally'
<1>0. /\ w \in Workers /\ TypeInv /\ TypeInv'
      /\ MaxAttempts \in Nat /\ Ticks \subseteq Workers
  BY WorkersAssumption, MaxAttemptsAssumption DEF Sound, Custody
<1>1. /\ fails \in [Posts -> Nat] /\ fails' \in [Posts -> Nat]
      /\ wk \in [Workers -> Worker] /\ wk' \in [Workers -> Worker]
  BY <1>0 DEF TypeInv, TypeOK
<1>2. TicksOnly'  BY DEF Sound, Tally, TicksOnly
<1>3. \A v \in Workers : InTick(wk'[v])  BY DEF Sound, Tally
<1>4. DeadSpent'
  <2> SUFFICES ASSUME NEW p \in Posts, status'[p] = "dead" PROVE fails'[p] >= MaxAttempts
    BY DEF DeadSpent
  <2>1. ~plogged'[p]  BY DEF ShownStays, Shown, Evidence
  <2>2. fails'[p] >= fails[p]  BY <2>1
  <2>3. status[p] = "dead" => fails[p] >= MaxAttempts
    BY DEF Sound, Tally, Counted, DeadSpent
  <2> QED  BY <2>2, <2>3, <1>0, <1>1
<1>5. ASSUME NEW v \in Workers PROVE CountsAt(wk'[v], fails', plogged')
  <2>1. CASE v = w  BY <2>1
  <2>2. CASE v # w
    <3>1. CountsAt(wk[v], fails, plogged)  BY DEF Sound, Tally, Counted
    <3> SUFFICES ASSUME NEW p \in Posts, ~plogged'[p]
                 PROVE  CountOK(wk'[v], p, fails'[p])
      BY DEF CountsAt
    <3>2. CountOK(wk[v], p, fails[p])  BY <3>1 DEF CountsAt
    <3>3. fails'[p] >= fails[p] /\ wk'[v] = wk[v]  BY <2>2
    <3>4. wk[v].seen[p] \in Nat /\ wk[v].attempt \in Nat  BY <1>1 DEF Worker
    <3> QED  BY <3>2, <3>3, <3>4, <1>0, <1>1 DEF CountOK
  <2> QED  BY <2>1, <2>2
<1>6. ASSUME NEW p \in Posts PROVE Budgeted(p)'
  BY <1>0, BudgetKept DEF Sound, Tally
<1> QED  BY <1>2, <1>3, <1>4, <1>5, <1>6 DEF Tally, Counted

(* The same when the log is left alone: for each post the step relaxes its
   budget, ends the attempt in flight, or takes the post for a retry. *)
Eased(w, p) ==
  /\ Live(p)' => Live(p) /\ (Retries(wk'[w], p) => Retries(wk[w], p))
  /\ fails[p] >= MaxAttempts => (Commits(wk'[w], p) => Commits(wk[w], p))
Ended(w, p) == Live(p) /\ ~Live(p)' /\ ~Commits(wk[w], p)
Taken(w, p) == Commits(wk[w], p) /\ ~Retries(wk'[w], p)

LEMMA QuietTally ==
  ASSUME IsFiniteSet(Ticks), Sound, Custody', ShownStays', NEW w \in Ticks,
         \A v \in Workers \ {w} : wk'[v] = wk[v], UNCHANGED <<fails, plogged>>,
         InTick(wk'[w]), CountsAt(wk'[w], fails, plogged),
         \A p \in Posts :
           /\ status'[p] = "dead" => status[p] = "dead" \/ fails[p] >= MaxAttempts
           /\ Eased(w, p) \/ Ended(w, p) \/ Taken(w, p)
  PROVE  Tally'
<1>1. fails \in [Posts -> Nat] /\ Ticks \subseteq Workers
  BY WorkersAssumption DEF Sound, Custody, TypeInv, TypeOK
<1>2. CountsAt(wk'[w], fails', plogged')  OBVIOUS
<1>3. ASSUME NEW p \in Posts
      PROVE  /\ plogged[p] => plogged'[p]
             /\ plogged'[p] \/ fails'[p] >= fails[p]
             /\ status'[p] = "dead" => status[p] = "dead" \/ fails'[p] >= MaxAttempts
  BY <1>1
<1>4. ASSUME NEW p \in Posts PROVE Level(p) \/ Ends(w, p) \/ Takes(w, p)
  <2>0. fails'[p] = fails[p] /\ \A v \in Ticks \ {w} : wk'[v] = wk[v]  BY <1>1
  <2>1. CASE Eased(w, p)  BY <2>0, <2>1 DEF Eased, Level
  <2>2. CASE Ended(w, p)  BY <2>0, <2>2 DEF Ended, Ends
  <2>3. CASE Taken(w, p)  BY <2>0, <2>3 DEF Taken, Takes
  <2> QED  BY <2>1, <2>2, <2>3
<1> QED  BY <1>2, <1>3, <1>4, WorkerTally

(* A conditional UPDATE makes no other post live, nor dead.                 *)
LEMMA TransitionLives ==
  ASSUME TypeInv, NEW r \in Posts, NEW source, NEW target, Transition(r, source, target)
  PROVE  /\ \A p \in Posts \ {r} : status'[p] = status[p]
         /\ status'[r] = status[r] \/ (status[r] \in source /\ status'[r] = target)
BY DEF Transition, rowVars, TypeInv, TypeOK

(* A worker that moves on within its claim derives nothing new, ...         *)
LEMMA GotoTally ==
  ASSUME Sound, NEW w \in Ticks, NEW l \in Holding \cup {"logPub"}, Goto(w, l),
         wk[w].pc \in Holding \cup {"recoverSettle"},
         l \in Trying => wk[w].pc \in Trying, l \in Holding => wk[w].pc \in Holding
  PROVE  /\ \A v \in Workers \ {w} : wk'[v] = wk[v]
         /\ InTick(wk'[w]) /\ CountsAt(wk'[w], fails, plogged)
         /\ \A p \in Posts : (Retries(wk'[w], p) => Retries(wk[w], p))
                             /\ (Commits(wk'[w], p) => Commits(wk[w], p))
<1>0. w \in Workers /\ wk \in [Workers -> Worker]
  BY WorkersAssumption DEF Sound, Custody, TypeInv, TypeOK
<1>1. /\ wk'[w].pc = l /\ wk'[w].job = wk[w].job /\ wk'[w].snap = wk[w].snap
      /\ wk'[w].seen = wk[w].seen /\ wk'[w].ret = wk[w].ret
      /\ wk'[w].attempt = wk[w].attempt
      /\ \A v \in Workers \ {w} : wk'[v] = wk[v]
  BY <1>0 DEF Goto, Worker
<1>2. InTick(wk[w]) /\ CountsAt(wk[w], fails, plogged)
  BY <1>0 DEF Sound, Tally, Counted
<1>3. InTick(wk'[w])  BY <1>1, <1>2 DEF InTick, Holding, Recovering
<1>4. CountsAt(wk'[w], fails, plogged)
  BY <1>1, <1>2 DEF CountsAt, CountOK, Holding
<1>5. wk[w].pc # "select" /\ l \notin {"claim", "logFail", "catchLog"}  BY DEF Holding
<1>6. \A p \in Posts : (Retries(wk'[w], p) => Retries(wk[w], p))
                       /\ (Commits(wk'[w], p) => Commits(wk[w], p))
  BY <1>1, <1>5 DEF Retries, Commits, Pending
<1> QED  BY <1>1, <1>3, <1>4, <1>6

(* ... and one that leaves the post in hand keeps its plans at most; a retry
   it was about to make or to log is behind it. *)
LEMMA ReturnTally ==
  ASSUME Sound, NEW w \in Ticks, Return(w), wk[w].pc # "select",
         NEW f \in [Posts -> Nat], NEW l, CountsAt(wk[w], f, l)
  PROVE  /\ \A v \in Workers \ {w} : wk'[v] = wk[v]
         /\ InTick(wk'[w]) /\ CountsAt(wk'[w], f, l)
         /\ \A p \in Posts : /\ Retries(wk'[w], p) => Retries(wk[w], p)
                             /\ Commits(wk'[w], p) => Commits(wk[w], p)
                             /\ Pending(wk[w], p) => ~Commits(wk'[w], p)
<1>0. w \in Workers /\ wk \in [Workers -> Worker] /\ wk[w] \in Worker
  BY WorkersAssumption DEF Sound, Custody, TypeInv, TypeOK
<1> DEFINE b == [IdleWorker EXCEPT !.pc = wk[w].ret, !.ret = wk[w].ret,
                                   !.snap = wk[w].snap, !.seen = wk[w].seen]
<1>1. wk'[w] = IdleWorker \/ wk'[w] = b  BY <1>0 DEF Return
<1>2. \A v \in Workers \ {w} : wk'[v] = wk[v]  BY <1>0 DEF Return
<1>3. /\ b.pc = wk[w].ret /\ b.ret = wk[w].ret /\ b.snap = wk[w].snap
      /\ b.seen = wk[w].seen /\ wk[w].ret \in {"recover", "loop"} /\ b.job = NoPost
  BY <1>0 DEF IdleWorker, Worker
<1>4. /\ IdleWorker.pc = "idle" /\ IdleWorker.job = NoPost
      /\ \A p \in Posts : IdleWorker.snap[p] = "none" /\ IdleWorker.seen[p] = 0
  BY DEF IdleWorker, Nothing, Unread
<1> HIDE DEF b
<1>5. InTick(wk[w])  BY <1>0 DEF Sound, Tally
<1>6. InTick(wk'[w])
  <2>1. InTick(IdleWorker)  BY <1>4 DEF InTick, Recovering, Holding
  <2>2. InTick(b)  BY <1>3 DEF InTick, Recovering, Holding
  <2> QED  BY <1>1, <2>1, <2>2
<1>7. CountsAt(wk'[w], f, l)
  <2> SUFFICES ASSUME NEW p \in Posts, ~l[p] PROVE CountOK(wk'[w], p, f[p])
    BY DEF CountsAt
  <2>1. CountOK(wk[w], p, f[p]) /\ p # NoPost
    BY NoPostAssumption DEF CountsAt
  <2>2. CountOK(IdleWorker, p, f[p])  BY <1>4, <2>1 DEF CountOK
  <2>3. CountOK(b, p, f[p])  BY <1>3, <2>1 DEF CountOK
  <2> QED  BY <1>1, <2>2, <2>3
<1>8. ASSUME NEW p \in Posts
      PROVE  /\ Retries(wk'[w], p) => Retries(wk[w], p)
             /\ Commits(wk'[w], p) => Commits(wk[w], p)
             /\ Pending(wk[w], p) => ~Commits(wk'[w], p)
  <2>1. ~Retries(IdleWorker, p) /\ ~Commits(IdleWorker, p)
    BY <1>4 DEF Retries, Commits, Pending
  <2>2. ~Pending(b, p)  BY <1>3 DEF Pending
  <2>3. Retries(b, p) => Retries(wk[w], p)  BY <1>3, <2>2 DEF Retries
  <2>4. Commits(b, p) => Commits(wk[w], p)  BY <1>3, <2>2 DEF Commits
  <2>5. Pending(wk[w], p) => ~Commits(b, p)
    BY <1>3, <1>5, <2>2 DEF Commits, Pending, InTick
  <2> QED  BY <1>1, <2>1, <2>3, <2>4, <2>5
<1> QED  BY <1>2, <1>6, <1>7, <1>8

(* The steps of a tick keep the tally: a stale row becomes a failure that is
   still to be logged, and only exhausted rows are parked. *)
LEMMA TickTally ==
  ASSUME IsFiniteSet(Ticks), Sound, Custody', ShownStays', NEW w \in Workers,
         \/ TickStart(w) \/ RecoverLogs(w) \/ RecoverFail(w)
         \/ ReadControls(w) \/ Select(w) \/ LoopDone(w)
         \/ \E p \in Posts : \/ RecoverRow(w, p) \/ Park(w, p)
                             \/ LoopTake(w, p) \/ LoopDefer(w, p)
  PROVE  Tally'
<1>0. /\ wk \in [Workers -> Worker] /\ wk[w] \in Worker /\ TypeInv
      /\ fails \in [Posts -> Nat] /\ MaxAttempts \in Nat
      /\ (wk[w].pc \in Busy => wk[w].job \in Posts)
  BY MaxAttemptsAssumption DEF Sound, Custody, TypeInv, TypeOK, JobOK
<1>w. w \in Ticks
  BY DEF TickStart, RecoverLogs, RecoverFail, ReadControls, Select, LoopDone, RecoverRow,
         Park, LoopTake, LoopDefer, At, Sound, Tally, TicksOnly
<1>t. InTick(wk[w]) /\ CountsAt(wk[w], fails, plogged)  BY DEF Sound, Tally, Counted
<1>k. ASSUME NEW k, wk' = [wk EXCEPT ![w] = k]
      PROVE  wk'[w] = k /\ \A v \in Workers \ {w} : wk'[v] = wk[v]
  BY <1>0, <1>k
<1>1. CASE TickStart(w)
  <2> DEFINE plan == [p \in Posts |->
        CASE status[p] = "publishing" /\ p \in aged -> "stale"
          [] status[p] = "scheduled" /\ p \in due -> "scheduled"
          [] status[p] = "failed" -> "failed"
          [] OTHER -> "none"]
             k == [wk[w] EXCEPT !.pc = "recoverLogs", !.ret = "recover", !.snap = plan]
  <2>1. wk' = [wk EXCEPT ![w] = k]  BY <1>0, <1>1 DEF TickStart
  <2>2. /\ k.pc = "recoverLogs" /\ k.ret = "recover" /\ k.snap = plan
        /\ k.seen = wk[w].seen /\ k.job = wk[w].job
    BY <1>0 DEF Worker
  <2> HIDE DEF k
  <2>3. /\ \A p \in Posts : plan[p] # "park"
        /\ \A p \in Posts : plan[p] = "failed" => ~Live(p)
    BY DEF Live
  <2> HIDE DEF plan
  <2>4. wk'[w] = k /\ \A v \in Workers \ {w} : wk'[v] = wk[v]  BY <2>1, <1>k
  <2>5. InTick(k)  BY <2>2 DEF InTick, Recovering, Holding
  <2>6. CountsAt(k, fails, plogged)
    BY <2>2, <2>3, <1>t DEF CountsAt, CountOK, Trying
  <2>7. status' = status /\ UNCHANGED <<fails, plogged>>  BY <1>1 DEF TickStart, logVars
  <2>8. ASSUME NEW p \in Posts PROVE Eased(w, p)
    BY <2>2, <2>3, <2>4, <2>7 DEF Eased, Retries, Commits, Pending, Live
  <2> QED  BY <2>4, <2>5, <2>6, <2>7, <2>8, <1>w, QuietTally
<1>2. CASE RecoverLogs(w)
  <2> DEFINE stale == {q \in Posts : wk[w].snap[q] = "stale"}
             reads == [q \in Posts |-> IF q \in stale THEN fails[q] ELSE 0]
             plan == [q \in Posts |-> IF q \in stale /\ plogged[q] THEN "sent"
                                      ELSE wk[w].snap[q]]
             k == [wk[w] EXCEPT !.pc = "recover", !.seen = reads, !.snap = plan]
  <2>1. wk' = [wk EXCEPT ![w] = k]  BY <1>0, <1>2 DEF RecoverLogs
  <2>2. /\ k.pc = "recover" /\ k.ret = wk[w].ret /\ k.snap = plan
        /\ k.seen = reads /\ k.job = wk[w].job /\ wk[w].pc = "recoverLogs"
    BY <1>0, <1>2 DEF Worker, RecoverLogs, At
  <2> HIDE DEF k
  <2>3. \A p \in Posts : /\ plan[p] = "sent" \/ plan[p] = wk[w].snap[p]
                         /\ reads[p] <= fails[p]
    BY <1>0
  <2> HIDE DEF plan, reads, stale
  <2>4. wk'[w] = k /\ \A v \in Workers \ {w} : wk'[v] = wk[v]  BY <2>1, <1>k
  <2>5. InTick(k)  BY <2>2, <1>t DEF InTick, Recovering, Holding
  <2>6. CountsAt(k, fails, plogged)
    BY <2>2, <2>3, <1>t DEF CountsAt, CountOK, Trying
  <2>7. status' = status /\ UNCHANGED <<fails, plogged>>
    BY <1>2 DEF RecoverLogs, logVars, rowVars
  <2>8. ASSUME NEW p \in Posts PROVE Eased(w, p)
    BY <2>2, <2>3, <2>4, <2>7, <1>t
    DEF Eased, Retries, Commits, Pending, Live, InTick, Recovering
  <2> QED  BY <2>4, <2>5, <2>6, <2>7, <2>8, <1>w, QuietTally
<1>3. ASSUME NEW r \in Posts, RecoverRow(w, r) PROVE Tally'
  <2> DEFINE n == wk[w].seen[r] + 1
             l == IF wk[w].snap[r] = "sent" \/ registry[r] # {}
                  THEN "recoverSettle" ELSE "recoverFail"
             k == [wk[w] EXCEPT !.job = r, !.snap[r] = "none", !.seen[r] = 0,
                                !.attempt = n, !.pc = l]
  <2>1. wk' = [wk EXCEPT ![w] = k]  BY <1>0, <1>3 DEF RecoverRow
  <2>2. /\ k.pc = l /\ k.ret = wk[w].ret /\ k.snap = [wk[w].snap EXCEPT ![r] = "none"]
        /\ k.seen = [wk[w].seen EXCEPT ![r] = 0] /\ k.job = r /\ k.attempt = n
        /\ wk[w].pc = "recover" /\ l \in {"recoverSettle", "recoverFail"}
    BY <1>0, <1>3 DEF Worker, RecoverRow, At
  <2> HIDE DEF k, l
  <2>3. \A p \in Posts : /\ k.snap[p] = "none" \/ k.snap[p] = wk[w].snap[p]
                         /\ k.seen[p] = 0 \/ k.seen[p] = wk[w].seen[p]
    BY <2>2, <1>0 DEF Worker
  <2>4. wk'[w] = k /\ \A v \in Workers \ {w} : wk'[v] = wk[v]  BY <2>1, <1>k
  <2>5. InTick(k)  BY <2>2, <1>t DEF InTick, Recovering, Holding
  <2>6. CountsAt(k, fails, plogged)
    <3> SUFFICES ASSUME NEW p \in Posts, ~plogged[p] PROVE CountOK(k, p, fails[p])
      BY DEF CountsAt
    <3>1. CountOK(wk[w], p, fails[p])  BY <1>t DEF CountsAt
    <3>2. r = p => n <= fails[p] + 1  BY <3>1, <1>0 DEF CountOK, Worker
    <3> QED  BY <2>2, <2>3, <3>1, <3>2, <1>0 DEF CountOK
  <2>7. status' = status /\ UNCHANGED <<fails, plogged>>
    BY <1>3 DEF RecoverRow, logVars, rowVars
  <2>8. ASSUME NEW p \in Posts PROVE Eased(w, p)
    BY <2>2, <2>3, <2>4, <2>7, <1>t
    DEF Eased, Retries, Commits, Pending, Live, InTick, Recovering
  <2> QED  BY <2>4, <2>5, <2>6, <2>7, <2>8, <1>w, QuietTally
<1>4. CASE RecoverFail(w)
  <2>1. PICK r \in Posts : r = wk[w].job
    BY <1>4, <1>0 DEF RecoverFail, At, Busy, PC
  <2>2. wk[w].pc = "recoverFail" /\ wk[w].ret = "recover" /\ UNCHANGED <<fails, plogged>>
    BY <1>4, <1>t DEF RecoverFail, At, logVars, InTick, Recovering
  <2>3. CASE <<w, r>> \in older /\ status[r] = "publishing"
    <3> DEFINE k == [wk[w] EXCEPT !.pc = "logFail", !.snap[r] = "failed"]
    <3>1. Transition(r, {"publishing"}, "failed") /\ wk' = [wk EXCEPT ![w] = k]
      BY <1>4, <1>0, <2>1, <2>3 DEF RecoverFail
    <3>2. /\ k.pc = "logFail" /\ k.ret = "recover" /\ k.job = r /\ k.seen = wk[w].seen
          /\ k.snap = [wk[w].snap EXCEPT ![r] = "failed"] /\ k.attempt = wk[w].attempt
      BY <1>0, <2>1, <2>2 DEF Worker
    <3> HIDE DEF k
    <3>3. \A p \in Posts : k.snap[p] = IF p = r THEN "failed" ELSE wk[w].snap[p]
      BY <3>2, <1>0 DEF Worker
    <3>4. wk'[w] = k /\ \A v \in Workers \ {w} : wk'[v] = wk[v]  BY <3>1, <1>k
    <3>5. InTick(k)  BY <3>2 DEF InTick, Recovering, Holding
    <3>6. CountsAt(k, fails, plogged)
      BY <3>2, <3>3, <2>1, <2>2, <1>t DEF CountsAt, CountOK, Trying
    <3>7. status[r] = "publishing" /\ status' = [status EXCEPT ![r] = "failed"]
      BY <3>1, <2>3 DEF Transition
    <3>8. \A p \in Posts : status'[p] = IF p = r THEN "failed" ELSE status[p]
      BY <3>7, <1>0 DEF TypeInv, TypeOK
    <3>9. ASSUME NEW p \in Posts PROVE Eased(w, p) \/ Ended(w, p)
      <4>1. CASE p = r
        BY <4>1, <3>7, <3>8, <2>2 DEF Ended, Live, Commits, Pending
      <4>2. CASE p # r
        BY <4>2, <3>2, <3>3, <3>4, <3>8, <2>1 DEF Eased, Live, Retries, Commits, Pending
      <4> QED  BY <4>1, <4>2
    <3> QED  BY <3>4, <3>5, <3>6, <3>8, <3>9, <2>2, <1>w, QuietTally
  <2>4. CASE ~(<<w, r>> \in older /\ status[r] = "publishing")
    <3>1. Return(w) /\ status' = status  BY <1>4, <2>1, <2>4 DEF RecoverFail, rowVars
    <3>2. /\ \A v \in Workers \ {w} : wk'[v] = wk[v]
          /\ InTick(wk'[w]) /\ CountsAt(wk'[w], fails, plogged)
          /\ \A p \in Posts : /\ Retries(wk'[w], p) => Retries(wk[w], p)
                              /\ Commits(wk'[w], p) => Commits(wk[w], p)
      BY <3>1, <2>2, <1>0, <1>t, <1>w, ReturnTally
    <3>3. \A p \in Posts : Eased(w, p)  BY <3>1, <3>2 DEF Eased, Live
    <3> QED  BY <3>1, <3>2, <3>3, <2>2, <1>w, QuietTally
  <2> QED  BY <2>3, <2>4
<1>5. CASE ReadControls(w)
  <2> DEFINE b == [wk[w] EXCEPT !.pc = "select", !.ret = "loop"]
             k == IF "disabled" \in gates THEN IdleWorker ELSE b
  <2>1. wk' = [wk EXCEPT ![w] = k]  BY <1>0, <1>5 DEF ReadControls
  <2>2. /\ b.pc = "select" /\ b.ret = "loop" /\ b.snap = wk[w].snap
        /\ b.seen = wk[w].seen /\ b.job = wk[w].job
    BY <1>0 DEF Worker
  <2>3. /\ IdleWorker.pc = "idle" /\ IdleWorker.job = NoPost
        /\ \A p \in Posts : IdleWorker.snap[p] = "none" /\ IdleWorker.seen[p] = 0
    BY DEF IdleWorker, Nothing, Unread
  <2>4. k = IdleWorker \/ k = b  OBVIOUS
  <2> HIDE DEF b, k
  <2>5. wk'[w] = k /\ \A v \in Workers \ {w} : wk'[v] = wk[v]  BY <2>1, <1>k
  <2>6. InTick(k)  BY <2>2, <2>3, <2>4 DEF InTick, Recovering, Holding
  <2>7. CountsAt(k, fails, plogged)
    <3> SUFFICES ASSUME NEW p \in Posts, ~plogged[p] PROVE CountOK(k, p, fails[p])
      BY DEF CountsAt
    <3>1. CountOK(wk[w], p, fails[p]) /\ p # NoPost
      BY <1>t, NoPostAssumption DEF CountsAt
    <3> QED  BY <2>2, <2>3, <2>4, <3>1, <1>0 DEF CountOK, Trying
  <2>8. status' = status /\ UNCHANGED <<fails, plogged>>  BY <1>5 DEF ReadControls, logVars
  <2>9. ASSUME NEW p \in Posts PROVE Eased(w, p)
    <3>1. ~Commits(IdleWorker, p) /\ ~Retries(IdleWorker, p)
      BY <2>3 DEF Commits, Retries, Pending
    <3>2. ~Commits(b, p) /\ (Retries(b, p) => Retries(wk[w], p))
      BY <2>2 DEF Commits, Retries, Pending
    <3> QED  BY <3>1, <3>2, <2>4, <2>5, <2>8 DEF Eased, Live
  <2> QED  BY <2>5, <2>6, <2>7, <2>8, <2>9, <1>w, QuietTally
<1>6. CASE Select(w)
  <2> DEFINE old == wk[w].snap
             plan == [q \in Posts |->
               CASE old[q] # "failed" -> old[q]
                 [] old[q] = "failed" /\ fails[q] >= MaxAttempts -> "park"
                 [] old[q] = "failed" /\ fails[q] < MaxAttempts
                      /\ q \in due \ cooling -> "failed"
                 [] OTHER -> "none"]
             k == [wk[w] EXCEPT !.pc = "loop", !.snap = plan]
  <2>1. wk' = [wk EXCEPT ![w] = k]  BY <1>0, <1>6 DEF Select
  <2>2. /\ k.pc = "loop" /\ k.ret = wk[w].ret /\ k.snap = plan /\ k.seen = wk[w].seen
        /\ k.job = wk[w].job /\ wk[w].pc = "select" /\ wk[w].ret = "loop"
    BY <1>0, <1>6, <1>t DEF Worker, Select, At, InTick
  <2> HIDE DEF k
  <2>3. \A p \in Posts :
          /\ plan[p] = "failed" => old[p] = "failed" /\ ~(fails[p] >= MaxAttempts)
          /\ plan[p] = "park" => old[p] = "park" \/ fails[p] >= MaxAttempts
    BY <1>0
  <2> HIDE DEF plan
  <2>4. wk'[w] = k /\ \A v \in Workers \ {w} : wk'[v] = wk[v]  BY <2>1, <1>k
  <2>5. InTick(k)  BY <2>2 DEF InTick, Recovering, Holding
  <2>6. CountsAt(k, fails, plogged)
    BY <2>2, <2>3, <1>t DEF CountsAt, CountOK, Trying
  <2>7. status' = status /\ UNCHANGED <<fails, plogged>>
    BY <1>6 DEF Select, logVars, rowVars
  <2>8. ASSUME NEW p \in Posts PROVE Eased(w, p)
    BY <2>2, <2>3, <2>4, <2>7 DEF Eased, Retries, Commits, Pending, Live
  <2> QED  BY <2>4, <2>5, <2>6, <2>7, <2>8, <1>w, QuietTally
<1>7. ASSUME NEW r \in Posts, Park(w, r) \/ LoopDefer(w, r) PROVE Tally'
  <2> DEFINE k == [wk[w] EXCEPT !.snap[r] = "none"]
  <2>1. wk' = [wk EXCEPT ![w] = k]  BY <1>0, <1>7 DEF Park, LoopDefer
  <2>2. /\ k.pc = "loop" /\ k.ret = wk[w].ret /\ k.seen = wk[w].seen
        /\ k.job = wk[w].job /\ k.snap = [wk[w].snap EXCEPT ![r] = "none"]
        /\ wk[w].pc = "loop" /\ wk[w].ret = "loop"
    BY <1>0, <1>7, <1>t DEF Worker, Park, LoopDefer, At, InTick
  <2> HIDE DEF k
  <2>3. \A p \in Posts : k.snap[p] = "none" \/ k.snap[p] = wk[w].snap[p]
    BY <2>2, <1>0 DEF Worker
  <2>4. wk'[w] = k /\ \A v \in Workers \ {w} : wk'[v] = wk[v]  BY <2>1, <1>k
  <2>5. InTick(k)  BY <2>2 DEF InTick, Recovering, Holding
  <2>6. CountsAt(k, fails, plogged)
    BY <2>2, <2>3, <1>t DEF CountsAt, CountOK, Trying
  <2>7. UNCHANGED <<fails, plogged>>  BY <1>7 DEF Park, LoopDefer, logVars
  <2>8. ASSUME NEW p \in Posts
        PROVE  /\ Live(p)' => Live(p)
               /\ status'[p] = "dead" => status[p] = "dead" \/ fails[p] >= MaxAttempts
    <3>1. CASE Park(w, r)
      <4>1. /\ status'[p] = status[p] \/ (p = r /\ status[p] = "failed" /\ status'[p] = "dead")
            /\ wk[w].snap[r] = "park"
        BY <3>1, <1>0, TransitionLives DEF Park
      <4>2. status[r] = "failed" => ~plogged[r]
        BY DEF Sound, ShownStays, Shown, Evidence
      <4>3. status[r] = "failed" => fails[r] >= MaxAttempts
        BY <4>1, <4>2, <1>t DEF CountsAt, CountOK
      <4> QED  BY <4>1, <4>3 DEF Live
    <3>2. CASE LoopDefer(w, r)  BY <3>2 DEF LoopDefer, rowVars, Live
    <3> QED  BY <1>7, <3>1, <3>2
  <2>9. ASSUME NEW p \in Posts PROVE Eased(w, p)
    BY <2>2, <2>3, <2>4, <2>8 DEF Eased, Retries, Commits, Pending
  <2> QED  BY <2>4, <2>5, <2>6, <2>7, <2>8, <2>9, <1>w, QuietTally
<1>8. ASSUME NEW r \in Posts, LoopTake(w, r) PROVE Tally'
  <2> DEFINE k == Entered(wk[w], r, {wk[w].snap[r]})
  <2>1. wk' = [wk EXCEPT ![w] = k]  BY <1>0, <1>8 DEF LoopTake
  <2>2. /\ k.pc = "claim" /\ k.ret = wk[w].ret /\ k.seen = wk[w].seen
        /\ k.job = r /\ k.snap = [wk[w].snap EXCEPT ![r] = "none"]
        /\ k.from = {wk[w].snap[r]} /\ wk[w].pc = "loop" /\ wk[w].ret = "loop"
    BY <1>0, <1>8, <1>t DEF Worker, LoopTake, At, InTick, Entered
  <2> HIDE DEF k
  <2>3. \A p \in Posts : k.snap[p] = IF p = r THEN "none" ELSE wk[w].snap[p]
    BY <2>2, <1>0 DEF Worker
  <2>4. wk'[w] = k /\ \A v \in Workers \ {w} : wk'[v] = wk[v]  BY <2>1, <1>k
  <2>5. InTick(k)  BY <2>2, <2>3 DEF InTick, Recovering, Holding
  <2>6. CountsAt(k, fails, plogged)
    <3>1. \A p \in Posts : k.snap[p] = "none" \/ k.snap[p] = wk[w].snap[p]  BY <2>3
    <3> QED  BY <2>2, <3>1, <1>t DEF CountsAt, CountOK, Trying
  <2>7. status' = status /\ UNCHANGED <<fails, plogged>>
    BY <1>8 DEF LoopTake, logVars, rowVars
  <2>8. ASSUME NEW p \in Posts PROVE Eased(w, p)
    <3>1. CASE p = r
      <4>1. Pending(k, r) => wk[w].snap[r] = "failed"  BY <2>2 DEF Pending
      <4> QED
        BY <4>1, <3>1, <2>2, <2>3, <2>4, <2>7 DEF Eased, Retries, Commits, Live
    <3>2. CASE p # r
      BY <3>2, <2>2, <2>3, <2>4, <2>7 DEF Eased, Retries, Commits, Pending, Live
    <3> QED  BY <3>1, <3>2
  <2> QED  BY <2>4, <2>5, <2>6, <2>7, <2>8, <1>w, QuietTally
<1>9. CASE LoopDone(w)
  <2>1. Return(w) /\ status' = status /\ UNCHANGED <<fails, plogged>> /\ wk[w].pc = "loop"
    BY <1>9 DEF LoopDone, rowVars, logVars, At
  <2>2. /\ \A v \in Workers \ {w} : wk'[v] = wk[v]
        /\ InTick(wk'[w]) /\ CountsAt(wk'[w], fails, plogged)
        /\ \A p \in Posts : /\ Retries(wk'[w], p) => Retries(wk[w], p)
                            /\ Commits(wk'[w], p) => Commits(wk[w], p)
    BY <2>1, <1>0, <1>t, <1>w, ReturnTally
  <2>3. \A p \in Posts : Eased(w, p)  BY <2>1, <2>2 DEF Eased, Live
  <2> QED  BY <2>1, <2>2, <2>3, <1>w, QuietTally
<1> QED  BY <1>1, <1>2, <1>3, <1>4, <1>5, <1>6, <1>7, <1>8, <1>9

(* The steps of an attempt keep the tally: taking a failed row uses up one
   commitment, and only a post in flight is put back. *)
LEMMA AttemptTally ==
  ASSUME IsFiniteSet(Ticks), Sound, Custody', ShownStays', NEW w \in Workers,
         \/ Claim(w) \/ ReadHistory(w) \/ QueryThrows(w) \/ ReadContent(w)
         \/ Check(w) \/ Release(w) \/ AttemptThrows(w) \/ SendCached(w)
         \/ PlatformAccepts(w) \/ PlatformRejects(w)
         \/ AnswerArrives(w) \/ AnswerLost(w)
  PROVE  Tally'
<1>0. /\ wk \in [Workers -> Worker] /\ wk[w] \in Worker /\ TypeInv
      /\ fails \in [Posts -> Nat] /\ MaxAttempts \in Nat
  BY MaxAttemptsAssumption DEF Sound, Custody, TypeInv, TypeOK
<1>w. w \in Ticks
  BY DEF Claim, ReadHistory, QueryThrows, ReadContent, Check, Release, AttemptThrows,
         SendCached, PlatformAccepts, PlatformRejects, PlatformCall, AnswerArrives,
         AnswerLost, At, Sound, Tally, TicksOnly
<1>r. PICK r \in Posts : r = wk[w].job
  BY <1>0 DEF Claim, ReadHistory, QueryThrows, ReadContent, Check, Release,
         AttemptThrows, SendCached, PlatformAccepts, PlatformRejects, PlatformCall,
         AnswerArrives, AnswerLost, At, Busy, PC, Holding, TypeInv, JobOK
<1>t. InTick(wk[w]) /\ CountsAt(wk[w], fails, plogged)  BY DEF Sound, Tally, Counted
<1>u. UNCHANGED <<fails, plogged>>
  BY DEF Claim, ReadHistory, QueryThrows, ReadContent, Check, Release, AttemptThrows,
         SendCached, PlatformAccepts, PlatformRejects, PlatformCall, AnswerArrives,
         AnswerLost, logVars
<1>k. ASSUME NEW k, wk' = [wk EXCEPT ![w] = k]
      PROVE  wk'[w] = k /\ \A v \in Workers \ {w} : wk'[v] = wk[v]
  BY <1>0, <1>k
<1>b. ASSUME Return(w), wk[w].pc # "select",
             \A p \in Posts : /\ Live(p)' => Live(p)
                              /\ status'[p] = "dead" => status[p] = "dead"
      PROVE  Tally'
  <2>1. /\ \A v \in Workers \ {w} : wk'[v] = wk[v]
        /\ InTick(wk'[w]) /\ CountsAt(wk'[w], fails, plogged)
        /\ \A p \in Posts : /\ Retries(wk'[w], p) => Retries(wk[w], p)
                            /\ Commits(wk'[w], p) => Commits(wk[w], p)
    BY <1>b, <1>0, <1>t, <1>w, ReturnTally
  <2>2. \A p \in Posts : Eased(w, p)  BY <1>b, <2>1 DEF Eased
  <2> QED  BY <2>1, <2>2, <1>b, <1>u, <1>w, QuietTally
<1>1. CASE Claim(w)
  <2>1. wk[w].pc = "claim" /\ Transition(r, wk[w].from, "publishing")
    BY <1>1, <1>r DEF Claim, At
  <2>2. CASE status[r] \in wk[w].from
    <3> DEFINE k == [wk[w] EXCEPT !.pc = "history", !.from = {}]
    <3>1. wk' = [wk EXCEPT ![w] = k]  BY <1>1, <1>0, <1>r, <2>2 DEF Claim
    <3>2. /\ k.pc = "history" /\ k.ret = wk[w].ret /\ k.seen = wk[w].seen
          /\ k.job = r /\ k.snap = wk[w].snap
      BY <1>0, <1>r DEF Worker
    <3> HIDE DEF k
    <3>3. wk'[w] = k /\ \A v \in Workers \ {w} : wk'[v] = wk[v]  BY <3>1, <1>k
    <3>4. k.ret = "loop" /\ k.snap[r] # "failed"
      BY <3>2, <2>1, <1>t, <1>r DEF InTick
    <3>5. InTick(k)  BY <3>2, <3>4 DEF InTick, Recovering, Holding
    <3>6. CountsAt(k, fails, plogged)
      BY <3>2, <1>t, <1>r DEF CountsAt, CountOK, Trying
    <3>7. \A p \in Posts \ {r} : status'[p] = status[p]
      BY <2>1, <1>0, TransitionLives
    <3>8. status'[r] = "publishing" /\ status[r] \in {"scheduled", "failed"}
      BY <2>1, <2>2, <1>0 DEF Transition, TypeInv, TypeOK, Worker, Resting
    <3>9. ASSUME NEW p \in Posts PROVE Eased(w, p) \/ Taken(w, p)
      <4>1. CASE p # r
        BY <4>1, <3>2, <3>3, <3>7, <1>r, <2>1 DEF Eased, Live, Retries, Commits, Pending
      <4>2. CASE p = r /\ status[r] = "scheduled"
        BY <4>2, <3>2, <3>3, <3>4 DEF Eased, Live, Retries, Commits, Pending
      <4>3. CASE p = r /\ status[r] = "failed"
        <5>1. ~Retries(k, r)  BY <3>2, <3>4 DEF Retries, Pending
        <5>2. Pending(wk[w], r)  BY <2>1, <2>2, <4>3, <1>r DEF Pending
        <5> QED  BY <5>1, <5>2, <4>3, <3>3 DEF Taken, Commits
      <4> QED  BY <4>1, <4>2, <4>3, <3>8
    <3> QED  BY <3>3, <3>5, <3>6, <3>7, <3>8, <3>9, <1>u, <1>w, QuietTally
  <2>3. CASE status[r] \notin wk[w].from
    <3>1. Return(w) /\ status' = status
      BY <1>1, <1>r, <2>3 DEF Claim, Transition, rowVars
    <3> QED  BY <3>1, <2>1, <1>b DEF Live
  <2> QED  BY <2>2, <2>3
<1>2. CASE ReadHistory(w)
  <2> DEFINE l == IF Evidence(r) THEN "idemSettle" ELSE "content"
             k == [wk[w] EXCEPT !.attempt = fails[r] + 1, !.pc = l]
  <2>1. wk' = [wk EXCEPT ![w] = k]  BY <1>0, <1>2, <1>r DEF ReadHistory
  <2>2. /\ k.pc = l /\ l \in {"idemSettle", "content"} /\ k.ret = wk[w].ret
        /\ k.seen = wk[w].seen /\ k.job = r /\ k.snap = wk[w].snap
        /\ k.attempt = fails[r] + 1 /\ wk[w].pc = "history"
    BY <1>0, <1>2, <1>r DEF Worker, ReadHistory, At
  <2> HIDE DEF k, l
  <2>3. wk'[w] = k /\ \A v \in Workers \ {w} : wk'[v] = wk[v]  BY <2>1, <1>k
  <2>4. InTick(k)  BY <2>2, <1>r, <1>t DEF InTick, Recovering, Holding
  <2>5. CountsAt(k, fails, plogged)
    <3> SUFFICES ASSUME NEW p \in Posts, ~plogged[p] PROVE CountOK(k, p, fails[p])
      BY DEF CountsAt
    <3>1. CountOK(wk[w], p, fails[p])  BY <1>t DEF CountsAt
    <3> QED  BY <2>2, <3>1, <1>0 DEF CountOK, Trying
  <2>6. status' = status  BY <1>2 DEF ReadHistory, rowVars
  <2>7. ASSUME NEW p \in Posts PROVE Eased(w, p)
    BY <2>2, <2>3, <2>6 DEF Eased, Retries, Commits, Pending, Live
  <2> QED  BY <2>3, <2>4, <2>5, <2>6, <2>7, <1>u, <1>w, QuietTally
<1>3. CASE QueryThrows(w)
  BY <1>3, <1>b DEF QueryThrows, rowVars, Live
<1>4. CASE Release(w)
  <2>1. wk[w].pc \in {"cancelSelf", "skip"} /\ wk[w].prior \in Resting
    BY <1>4, <1>0 DEF Release, At, Worker
  <2>2. Return(w)
    <3>1. Return(w) \/ Goto(w, "recatch")  BY <1>4 DEF Release
    <3>2. ~Goto(w, "recatch")
      BY <1>0 DEF Goto, Worker, Custody, NoSecondRelease
    <3> QED  BY <3>1, <3>2
  <2>3. PICK target \in Resting \cup {"cancelled"} : Transition(r, {"publishing"}, target)
    BY <1>4, <1>r, <2>1 DEF Release
  <2>4. ASSUME NEW p \in Posts
        PROVE  /\ Live(p)' => Live(p)
               /\ status'[p] = "dead" => status[p] = "dead"
    BY <2>3, <1>0, TransitionLives DEF Live, Resting
  <2> QED  BY <2>1, <2>2, <2>4, <1>b
<1>5. CASE \/ ReadContent(w) \/ Check(w) \/ AttemptThrows(w) \/ SendCached(w)
           \/ PlatformAccepts(w) \/ PlatformRejects(w)
           \/ AnswerArrives(w) \/ AnswerLost(w)
  <2>1. PICK l \in {"checks", "cancelSelf", "skip", "send", "catch", "settlePub",
                    "accepted", "settleFail"} : Goto(w, l)
    BY <1>5 DEF ReadContent, Check, AttemptThrows, SendCached, PlatformAccepts,
                PlatformRejects, AnswerArrives, AnswerLost
  <2>2. wk[w].pc \in Holding \cap Trying /\ status' = status
    BY <1>5 DEF ReadContent, Check, AttemptThrows, SendCached, PlatformAccepts,
                PlatformRejects, PlatformCall, AnswerArrives, AnswerLost, At, Holding,
                Trying, rowVars
  <2>3. l \in Holding \cup {"logPub"}  BY DEF Holding
  <2>4. /\ \A v \in Workers \ {w} : wk'[v] = wk[v]
        /\ InTick(wk'[w]) /\ CountsAt(wk'[w], fails, plogged)
        /\ \A p \in Posts : (Retries(wk'[w], p) => Retries(wk[w], p))
                            /\ (Commits(wk'[w], p) => Commits(wk[w], p))
    BY <2>1, <2>2, <2>3, <1>w, GotoTally
  <2>5. \A p \in Posts : Eased(w, p)  BY <2>2, <2>4 DEF Eased, Live
  <2> QED  BY <2>2, <2>4, <2>5, <1>u, <1>w, QuietTally
<1> QED  BY <1>1, <1>2, <1>3, <1>4, <1>5

(* The settling steps keep the tally: a failure is logged by a worker that was
   committed to it, and only a spent post is dead-lettered. *)
LEMMA SettleTally ==
  ASSUME IsFiniteSet(Ticks), ~LogErrors, Sound, Custody', ShownStays', NEW w \in Workers,
         \/ SettlePublished(w) \/ PinThrows(w) \/ LogPublished(w)
         \/ SettleFailed(w) \/ LogFailed(w) \/ DeadLetter(w)
         \/ LogThrows(w) \/ AuditThrows(w) \/ RequeueLog(w) \/ RescheduleWrite(w)
  PROVE  Tally'
<1>0. /\ wk \in [Workers -> Worker] /\ wk[w] \in Worker /\ TypeInv
      /\ fails \in [Posts -> Nat] /\ MaxAttempts \in Nat /\ plogged \in [Posts -> BOOLEAN]
  BY MaxAttemptsAssumption DEF Sound, Custody, TypeInv, TypeOK
<1>t. InTick(wk[w]) /\ CountsAt(wk[w], fails, plogged)  BY DEF Sound, Tally, Counted
<1>c. \/ SettlePublished(w) \/ PinThrows(w) \/ LogPublished(w)
      \/ SettleFailed(w) \/ LogFailed(w) \/ DeadLetter(w)
  BY <1>t DEF LogThrows, AuditThrows, RequeueLog, RescheduleWrite, At, InTick
<1>w. w \in Ticks
  BY <1>c DEF SettlePublished, PinThrows, LogPublished, SettleFailed, LogFailed,
              DeadLetter, At, Sound, Tally, TicksOnly
<1>r. PICK r \in Posts : r = wk[w].job
  BY <1>0, <1>c DEF SettlePublished, PinThrows, LogPublished, SettleFailed, LogFailed,
         DeadLetter, At, Busy, PC, Holding, TypeInv, JobOK
<1>1. CASE SettlePublished(w) \/ PinThrows(w)
  <2>1. /\ Goto(w, "logPub") /\ wk[w].pc \in Holding \cup {"recoverSettle"}
        /\ UNCHANGED <<fails, plogged>>
    BY <1>1 DEF SettlePublished, PinThrows, At, Holding, logVars
  <2>2. /\ \A v \in Workers \ {w} : wk'[v] = wk[v]
        /\ InTick(wk'[w]) /\ CountsAt(wk'[w], fails, plogged)
        /\ \A p \in Posts : (Retries(wk'[w], p) => Retries(wk[w], p))
                            /\ (Commits(wk'[w], p) => Commits(wk[w], p))
    BY <2>1, <1>w, GotoTally DEF Trying, Holding
  <2>3. ASSUME NEW p \in Posts
        PROVE  /\ Live(p)' => Live(p)
               /\ status'[p] = "dead" => status[p] = "dead"
    <3>1. CASE SettlePublished(w)
      <4>1. Transition(r, {"publishing"}, "published")
        BY <3>1, <1>r DEF SettlePublished
      <4> QED  BY <4>1, <1>0, TransitionLives DEF Live
    <3>2. CASE PinThrows(w)  BY <3>2 DEF PinThrows, rowVars, Live
    <3> QED  BY <1>1, <3>1, <3>2
  <2>4. \A p \in Posts : Eased(w, p)  BY <2>2, <2>3 DEF Eased
  <2> QED  BY <2>1, <2>2, <2>3, <2>4, <1>w, QuietTally
<1>2. CASE LogPublished(w)
  <2>1. /\ Return(w) /\ wk[w].pc = "logPub" /\ status' = status
        /\ plogged' = [plogged EXCEPT ![r] = TRUE] /\ fails' = [fails EXCEPT ![r] = 0]
    BY <1>2, <1>r DEF LogPublished, At, rowVars
  <2>2. fails' \in [Posts -> Nat] /\ plogged'[r] /\ fails'[r] = 0
        /\ \A p \in Posts \ {r} : plogged'[p] = plogged[p] /\ fails'[p] = fails[p]
    BY <2>1, <1>0
  <2>3. CountsAt(wk[w], fails', plogged')  BY <2>2, <1>t DEF CountsAt
  <2>4. /\ \A v \in Workers \ {w} : wk'[v] = wk[v]
        /\ InTick(wk'[w]) /\ CountsAt(wk'[w], fails', plogged')
        /\ \A p \in Posts : /\ Retries(wk'[w], p) => Retries(wk[w], p)
                            /\ Commits(wk'[w], p) => Commits(wk[w], p)
    BY <2>1, <2>2, <2>3, <1>w, ReturnTally
  <2>5. \A v \in Ticks, p \in Posts : /\ Retries(wk'[v], p) => Retries(wk[v], p)
                                      /\ Commits(wk'[v], p) => Commits(wk[v], p)
    BY <2>4, <1>w, WorkersAssumption
  <2>6. ASSUME NEW p \in Posts
        PROVE  /\ plogged[p] => plogged'[p]
               /\ plogged'[p] \/ fails'[p] >= fails[p]
               /\ status'[p] = "dead" => status[p] = "dead" \/ fails'[p] >= MaxAttempts
               /\ Level(p) \/ Resets(p)
    <3>1. CASE p = r  BY <3>1, <2>1, <2>2, <2>5 DEF Resets, Live
    <3>2. CASE p # r  BY <3>2, <2>1, <2>2, <2>5, <1>0 DEF Level, Live
    <3> QED  BY <3>1, <3>2
  <2> QED  BY <2>4, <2>6, <1>w, WorkerTally
<1>3. CASE SettleFailed(w)
  <2>1. wk[w].pc \in {"settleFail", "catch"} /\ UNCHANGED <<fails, plogged>>
    BY <1>3 DEF SettleFailed, Sound, Custody, NoSecondRelease, logVars
  <2>2. status[r] = "publishing"  BY <2>1, <1>r, HeldUnseen DEF Sound, Cleared
  <2>3. PICK l \in {"logFail", "catchLog"} : Goto(w, l)  BY <1>3 DEF SettleFailed
  <2>4. /\ wk'[w].pc = l /\ wk'[w].job = r /\ wk'[w].snap = wk[w].snap
        /\ wk'[w].seen = wk[w].seen /\ wk'[w].ret = wk[w].ret
        /\ wk'[w].attempt = wk[w].attempt
        /\ \A v \in Workers \ {w} : wk'[v] = wk[v]
    BY <2>3, <1>0, <1>r DEF Goto, Worker
  <2>5. wk[w].ret = "loop" /\ wk[w].snap[r] # "failed"
    BY <2>1, <1>t, <1>r DEF InTick, Holding
  <2>6. InTick(wk'[w])  BY <2>4, <2>5 DEF InTick, Recovering, Holding
  <2>7. CountsAt(wk'[w], fails, plogged)
    BY <2>1, <2>4, <1>t, <1>r DEF CountsAt, CountOK, Trying
  <2>8. status' = [status EXCEPT ![r] = "failed"]
    BY <1>3, <1>r, <2>2 DEF SettleFailed, Transition
  <2>9. \A p \in Posts : status'[p] = IF p = r THEN "failed" ELSE status[p]
    BY <2>8, <1>0 DEF TypeInv, TypeOK
  <2>10. ASSUME NEW p \in Posts PROVE Eased(w, p) \/ Ended(w, p)
    <3>1. CASE p = r
      BY <3>1, <2>1, <2>2, <2>5, <2>9 DEF Ended, Live, Commits, Pending
    <3>2. CASE p # r
      BY <3>2, <2>1, <2>4, <2>9 DEF Eased, Live, Retries, Commits, Pending
    <3> QED  BY <3>1, <3>2
  <2> QED  BY <2>1, <2>4, <2>6, <2>7, <2>9, <2>10, <1>w, QuietTally
<1>4. CASE LogFailed(w)
  <2>1. /\ wk[w].pc \in {"logFail", "catchLog"} /\ status' = status /\ plogged' = plogged
        /\ fails' = [fails EXCEPT ![r] = @ + 1]
    BY <1>4, <1>r DEF LogFailed, rowVars
  <2>2. /\ fails' \in [Posts -> Nat] /\ fails'[r] = fails[r] + 1
        /\ \A p \in Posts \ {r} : fails'[p] = fails[p]
    BY <2>1, <1>0
  <2>3. CountsAt(wk[w], fails', plogged')
    <3> SUFFICES ASSUME NEW p \in Posts, ~plogged[p] PROVE CountOK(wk[w], p, fails'[p])
      BY <2>1 DEF CountsAt
    <3>1. CountOK(wk[w], p, fails[p])  BY <1>t DEF CountsAt
    <3>2. fails'[p] >= fails[p]  BY <2>2, <1>0
    <3>3. wk[w].seen[p] \in Nat /\ wk[w].attempt \in Nat  BY <1>0 DEF Worker
    <3> QED  BY <3>1, <3>2, <3>3, <2>2, <1>0 DEF CountOK
  <2>4. Pending(wk[w], r) /\ Commits(wk[w], r)  BY <2>1, <1>r DEF Pending, Commits
  <2>5. /\ \A v \in Workers \ {w} : wk'[v] = wk[v]
        /\ InTick(wk'[w]) /\ CountsAt(wk'[w], fails', plogged')
        /\ ~Commits(wk'[w], r)
        /\ \A p \in Posts : /\ Retries(wk'[w], p) => Retries(wk[w], p)
                            /\ Commits(wk'[w], p) => Commits(wk[w], p)
    <3>1. CASE Return(w)
      BY <3>1, <2>1, <2>2, <2>3, <2>4, <1>w, ReturnTally
    <3>2. CASE Goto(w, "deadLetter") /\ wk[w].attempt >= MaxAttempts
      <4>1. /\ wk'[w].pc = "deadLetter" /\ wk'[w].job = r /\ wk'[w].snap = wk[w].snap
            /\ wk'[w].seen = wk[w].seen /\ wk'[w].ret = wk[w].ret
            /\ \A v \in Workers \ {w} : wk'[v] = wk[v]
        BY <3>2, <1>0, <1>r DEF Goto, Worker
      <4>2. InTick(wk'[w])  BY <4>1 DEF InTick, Recovering, Holding
      <4>3. CountsAt(wk'[w], fails', plogged')
        <5> SUFFICES ASSUME NEW p \in Posts, ~plogged[p] PROVE CountOK(wk'[w], p, fails'[p])
          BY <2>1 DEF CountsAt
        <5>1. CountOK(wk[w], p, fails'[p]) /\ CountOK(wk[w], p, fails[p])
          BY <2>1, <2>3, <1>t DEF CountsAt
        <5>2. p = r => fails'[p] >= MaxAttempts
          <6>1. p = r => wk[w].attempt <= fails[r] + 1
            BY <5>1, <2>1, <1>r DEF CountOK, Trying
          <6>2. wk[w].attempt \in Nat  BY <1>0 DEF Worker
          <6> QED  BY <6>1, <6>2, <3>2, <2>2, <1>0
        <5> QED  BY <4>1, <5>1, <5>2 DEF CountOK, Trying
      <4>4. wk[w].ret = "loop" => wk[w].snap[r] # "failed"
        BY <2>1, <1>r, <1>t DEF InTick
      <4>5. ~Commits(wk'[w], r)  BY <4>1, <4>4 DEF Commits, Pending
      <4>6. ASSUME NEW p \in Posts
            PROVE  /\ Retries(wk'[w], p) => Retries(wk[w], p)
                   /\ Commits(wk'[w], p) => Commits(wk[w], p)
        BY <4>1, <2>1 DEF Retries, Commits, Pending
      <4> QED  BY <4>1, <4>2, <4>3, <4>5, <4>6
    <3> QED  BY <1>4, <3>1, <3>2 DEF LogFailed
  <2>6. \A v \in Ticks, p \in Posts : /\ Retries(wk'[v], p) => Retries(wk[v], p)
                                      /\ Commits(wk'[v], p) => Commits(wk[v], p)
    BY <2>5, <1>w, WorkersAssumption
  <2>7. ASSUME NEW p \in Posts
        PROVE  /\ plogged[p] => plogged'[p]
               /\ plogged'[p] \/ fails'[p] >= fails[p]
               /\ status'[p] = "dead" => status[p] = "dead" \/ fails'[p] >= MaxAttempts
               /\ Level(p) \/ Logs(w, p)
    <3>1. CASE p = r
      <4>1. \A v \in Ticks \ {w} : wk'[v] = wk[v]  BY <2>5, WorkersAssumption
      <4>2. Logs(w, r)  BY <4>1, <2>1, <2>2, <2>4, <2>5 DEF Logs, Live
      <4> QED  BY <4>2, <3>1, <2>1, <2>2, <1>0
    <3>2. CASE p # r  BY <3>2, <2>1, <2>2, <2>6, <1>0 DEF Level, Live
    <3> QED  BY <3>1, <3>2
  <2> QED  BY <2>5, <2>7, <1>w, WorkerTally
<1>5. CASE DeadLetter(w)
  <2>1. /\ Return(w) /\ wk[w].pc = "deadLetter" /\ UNCHANGED <<fails, plogged>>
        /\ Transition(r, {"failed"}, "dead")
    BY <1>5, <1>r DEF DeadLetter, At, logVars
  <2>2. /\ \A v \in Workers \ {w} : wk'[v] = wk[v]
        /\ InTick(wk'[w]) /\ CountsAt(wk'[w], fails, plogged)
        /\ \A p \in Posts : /\ Retries(wk'[w], p) => Retries(wk[w], p)
                            /\ Commits(wk'[w], p) => Commits(wk[w], p)
    BY <2>1, <1>0, <1>t, <1>w, ReturnTally
  <2>3. status[r] = "failed" => ~plogged[r]
    BY DEF Sound, ShownStays, Shown, Evidence
  <2>4. status[r] = "failed" => fails[r] >= MaxAttempts
    BY <2>1, <2>3, <1>r, <1>t DEF CountsAt, CountOK
  <2>5. ASSUME NEW p \in Posts
        PROVE  /\ Live(p)' => Live(p)
               /\ status'[p] = "dead" => status[p] = "dead" \/ fails[p] >= MaxAttempts
    BY <2>1, <2>4, <1>0, TransitionLives DEF Live
  <2>6. \A p \in Posts : Eased(w, p)  BY <2>2, <2>5 DEF Eased
  <2> QED  BY <2>1, <2>2, <2>5, <2>6, <1>w, QuietTally
<1> QED  BY <1>c, <1>1, <1>2, <1>3, <1>4, <1>5

(* Cancellations, time and faults: a request that is gone plans nothing, and no
   post comes to life. *)
LEMMA EnvironmentTally ==
  ASSUME IsFiniteSet(Ticks), Sound, ShownStays', UNCHANGED <<fails, plogged>>,
         \A v \in Workers : wk'[v] = wk[v] \/ wk'[v] = IdleWorker,
         \A p \in Posts : status'[p] = status[p] \/ status'[p] = "cancelled"
  PROVE  Tally'
<1>0. TypeInv /\ Ticks \subseteq Workers /\ \A v \in Workers : wk[v] \in Worker
  BY WorkersAssumption DEF Sound, Custody, TypeInv, TypeOK
<1>1. /\ IdleWorker.pc = "idle" /\ IdleWorker.job = NoPost
      /\ \A p \in Posts : IdleWorker.snap[p] = "none" /\ IdleWorker.seen[p] = 0
  BY DEF IdleWorker, Nothing, Unread
<1>2. TicksOnly'  BY <1>1 DEF Sound, Tally, TicksOnly
<1>3. ASSUME NEW v \in Workers PROVE InTick(wk'[v])
  <2>1. InTick(IdleWorker)  BY <1>1 DEF InTick, Recovering, Holding
  <2> QED  BY <2>1 DEF Sound, Tally
<1>4. DeadSpent'  BY DEF DeadSpent, Sound, Tally, Counted
<1>5. ASSUME NEW v \in Workers PROVE CountsAt(wk'[v], fails, plogged)
  <2> SUFFICES ASSUME NEW p \in Posts, ~plogged[p] PROVE CountOK(wk'[v], p, fails[p])
    BY DEF CountsAt
  <2>1. CountOK(wk[v], p, fails[p]) /\ p # NoPost /\ fails[p] \in Nat
    BY <1>0, NoPostAssumption DEF Sound, Tally, Counted, CountsAt, TypeInv, TypeOK
  <2>2. CountOK(IdleWorker, p, fails[p])  BY <1>1, <2>1 DEF CountOK
  <2> QED  BY <2>1, <2>2
<1>6. ASSUME NEW p \in Posts PROVE Budgeted(p)'
  <2>1. ~Commits(IdleWorker, p) /\ ~Retries(IdleWorker, p)
    BY <1>1 DEF Commits, Retries, Pending
  <2>2. \A v \in Ticks : /\ Retries(wk'[v], p) => Retries(wk[v], p)
                         /\ Commits(wk'[v], p) => Commits(wk[v], p)
    BY <2>1, <1>0
  <2>3. Level(p)  BY <2>2 DEF Level, Live
  <2> QED  BY <2>3, <1>0, BudgetKept DEF Sound, Tally
<1> QED  BY <1>2, <1>3, <1>4, <1>5, <1>6 DEF Tally, Counted

(* The tally is an invariant of a quiet host without operators' clicks.     *)
LEMMA TallyInvariant ==
  ASSUME QuietHost, IsFiniteSet(Ticks), Clicks = {}
  PROVE  Spec => []Sound
<1>1. Init => ShownStays /\ Tally
  <2> SUFFICES ASSUME Init PROVE ShownStays /\ Tally
    OBVIOUS
  <2>0. /\ \A w \in Workers : wk[w] = IdleWorker
        /\ \A p \in Posts : status[p] = "scheduled" /\ fails[p] = 0 /\ ~Evidence(p)
        /\ MaxAttempts \in Nat /\ MaxAttempts > 0 /\ Ticks \subseteq Workers
    BY WorkersAssumption, MaxAttemptsAssumption DEF Init, Evidence
  <2>1. /\ IdleWorker.pc = "idle" /\ IdleWorker.job = NoPost
        /\ \A p \in Posts : IdleWorker.snap[p] = "none" /\ IdleWorker.seen[p] = 0
    BY DEF IdleWorker, Nothing, Unread
  <2>2. ShownStays  BY <2>0, <2>1 DEF ShownStays, Shown, At
  <2>3. TicksOnly /\ DeadSpent  BY <2>0, <2>1 DEF TicksOnly, DeadSpent
  <2>4. InTick(IdleWorker)  BY <2>1 DEF InTick, Recovering, Holding
  <2>5. CountsAt(IdleWorker, fails, plogged)
    BY <2>0, <2>1, NoPostAssumption DEF CountsAt, CountOK
  <2>6. ASSUME NEW p \in Posts PROVE Budgeted(p)
    <3>1. ~Retries(IdleWorker, p)  BY <2>1 DEF Retries, Pending
    <3>2. Retrying(p) = {}  BY <3>1, <2>0 DEF Retrying
    <3> QED  BY <3>2, <2>0 DEF Budgeted, OneSpare, Bounded
  <2> QED  BY <2>0, <2>2, <2>3, <2>4, <2>5, <2>6 DEF Tally, Counted
<1>2. Sound /\ Custody' /\ [Next]_vars => Sound'
  <2> SUFFICES ASSUME Sound, Custody', [Next]_vars PROVE ShownStays' /\ Tally'
    BY DEF Sound
  <2>1. ShownStays'  BY ShownStaysStep DEF Sound
  <2>2. CASE \E w \in Workers : TickStart(w) \/ Step(w)
    BY <2>1, <2>2, TickTally, AttemptTally, SettleTally DEF Step, QuietHost
  <2>3. CASE \/ \E w \in Workers : Die(w)
             \/ \E p \in Posts : \/ Cancel(p) \/ Demote(p) \/ BecomesDue(p)
                                 \/ BackoffElapses(p) \/ ClaimAges(p)
             \/ \E g \in AllGates : CloseGate(g) \/ OpenGate(g)
             \/ Restart \/ UNCHANGED vars
    <3>0. wk \in [Workers -> Worker] /\ status \in [Posts -> Status]
      BY DEF Sound, Custody, TypeInv, TypeOK
    <3>1. UNCHANGED <<fails, plogged>>
      BY <2>3 DEF Die, Cancel, Demote, BecomesDue, BackoffElapses, ClaimAges, CloseGate,
                  OpenGate, Restart, vars, logVars
    <3>2. \A v \in Workers : wk'[v] = wk[v] \/ wk'[v] = IdleWorker
      BY <2>3, <3>0 DEF Die, Cancel, Demote, BecomesDue, BackoffElapses, ClaimAges,
                        CloseGate, OpenGate, Restart, vars
    <3>3. \A p \in Posts : status'[p] = status[p] \/ status'[p] = "cancelled"
      BY <2>3, <3>0 DEF Die, Cancel, Transition, Demote, BecomesDue, BackoffElapses,
                        ClaimAges, CloseGate, OpenGate, Restart, vars, rowVars
    <3> QED  BY <2>1, <3>1, <3>2, <3>3, EnvironmentTally
  <2>4. ~\E w \in Workers, p \in Posts : Click(w, p)
    BY DEF Click, PublishNow, Requeue, Reschedule
  <2>5. Tally'  BY <2>2, <2>3, <2>4 DEF Next
  <2> QED  BY <2>1, <2>5
<1>3. Init /\ Custody => Sound  BY <1>1 DEF Sound
<1> QED  BY <1>2, <1>3, CustodyInvariant, PTL DEF Spec

(* A dead-lettered post has spent its budget: on a quiet host where only the
   scheduler works, for any posts, ticks, budget, crashes and lost answers. *)
THEOREM DeadHaveSpent ==
  ASSUME QuietHost, IsFiniteSet(Ticks), Clicks = {}
  PROVE  Spec => []DeadMeansSpent
<1>1. Sound => DeadMeansSpent  BY DEF Sound, Tally, Counted, DeadSpent, DeadMeansSpent
<1> QED  BY <1>1, TallyInvariant, PTL

(* The retry budget: on such a host a post fails at most MaxAttempts times, plus
   once per other tick, whatever the number of overlapping ticks. *)
THEOREM BudgetIsKept ==
  ASSUME QuietHost, IsFiniteSet(Ticks)
  PROVE  Spec => []AttemptBudget
<1>1. CASE Clicks # {}
  <2>1. AttemptBudget  BY <1>1 DEF AttemptBudget
  <2> QED  BY <2>1, PTL
<1>2. CASE Clicks = {}
  <2>1. Sound => AttemptBudget
    <3> SUFFICES ASSUME Sound, NEW p \in Posts
                 PROVE  fails[p] <= MaxAttempts + Cardinality(Ticks) - 1
      BY DEF AttemptBudget
    <3>1. Bounded(p) /\ fails[p] \in Nat
      BY DEF Sound, Tally, Budgeted, Custody, TypeInv, TypeOK
    <3>2. Committed(p) \in SUBSET Ticks  BY DEF Committed
    <3>3. Cardinality(Committed(p)) \in Nat /\ Cardinality(Ticks) \in Nat
      BY <3>2, CommittedFinite
    <3>4. MaxAttempts \in Nat /\ MaxAttempts > 0  BY MaxAttemptsAssumption
    <3> QED  BY <3>1, <3>3, <3>4 DEF Bounded
  <2> QED  BY <2>1, <1>2, TallyInvariant, PTL
<1> QED  BY <1>1, <1>2
=============================================================================
