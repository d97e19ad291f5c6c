------------------------ MODULE PublishQueueProofs ------------------------
(* Theorems about PublishQueue, for any number of posts, requests, faults
   and gates. *)
EXTENDS PublishQueue, TLAPS

(* Program points at which a worker has a post in hand.                    *)
Busy == PC \ {"idle", "recoverLogs", "recover", "select", "loop"}
JobOK == \A w \in Workers : wk[w].pc \in Busy => wk[w].job \in Posts
TypeInv == TypeOK /\ JobOK

(* The local state of a request at rest is a worker state.                 *)
LEMMA IdleType == IdleWorker \in Worker /\ IdleWorker.pc = "idle"
BY DEF IdleWorker, Worker, PC, Resting, Nothing, Unread, Plan

(* The two ways a worker moves on: to another program point with the same
   locals, or back to its tick (or to rest) without a post. *)
LEMMA GotoStep ==
  ASSUME TypeInv, NEW w \in Workers, NEW l \in PC, Goto(w, l),
         l \in Busy => wk[w].job \in Posts
  PROVE  /\ wk' \in [Workers -> Worker] /\ JobOK'
         /\ \A v \in Workers \ {w} : wk'[v] = wk[v]
         /\ wk'[w] = [wk[w] EXCEPT !.pc = l]
<1>1. wk \in [Workers -> Worker]  BY DEF TypeInv, TypeOK
<1>2. wk'[w] = [wk[w] EXCEPT !.pc = l]  BY <1>1 DEF Goto
<1>3. wk'[w] \in Worker  BY <1>1, <1>2 DEF Worker
<1>4. \A v \in Workers \ {w} : wk'[v] = wk[v]  BY <1>1 DEF Goto
<1>5. wk' \in [Workers -> Worker]  BY <1>1, <1>3, <1>4 DEF Goto
<1>6. wk'[w].pc = l /\ wk'[w].job = wk[w].job  BY <1>1, <1>2 DEF Worker
<1>7. JobOK'  BY <1>4, <1>6 DEF TypeInv, JobOK
<1> QED  BY <1>2, <1>4, <1>5, <1>7

(* Leaving the post in hand: the worker rests or is back at its tick, with the
   plans it had or none. *)
LEMMA ReturnStep ==
  ASSUME TypeInv, NEW w \in Workers, Return(w)
  PROVE  /\ wk' \in [Workers -> Worker] /\ JobOK'
         /\ \A v \in Workers \ {w} : wk'[v] = wk[v]
         /\ wk'[w].pc \in {"idle", "recover", "loop"}
         /\ wk'[w].snap = wk[w].snap \/ wk'[w].snap = Nothing
<1>1. wk \in [Workers -> Worker]  BY DEF TypeInv, TypeOK
<1> DEFINE k == [IdleWorker EXCEPT !.pc = wk[w].ret, !.ret = wk[w].ret,
                                   !.snap = wk[w].snap, !.seen = wk[w].seen]
<1>2. k \in Worker /\ k.pc \in {"recover", "loop"} /\ k.snap = wk[w].snap
  BY <1>1, IdleType DEF Worker, PC, IdleWorker
<1>3. wk' = [wk EXCEPT ![w] = IdleWorker] \/ wk' = [wk EXCEPT ![w] = k]
  BY <1>1 DEF Return
<1>4. wk'[w] = IdleWorker \/ wk'[w] = k  BY <1>1, <1>3
<1>5. \A v \in Workers \ {w} : wk'[v] = wk[v]  BY <1>1, <1>3
<1>6. wk' \in [Workers -> Worker]  BY <1>1, <1>2, <1>3, IdleType
<1>7. wk'[w].pc \in {"idle", "recover", "loop"}  BY <1>2, <1>4, IdleType
<1>8. JobOK'  BY <1>5, <1>7 DEF TypeInv, JobOK, Busy
<1>9. IdleWorker.snap = Nothing  BY DEF IdleWorker
<1>10. wk'[w].snap = wk[w].snap \/ wk'[w].snap = Nothing
  <2> HIDE DEF k
  <2> QED  BY <1>2, <1>4, <1>9
<1> QED  BY <1>5, <1>6, <1>7, <1>8, <1>10

(* A conditional UPDATE of a row keeps the types of the row variables.      *)
LEMMA TransitionType ==
  ASSUME TypeInv, NEW p, NEW source, NEW target \in Status,
         Transition(p, source, target)
  PROVE  /\ status' \in [Posts -> Status] /\ aged' \in SUBSET Posts
         /\ older' \in SUBSET (Workers \X Posts)
BY DEF TypeInv, TypeOK, Transition, rowVars

---------------------------------------------------------------------------
(* Type correctness, one part per group of variables.                      *)

RowType == /\ status \in [Posts -> Status]
           /\ aged \in SUBSET Posts /\ older \in SUBSET (Workers \X Posts)
EnvType == /\ due \in SUBSET Posts /\ publishable \in SUBSET Posts
           /\ gates \in SUBSET AllGates
LogType == /\ fails \in [Posts -> Nat] /\ plogged \in [Posts -> BOOLEAN]
           /\ cooling \in SUBSET Posts
PlatType == /\ registry \in [Posts -> SUBSET Nat] /\ delivered \in [Posts -> Nat]
            /\ lost \in [Posts -> Nat] /\ late \in Nat /\ faults \in Nat
WkType == wk \in [Workers -> Worker] /\ JobOK

(* TypeInv is the conjunction of its parts, one per group of variables.     *)
LEMMA TypeParts ==
  /\ TypeInv <=> RowType /\ EnvType /\ LogType /\ PlatType /\ WkType
  /\ TypeInv' <=> RowType' /\ EnvType' /\ LogType' /\ PlatType' /\ WkType'
BY DEF TypeInv, TypeOK, RowType, EnvType, LogType, PlatType, WkType

(* A group of variables that an action leaves alone keeps its type.        *)
LEMMA Kept ==
  ASSUME TypeInv
  PROVE  /\ UNCHANGED rowVars => RowType'
         /\ UNCHANGED envVars => EnvType'
         /\ UNCHANGED logVars => LogType'
         /\ UNCHANGED platVars => PlatType'
         /\ UNCHANGED wk => WkType'
<1>1. RowType /\ EnvType /\ LogType /\ PlatType /\ WkType  BY TypeParts
<1>2. UNCHANGED rowVars => RowType'  BY <1>1 DEF rowVars, RowType
<1>3. UNCHANGED envVars => EnvType'  BY <1>1 DEF envVars, EnvType
<1>4. UNCHANGED logVars => LogType'  BY <1>1 DEF logVars, LogType
<1>5. UNCHANGED platVars => PlatType'  BY <1>1 DEF platVars, PlatType
<1>6. UNCHANGED wk => WkType'  BY <1>1 DEF WkType, JobOK
<1> QED  BY <1>2, <1>3, <1>4, <1>5, <1>6

(* The initial states are well typed.                                       *)
LEMMA InitType == Init => TypeInv
<1> SUFFICES ASSUME Init PROVE TypeInv
  OBVIOUS
<1>1. RowType /\ EnvType /\ LogType /\ PlatType
  BY DEF Init, RowType, EnvType, LogType, PlatType, Status, AllGates
<1>2. WkType
  BY IdleType DEF Init, WkType, JobOK, Busy
<1> QED  BY <1>1, <1>2, TypeParts

(* The tick.                                                               *)
LEMMA TickType ==
  ASSUME TypeInv, NEW w \in Workers,
         \/ TickStart(w) \/ RecoverLogs(w) \/ RecoverFail(w)
         \/ ReadControls(w) \/ Select(w) \/ LoopDone(w)
         \/ \E p \in Posts : \/ RecoverRow(w, p) \/ Park(w, p)
                             \/ LoopTake(w, p) \/ LoopDefer(w, p)
  PROVE  TypeInv'
<1> USE TypeParts
<1>0. wk[w] \in Worker /\ wk \in [Workers -> Worker]  BY DEF WkType
<1>k. /\ UNCHANGED <<rowVars, envVars, logVars, platVars>>
         => RowType' /\ EnvType' /\ LogType' /\ PlatType'
      /\ UNCHANGED <<envVars, logVars, platVars>>
         => EnvType' /\ LogType' /\ PlatType'
  BY Kept
<1>s. ASSUME NEW k \in Worker, wk' = [wk EXCEPT ![w] = k],
             k.pc \in Busy => k.job \in Posts
      PROVE  WkType'
  BY <1>0, <1>s DEF WkType, JobOK
<1>1. CASE TickStart(w)
  <2>1. EnvType' /\ LogType' /\ PlatType'  BY <1>1, <1>k DEF TickStart
  <2>2. RowType'  BY <1>1 DEF TickStart, RowType
  <2>3. WkType'
    <3> DEFINE plan == [p1 \in Posts |->
          CASE status[p1] = "publishing" /\ p1 \in aged -> "stale"
            [] status[p1] = "scheduled" /\ p1 \in due -> "scheduled"
            [] status[p1] = "failed" -> "failed"
            [] OTHER -> "none"]
    <3>1. plan \in [Posts -> Plan]  BY DEF Plan
    <3> DEFINE k == [wk[w] EXCEPT !.pc = "recoverLogs", !.ret = "recover", !.snap = plan]
    <3>2. k \in Worker /\ k.pc \notin Busy  BY <3>1, <1>0 DEF Worker, PC, Busy
    <3>3. wk' = [wk EXCEPT ![w] = k]  BY <1>1, <1>0 DEF TickStart
    <3> QED  BY <3>2, <3>3, <1>s
  <2> QED  BY <2>1, <2>2, <2>3
<1>2. CASE RecoverLogs(w)
  <2>1. RowType' /\ EnvType' /\ LogType' /\ PlatType'  BY <1>2, <1>k DEF RecoverLogs
  <2>2. WkType'
    <3> DEFINE stale == {q \in Posts : wk[w].snap[q] = "stale"}
               reads == [q \in Posts |-> IF q \in stale THEN fails[q] ELSE 0]
               plan == [q \in Posts |-> IF q \in stale /\ plogged[q] THEN "sent"
                                        ELSE wk[w].snap[q]]
               k == [wk[w] EXCEPT !.pc = "recover", !.seen = reads, !.snap = plan]
    <3>1. plan \in [Posts -> Plan]  BY <1>0 DEF Plan, Worker
    <3>2. reads \in [Posts -> Nat]  BY DEF LogType
    <3>3. k \in Worker /\ k.pc \notin Busy
      BY <3>1, <3>2, <1>0 DEF Worker, PC, Busy
    <3>4. wk' = [wk EXCEPT ![w] = k]  BY <1>2, <1>0 DEF RecoverLogs
    <3> QED  BY <3>3, <3>4, <1>s
  <2> QED  BY <2>1, <2>2
<1>3. ASSUME NEW p \in Posts, RecoverRow(w, p) PROVE TypeInv'
  <2>1. RowType' /\ EnvType' /\ LogType' /\ PlatType'  BY <1>3, <1>k DEF RecoverRow
  <2>2. WkType'
    <3> DEFINE n == wk[w].seen[p] + 1
               l == IF wk[w].snap[p] = "sent" \/ registry[p] # {}
                    THEN "recoverSettle" ELSE "recoverFail"
               k == [wk[w] EXCEPT !.job = p, !.snap[p] = "none", !.seen[p] = 0,
                                  !.attempt = n, !.pc = l]
    <3>1. wk' = [wk EXCEPT ![w] = k]  BY <1>3, <1>0 DEF RecoverRow
    <3>2. n \in Nat /\ l \in PC  BY <1>0 DEF Worker, PC
    <3> HIDE DEF n, l
    <3>3. k \in Worker /\ k.job \in Posts  BY <1>0, <3>2 DEF Worker, Plan
    <3> QED  BY <3>1, <3>3, <1>s
  <2> QED  BY <2>1, <2>2
<1>4. CASE RecoverFail(w)
  <2> DEFINE q == wk[w].job
  <2>1. EnvType' /\ LogType' /\ PlatType'  BY <1>4, <1>k DEF RecoverFail
  <2>2. q \in Posts  BY <1>4, <1>0 DEF RecoverFail, At, WkType, JobOK, Busy, PC
  <2>3. CASE <<w, q>> \in older /\ status[q] = "publishing"
    <3> DEFINE k == [wk[w] EXCEPT !.pc = "logFail", !.snap[q] = "failed"]
    <3>1. Transition(q, {"publishing"}, "failed") /\ wk' = [wk EXCEPT ![w] = k]
      BY <1>4, <1>0, <2>3 DEF RecoverFail
    <3>2. RowType'  BY <3>1, TransitionType DEF Status, RowType
    <3>3. k \in Worker /\ k.job \in Posts  BY <1>0, <2>2 DEF Worker, PC, Plan
    <3> QED  BY <3>1, <3>2, <3>3, <1>s, <2>1
  <2>4. CASE ~(<<w, q>> \in older /\ status[q] = "publishing")
    <3>1. Return(w) /\ UNCHANGED rowVars  BY <1>4, <2>4 DEF RecoverFail
    <3>2. WkType'  BY <3>1, ReturnStep DEF WkType
    <3> QED  BY <3>1, <3>2, <2>1, Kept
  <2> QED  BY <2>3, <2>4
<1>5. CASE ReadControls(w)
  <2>1. EnvType' /\ LogType' /\ PlatType'  BY <1>5, <1>k DEF ReadControls
  <2>2. RowType'  BY <1>5 DEF ReadControls, RowType
  <2>3. WkType'
    <3> DEFINE k == IF "disabled" \in gates THEN IdleWorker
                    ELSE [wk[w] EXCEPT !.pc = "select", !.ret = "loop"]
    <3>1. k \in Worker /\ k.pc \notin Busy  BY <1>0, IdleType DEF Worker, PC, Busy
    <3>2. wk' = [wk EXCEPT ![w] = k]  BY <1>5, <1>0 DEF ReadControls
    <3> QED  BY <3>1, <3>2, <1>s
  <2> QED  BY <2>1, <2>2, <2>3
<1>6. CASE Select(w)
  <2>1. RowType' /\ EnvType' /\ LogType' /\ PlatType'  BY <1>6, <1>k DEF Select
  <2>2. WkType'
    <3> DEFINE old == wk[w].snap
               plan == [q \in Posts |->
                 CASE old[q] # "failed" -> old[q]
                   [] old[q] = "failed" /\ fails[q] >= MaxAttempts -> "park"
                   [] old[q] = "failed" /\ fails[q] < MaxAttempts
                        /\ q \in due \ cooling -> "failed"
                   [] OTHER -> "none"]
               k == [wk[w] EXCEPT !.pc = "loop", !.snap = plan]
    <3>1. plan \in [Posts -> Plan]  BY <1>0 DEF Plan, Worker
    <3>2. k \in Worker /\ k.pc \notin Busy  BY <3>1, <1>0 DEF Worker, PC, Busy
    <3>3. wk' = [wk EXCEPT ![w] = k]  BY <1>6, <1>0 DEF Select
    <3> QED  BY <3>2, <3>3, <1>s
  <2> QED  BY <2>1, <2>2
<1>7. ASSUME NEW p \in Posts, Park(w, p) PROVE TypeInv'
  <2> DEFINE k == [wk[w] EXCEPT !.snap[p] = "none"]
  <2>1. k \in Worker /\ k.pc \notin Busy
    BY <1>7, <1>0 DEF Park, At, Worker, Plan, Busy
  <2>2. wk' = [wk EXCEPT ![w] = k]  BY <1>7, <1>0 DEF Park
  <2>3. WkType'  BY <2>1, <2>2, <1>s
  <2>4. RowType'  BY <1>7, TransitionType DEF Park, Status, RowType
  <2> QED  BY <1>7, <1>k, <2>3, <2>4 DEF Park
<1>8. ASSUME NEW p \in Posts, LoopTake(w, p) PROVE TypeInv'
  <2> DEFINE k == Entered(wk[w], p, {wk[w].snap[p]})
  <2>1. k \in Worker /\ k.job \in Posts
    BY <1>8, <1>0 DEF LoopTake, Entered, Worker, Plan, PC, Resting
  <2>2. wk' = [wk EXCEPT ![w] = k]  BY <1>8, <1>0 DEF LoopTake
  <2>3. WkType'  BY <2>1, <2>2, <1>s
  <2> QED  BY <1>8, <1>k, <2>3 DEF LoopTake
<1>9. ASSUME NEW p \in Posts, LoopDefer(w, p) PROVE TypeInv'
  <2> DEFINE k == [wk[w] EXCEPT !.snap[p] = "none"]
  <2>1. k \in Worker /\ k.pc \notin Busy
    BY <1>9, <1>0 DEF LoopDefer, At, Worker, Plan, Busy
  <2>2. wk' = [wk EXCEPT ![w] = k]  BY <1>9, <1>0 DEF LoopDefer
  <2>3. WkType'  BY <2>1, <2>2, <1>s
  <2> QED  BY <1>9, <1>k, <2>3 DEF LoopDefer
<1>10. CASE LoopDone(w)
  <2>1. WkType'  BY <1>10, ReturnStep DEF LoopDone, WkType
  <2> QED  BY <1>10, <1>k, <2>1 DEF LoopDone
<1> QED  BY <1>1, <1>2, <1>3, <1>4, <1>5, <1>6, <1>7, <1>8, <1>9, <1>10

(* The attempt, up to the release of the row.                              *)
LEMMA AttemptType ==
  ASSUME TypeInv, NEW w \in Workers,
         \/ Claim(w) \/ ReadHistory(w) \/ QueryThrows(w) \/ ReadContent(w)
         \/ Check(w) \/ Release(w) \/ AttemptThrows(w) \/ SendCached(w)
         \/ PlatformAccepts(w) \/ PlatformRejects(w) \/ AnswerArrives(w)
         \/ AnswerLost(w)
  PROVE  TypeInv'
<1> USE TypeParts
<1> DEFINE p == wk[w].job
<1>0. wk[w] \in Worker /\ wk \in [Workers -> Worker]
      /\ (wk[w].pc \in Busy => p \in Posts)
  BY DEF WkType, JobOK
<1>k. /\ UNCHANGED <<rowVars, envVars, logVars, platVars>>
         => RowType' /\ EnvType' /\ LogType' /\ PlatType'
      /\ UNCHANGED <<envVars, logVars, platVars>>
         => EnvType' /\ LogType' /\ PlatType'
      /\ UNCHANGED <<rowVars, envVars, logVars>>
         => RowType' /\ EnvType' /\ LogType'
  BY Kept
<1>g. ASSUME wk[w].pc \in Busy, NEW l \in PC, Goto(w, l) PROVE WkType'
  BY <1>0, <1>g, GotoStep DEF WkType
<1>r. ASSUME Return(w) PROVE WkType'  BY <1>r, ReturnStep DEF WkType
<1>t. ASSUME NEW source, NEW target \in Status, Transition(p, source, target)
      PROVE  RowType'
  BY <1>t, TransitionType DEF RowType
<1>1. CASE Claim(w)
  <2>1. RowType'  BY <1>1, <1>t DEF Claim, Status
  <2>2. WkType'
    <3> DEFINE k == [wk[w] EXCEPT !.pc = "history", !.from = {}]
    <3>1. k \in Worker /\ k.job = p  BY <1>0 DEF Worker, PC, Holding
    <3>2. p \in Posts  BY <1>1, <1>0 DEF Claim, At, Busy, PC
    <3>3. CASE wk' = [wk EXCEPT ![w] = k]
      BY <3>1, <3>2, <3>3, <1>0 DEF WkType, JobOK
    <3>4. wk' = [wk EXCEPT ![w] = k] \/ Return(w)  BY <1>1, <1>0 DEF Claim
    <3> QED  BY <3>3, <3>4, <1>r
  <2> QED  BY <1>1, <1>k, <2>1, <2>2 DEF Claim
<1>2. CASE ReadHistory(w)
  <2> DEFINE n == fails[p] + 1
             l == IF Evidence(p) THEN "idemSettle" ELSE "content"
             k == [wk[w] EXCEPT !.attempt = n, !.pc = l]
  <2>1. p \in Posts  BY <1>2, <1>0 DEF ReadHistory, At, Busy, PC, Holding
  <2>2. n \in Nat /\ l \in PC  BY <2>1 DEF LogType, PC, Holding
  <2>3. wk' = [wk EXCEPT ![w] = k]  BY <1>2, <1>0 DEF ReadHistory
  <2> HIDE DEF n, l
  <2>4. k \in Worker /\ k.job = p  BY <1>0, <2>2 DEF Worker
  <2>5. WkType'  BY <2>1, <2>3, <2>4, <1>0 DEF WkType, JobOK
  <2> QED  BY <1>2, <1>k, <2>5 DEF ReadHistory
<1>3. CASE QueryThrows(w)
  BY <1>3, <1>k, <1>r DEF QueryThrows
<1>4. CASE ReadContent(w) \/ Check(w) \/ AttemptThrows(w) \/ SendCached(w)
  <2>1. wk[w].pc \in Busy
    BY <1>4 DEF ReadContent, Check, AttemptThrows, SendCached, At, Busy, PC, Holding
  <2>2. \E l \in {"checks", "cancelSelf", "skip", "send", "catch", "settlePub"} : Goto(w, l)
    BY <1>4 DEF ReadContent, Check, AttemptThrows, SendCached
  <2>3. WkType'  BY <2>1, <2>2, <1>g DEF PC, Holding
  <2> QED  BY <1>4, <1>k, <2>3 DEF ReadContent, Check, AttemptThrows, SendCached
<1>5. CASE Release(w)
  <2>1. wk[w].pc \in Busy  BY <1>5 DEF Release, At, Busy, PC, Holding
  <2>2. RowType'
    BY <1>5, <1>0, <1>t DEF Release, Worker, Resting, Status
  <2>3. WkType'  BY <1>5, <2>1, <1>g, <1>r DEF Release, PC
  <2> QED  BY <1>5, <1>k, <2>2, <2>3 DEF Release
<1>6. CASE PlatformAccepts(w) \/ PlatformRejects(w)
  <2>1. wk[w].pc \in Busy
    BY <1>6 DEF PlatformAccepts, PlatformRejects, PlatformCall, At, Busy, PC, Holding
  <2>2. RowType' /\ EnvType' /\ LogType'
    BY <1>6, <1>k DEF PlatformAccepts, PlatformRejects, PlatformCall
  <2>3. WkType'
    BY <1>6, <2>1, <1>g DEF PlatformAccepts, PlatformRejects, PC, Holding
  <2>4. late' \in Nat /\ UNCHANGED <<lost, faults>>
    BY <1>6 DEF PlatformAccepts, PlatformRejects, PlatformCall, PlatType
  <2>5. delivered' \in [Posts -> Nat]
    BY <1>6, <2>1, <1>0 DEF PlatformAccepts, PlatformRejects, PlatType
  <2>6. registry' \in [Posts -> SUBSET Nat]
    <3>1. registry' = registry \/ Register(w)
      BY <1>6 DEF PlatformAccepts, PlatformRejects
    <3>2. wk[w].attempt \in Nat  BY <1>0 DEF Worker
    <3> QED  BY <3>1, <3>2 DEF Register, PlatType
  <2>7. PlatType'  BY <2>4, <2>5, <2>6 DEF PlatType
  <2> QED  BY <2>2, <2>3, <2>7
<1>7. CASE AnswerArrives(w)
  <2>1. wk[w].pc \in Busy  BY <1>7 DEF AnswerArrives, At, Busy, PC, Holding
  <2>2. RowType' /\ EnvType' /\ LogType'  BY <1>7, <1>k DEF AnswerArrives
  <2>3. WkType'  BY <1>7, <2>1, <1>g DEF AnswerArrives, PC, Holding
  <2>4. wk[w].attempt \in Nat  BY <1>0 DEF Worker
  <2>5. registry' \in [Posts -> SUBSET Nat]
    BY <1>7, <2>4 DEF AnswerArrives, Register, PlatType
  <2>6. PlatType'  BY <1>7, <2>5 DEF AnswerArrives, PlatType
  <2> QED  BY <2>2, <2>3, <2>6
<1>8. CASE AnswerLost(w)
  <2>1. wk[w].pc \in Busy  BY <1>8 DEF AnswerLost, At, Busy, PC, Holding
  <2>2. RowType' /\ EnvType' /\ LogType'  BY <1>8, <1>k DEF AnswerLost
  <2>3. WkType'  BY <1>8, <2>1, <1>g DEF AnswerLost, PC, Holding
  <2>4. PlatType'  BY <1>8, <2>1, <1>0 DEF AnswerLost, PlatType
  <2> QED  BY <2>2, <2>3, <2>4
<1> QED  BY <1>1, <1>2, <1>3, <1>4, <1>5, <1>6, <1>7, <1>8

(* Settling, the logs and the dead-letter check.                           *)
LEMMA SettleType ==
  ASSUME TypeInv, NEW w \in Workers,
         \/ SettlePublished(w) \/ PinThrows(w) \/ LogPublished(w)
         \/ SettleFailed(w) \/ LogFailed(w) \/ DeadLetter(w) \/ LogThrows(w)
         \/ AuditThrows(w)
  PROVE  TypeInv'
<1> USE TypeParts
<1> DEFINE p == wk[w].job
<1>0. wk[w] \in Worker /\ wk \in [Workers -> Worker]
      /\ (wk[w].pc \in Busy => p \in Posts)
  BY DEF WkType, JobOK
<1>k. /\ UNCHANGED <<rowVars, envVars, logVars, platVars>>
         => RowType' /\ EnvType' /\ LogType' /\ PlatType'
      /\ UNCHANGED <<envVars, logVars, platVars>>
         => EnvType' /\ LogType' /\ PlatType'
      /\ UNCHANGED <<rowVars, envVars, platVars>>
         => RowType' /\ EnvType' /\ PlatType'
  BY Kept
<1>g. ASSUME wk[w].pc \in Busy, NEW l \in PC, Goto(w, l) PROVE WkType'
  BY <1>0, <1>g, GotoStep DEF WkType
<1>r. ASSUME Return(w) PROVE WkType'  BY <1>r, ReturnStep DEF WkType
<1>t. ASSUME NEW source, NEW target \in Status, Transition(p, source, target)
      PROVE  RowType'
  BY <1>t, TransitionType DEF RowType
<1>1. CASE SettlePublished(w) \/ SettleFailed(w)
  <2>1. wk[w].pc \in Busy  BY <1>1 DEF SettlePublished, SettleFailed, Busy, PC, Holding
  <2>2. RowType'  BY <1>1, <1>t DEF SettlePublished, SettleFailed, Status
  <2>3. \E l \in {"logPub", "logFail", "catchLog"} : Goto(w, l)
    BY <1>1 DEF SettlePublished, SettleFailed
  <2>4. WkType'  BY <2>1, <2>3, <1>g DEF PC
  <2> QED  BY <1>1, <1>k, <2>2, <2>4 DEF SettlePublished, SettleFailed
<1>2. CASE PinThrows(w)
  <2>1. wk[w].pc \in Busy  BY <1>2 DEF PinThrows, At, Busy, PC, Holding
  <2>2. WkType'  BY <1>2, <2>1, <1>g DEF PinThrows, PC
  <2> QED  BY <1>2, <1>k, <2>2 DEF PinThrows
<1>3. CASE LogPublished(w)
  <2>1. LogType'  BY <1>3 DEF LogPublished, LogType
  <2>2. WkType'  BY <1>3, <1>r DEF LogPublished
  <2> QED  BY <1>3, <1>k, <2>1, <2>2 DEF LogPublished
<1>4. CASE LogFailed(w) \/ AuditThrows(w)
  <2>1. wk[w].pc \in Busy  BY <1>4 DEF LogFailed, AuditThrows, At, Busy, PC, Holding
  <2>2. LogType'  BY <1>4, <2>1, <1>0 DEF LogFailed, AuditThrows, LogType
  <2>3. WkType'  BY <1>4, <2>1, <1>g, <1>r DEF LogFailed, AuditThrows, PC
  <2> QED  BY <1>4, <1>k, <2>2, <2>3 DEF LogFailed, AuditThrows
<1>5. CASE DeadLetter(w)
  <2>1. RowType'  BY <1>5, <1>t DEF DeadLetter, Status
  <2>2. WkType'  BY <1>5, <1>r DEF DeadLetter
  <2> QED  BY <1>5, <1>k, <2>1, <2>2 DEF DeadLetter
<1>6. CASE LogThrows(w)
  <2>1. RowType' /\ EnvType' /\ LogType' /\ PlatType'  BY <1>6, <1>k DEF LogThrows
  <2>2. CASE At(w, "logFail") /\ Goto(w, "recatch")
    BY <2>1, <2>2, <1>g DEF At, Busy, PC, Holding
  <2>3. CASE Return(w)
    BY <2>1, <2>3, <1>r
  <2>4. CASE At(w, "logFail") /\ ~Goto(w, "recatch") /\ ~Return(w)
    <3> DEFINE k == [wk[w] EXCEPT !.pc = "recover", !.job = NoPost,
                                  !.attempt = 0, !.snap[p] = "none"]
    <3>1. p \in Posts  BY <2>4, <1>0 DEF At, Busy, PC, Holding
    <3>2. k \in Worker /\ k.pc \notin Busy
      BY <3>1, <1>0 DEF Worker, PC, Plan, Busy
    <3>3. wk' = [wk EXCEPT ![w] = k]  BY <1>6, <2>4, <1>0 DEF LogThrows, At
    <3>4. WkType'  BY <3>2, <3>3, <1>0 DEF WkType, JobOK
    <3> QED  BY <2>1, <3>4
  <2> QED  BY <1>6, <2>2, <2>3, <2>4 DEF LogThrows
<1> QED  BY <1>1, <1>2, <1>3, <1>4, <1>5, <1>6

(* Operators' clicks.                                                      *)
LEMMA ClickType ==
  ASSUME TypeInv, NEW w \in Workers,
         \/ \E p \in Posts : Click(w, p)
         \/ RequeueLog(w) \/ RescheduleWrite(w)
  PROVE  TypeInv'
<1> USE TypeParts
<1>0. wk[w] \in Worker /\ wk \in [Workers -> Worker]  BY DEF WkType
<1>k. /\ UNCHANGED rowVars => RowType'
      /\ UNCHANGED envVars => EnvType'
      /\ UNCHANGED logVars => LogType'
      /\ UNCHANGED platVars => PlatType'
  BY Kept
<1>s. ASSUME NEW k \in Worker, wk' = [wk EXCEPT ![w] = k], k.job \in Posts
      PROVE  WkType'
  BY <1>0, <1>s DEF WkType, JobOK
<1>r. ASSUME Return(w) PROVE WkType'  BY <1>r, ReturnStep DEF WkType
<1>1. ASSUME NEW p \in Posts, PublishNow(w, p) PROVE TypeInv'
  <2> DEFINE k == Entered(wk[w], p, Resting)
  <2>1. k \in Worker /\ k.job \in Posts
    BY <1>0 DEF Entered, Worker, Plan, PC, Resting
  <2>2. wk' = [wk EXCEPT ![w] = k]  BY <1>1, <1>0 DEF PublishNow
  <2>3. WkType'  BY <2>1, <2>2, <1>s
  <2> QED  BY <1>1, <1>k, <2>3 DEF PublishNow
<1>2. ASSUME NEW p \in Posts, Requeue(w, p) PROVE TypeInv'
  <2> DEFINE k == [wk[w] EXCEPT !.pc = "requeueLog", !.job = p]
  <2>1. k \in Worker /\ k.job \in Posts  BY <1>0 DEF Worker, PC
  <2>2. wk' = [wk EXCEPT ![w] = k]  BY <1>2, <1>0 DEF Requeue
  <2>3. WkType'  BY <2>1, <2>2, <1>s
  <2>4. RowType'  BY <1>2, TransitionType DEF Requeue, Status, RowType
  <2> QED  BY <1>2, <1>k, <2>3, <2>4 DEF Requeue
<1>3. ASSUME NEW p \in Posts, Reschedule(w, p) PROVE TypeInv'
  <2> DEFINE k == [wk[w] EXCEPT !.pc = "reschedule", !.job = p]
  <2>1. k \in Worker /\ k.job \in Posts  BY <1>0 DEF Worker, PC
  <2>2. wk' = [wk EXCEPT ![w] = k]  BY <1>3, <1>0 DEF Reschedule
  <2>3. WkType'  BY <2>1, <2>2, <1>s
  <2> QED  BY <1>3, <1>k, <2>3 DEF Reschedule
<1>4. CASE RequeueLog(w)
  <2>1. LogType'  BY <1>4 DEF RequeueLog, LogType
  <2>2. WkType'  BY <1>4, <1>r DEF RequeueLog
  <2> QED  BY <1>4, <1>k, <2>1, <2>2 DEF RequeueLog
<1>5. CASE RescheduleWrite(w)
  <2>1. RowType' /\ EnvType'  BY <1>5 DEF RescheduleWrite, RowType, EnvType
  <2>2. WkType'  BY <1>5, <1>r DEF RescheduleWrite
  <2> QED  BY <1>5, <1>k, <2>1, <2>2 DEF RescheduleWrite
<1> QED  BY <1>1, <1>2, <1>3, <1>4, <1>5 DEF Click

(* Operators' cancellations, time, gates, crashes.                         *)
LEMMA EnvironmentType ==
  ASSUME TypeInv,
         \/ \E p \in Posts : \/ Cancel(p) \/ Demote(p) \/ BecomesDue(p)
                             \/ BackoffElapses(p) \/ ClaimAges(p)
         \/ \E g \in AllGates : CloseGate(g) \/ OpenGate(g)
         \/ \E w \in Workers : Die(w)
         \/ Restart
  PROVE  TypeInv'
<1> USE TypeParts
<1>k. /\ UNCHANGED rowVars => RowType'
      /\ UNCHANGED envVars => EnvType'
      /\ UNCHANGED logVars => LogType'
      /\ UNCHANGED platVars => PlatType'
      /\ UNCHANGED wk => WkType'
  BY Kept
<1>1. ASSUME NEW p \in Posts, Cancel(p) PROVE TypeInv'
  <2>1. RowType'  BY <1>1, TransitionType DEF Cancel, Status, RowType
  <2> QED  BY <1>1, <1>k, <2>1 DEF Cancel
<1>2. ASSUME NEW p \in Posts, Demote(p) \/ BecomesDue(p) PROVE TypeInv'
  <2>1. EnvType'  BY <1>2 DEF Demote, BecomesDue, EnvType
  <2> QED  BY <1>2, <1>k, <2>1 DEF Demote, BecomesDue
<1>3. ASSUME NEW p \in Posts, BackoffElapses(p) PROVE TypeInv'
  <2>1. LogType'  BY <1>3 DEF BackoffElapses, LogType
  <2> QED  BY <1>3, <1>k, <2>1 DEF BackoffElapses
<1>4. ASSUME NEW p \in Posts, ClaimAges(p) PROVE TypeInv'
  <2>1. RowType'  BY <1>4 DEF ClaimAges, RowType
  <2> QED  BY <1>4, <1>k, <2>1 DEF ClaimAges
<1>5. ASSUME NEW g \in AllGates, CloseGate(g) \/ OpenGate(g) PROVE TypeInv'
  <2>1. EnvType'  BY <1>5 DEF CloseGate, OpenGate, EnvType
  <2>2. PlatType'  BY <1>5 DEF CloseGate, OpenGate, PlatType, platVars
  <2> QED  BY <1>5, <1>k, <2>1, <2>2 DEF CloseGate, OpenGate
<1>6. ASSUME NEW w \in Workers, Die(w) PROVE TypeInv'
  <2>1. RowType'  BY <1>6 DEF Die, RowType
  <2>2. PlatType'
    <3>1. lost' \in [Posts -> Nat]
      BY <1>6 DEF Die, At, WkType, JobOK, Busy, PC, Holding, PlatType
    <3> QED  BY <1>6, <3>1 DEF Die, PlatType
  <2>3. WkType'  BY <1>6, IdleType DEF Die, WkType, JobOK, Busy
  <2> QED  BY <1>6, <1>k, <2>1, <2>2, <2>3 DEF Die
<1>7. CASE Restart
  <2>1. RowType'  BY <1>7 DEF Restart, RowType
  <2>2. PlatType'  BY <1>7 DEF Restart, PlatType
  <2>3. WkType'  BY <1>7, IdleType DEF Restart, WkType, JobOK, Busy
  <2> QED  BY <1>7, <1>k, <2>1, <2>2, <2>3 DEF Restart
<1> QED  BY <1>1, <1>2, <1>3, <1>4, <1>5, <1>6, <1>7

(* TypeInv is inductive.                                                   *)
LEMMA TypeStep == TypeInv /\ [Next]_vars => TypeInv'
<1> SUFFICES ASSUME TypeInv, [Next]_vars PROVE TypeInv'
  OBVIOUS
<1>1. CASE UNCHANGED vars
  BY <1>1, Kept, TypeParts DEF vars
<1>2. ASSUME NEW w \in Workers, TickStart(w) \/ Step(w) \/ Die(w)
      PROVE  TypeInv'
  BY <1>2, TickType, AttemptType, SettleType, ClickType, EnvironmentType DEF Step
<1>3. ASSUME NEW w \in Workers, NEW p \in Posts, Click(w, p)
      PROVE  TypeInv'
  BY <1>3, ClickType
<1>4. CASE \/ \E p \in Posts : \/ Cancel(p) \/ Demote(p) \/ BecomesDue(p)
                              \/ BackoffElapses(p) \/ ClaimAges(p)
           \/ \E g \in AllGates : CloseGate(g) \/ OpenGate(g)
           \/ Restart
  BY <1>4, EnvironmentType
<1> QED  BY <1>1, <1>2, <1>3, <1>4 DEF Next

(* All variables keep their types, and a worker past its claim names a post. *)
THEOREM TypeCorrect == Spec => []TypeOK
<1>1. Spec => []TypeInv  BY InitType, TypeStep, PTL DEF Spec
<1>2. TypeInv => TypeOK  BY DEF TypeInv
<1> QED  BY <1>1, <1>2, PTL

---------------------------------------------------------------------------
(* What is reported as published was delivered.  The invariant follows the
   knowledge of a delivery from the platform to the registry, the log, the
   plans of the ticks and the row; the number of deliveries never falls.   *)

Reporting == {"accepted", "idemSettle", "settlePub", "recoverSettle", "logPub"}
Reported(p) ==
  \/ status[p] = "published" \/ Evidence(p)
  \/ \E w \in Workers : \/ wk[w].pc \in Reporting /\ wk[w].job = p
                       \/ wk[w].snap[p] = "sent"
DeliveryInv == \A p \in Posts : Reported(p) => delivered[p] >= 1

(* What a step may do to a worker without adding a report: leave it alone,
   or move it where it reports only what is reported already. *)
Quiet(v) ==
  \/ wk'[v] = wk[v]
  \/ /\ \A p \in Posts : wk'[v].snap[p] = "sent" => wk[v].snap[p] = "sent" \/ plogged[p]
     /\ wk'[v].pc \in Reporting => wk'[v].job \in Posts /\ Reported(wk'[v].job)

(* A step that delivers nothing and adds no report preserves DeliveryInv.  *)
LEMMA QuietStep ==
  ASSUME DeliveryInv, delivered' = delivered,
         \A v \in Workers : Quiet(v),
         \A p \in Posts : status'[p] = "published" \/ Evidence(p)' => Reported(p)
  PROVE  DeliveryInv'
<1> SUFFICES ASSUME NEW p \in Posts, Reported(p)' PROVE delivered[p] >= 1
  BY DEF DeliveryInv
<1>1. CASE status'[p] = "published" \/ Evidence(p)'
  BY <1>1 DEF DeliveryInv
<1>2. CASE \E v \in Workers : \/ wk'[v].pc \in Reporting /\ wk'[v].job = p
                           \/ wk'[v].snap[p] = "sent"
  <2>1. PICK v \in Workers : \/ wk'[v].pc \in Reporting /\ wk'[v].job = p
                            \/ wk'[v].snap[p] = "sent"
    BY <1>2
  <2>2. CASE wk'[v] = wk[v]  BY <2>1, <2>2 DEF DeliveryInv, Reported
  <2>3. CASE wk'[v] # wk[v]
    <3>1. Reported(p)  BY <2>1, <2>3 DEF Quiet, Reported, Evidence
    <3> QED  BY <3>1 DEF DeliveryInv
  <2> QED  BY <2>2, <2>3
<1> QED  BY <1>1, <1>2 DEF Reported

(* Moving on with the same locals adds no report, ...                      *)
LEMMA GotoQuiet ==
  ASSUME TypeInv, NEW w \in Workers, NEW l \in PC, Goto(w, l),
         l \in Busy => wk[w].job \in Posts,
         l \in Reporting => Reported(wk[w].job)
  PROVE  \A v \in Workers : Quiet(v)
<1>1. \A v \in Workers \ {w} : wk'[v] = wk[v]  BY GotoStep
<1>2. wk'[w] = [wk[w] EXCEPT !.pc = l] /\ wk[w] \in Worker
  BY GotoStep DEF TypeInv, TypeOK
<1>3. wk'[w].pc = l /\ wk'[w].job = wk[w].job /\ wk'[w].snap = wk[w].snap
  BY <1>2 DEF Worker
<1>4. Quiet(w)  BY <1>3 DEF Quiet, Reporting, Busy, PC, Holding
<1> QED  BY <1>1, <1>4 DEF Quiet

(* ... neither does leaving the post in hand, ...                          *)
LEMMA ReturnQuiet ==
  ASSUME TypeInv, NEW w \in Workers, Return(w)
  PROVE  \A v \in Workers : Quiet(v)
BY ReturnStep DEF Quiet, Reporting, Nothing

(* ... nor any new locals that report only what is reported already.        *)
LEMMA SetQuiet ==
  ASSUME TypeInv, NEW w \in Workers, NEW k, wk' = [wk EXCEPT ![w] = k],
         \A p \in Posts : k.snap[p] = "sent" => wk[w].snap[p] = "sent" \/ plogged[p],
         k.pc \in Reporting => k.job \in Posts /\ Reported(k.job)
  PROVE  \A v \in Workers : Quiet(v)
<1>1. wk \in [Workers -> Worker]  BY DEF TypeInv, TypeOK
<1> QED  BY <1>1 DEF Quiet

(* A row becomes published only where a report exists already.             *)
LEMMA TransitionReports ==
  ASSUME TypeInv, NEW p \in Posts, NEW source, NEW target,
         Transition(p, source, target), target = "published" => Reported(p)
  PROVE  \A q \in Posts : status'[q] = "published" => Reported(q)
BY DEF TypeInv, TypeOK, Transition, rowVars, Reported

(* Variables left alone report nothing new.                                *)
LEMMA SameReports ==
  /\ UNCHANGED rowVars =>
       \A p \in Posts : status'[p] = "published" => Reported(p)
  /\ UNCHANGED plogged /\ UNCHANGED registry =>
       \A p \in Posts : Evidence(p)' => Reported(p)
  /\ UNCHANGED logVars => UNCHANGED plogged
  /\ UNCHANGED platVars => UNCHANGED <<registry, delivered>>
BY DEF rowVars, logVars, platVars, Reported, Evidence

(* The steps of a tick preserve DeliveryInv.                               *)
LEMMA TickDelivery ==
  ASSUME TypeInv, DeliveryInv, NEW w \in Workers,
         \/ TickStart(w) \/ RecoverLogs(w) \/ RecoverFail(w)
         \/ ReadControls(w) \/ Select(w) \/ LoopDone(w)
         \/ \E p \in Posts : \/ RecoverRow(w, p) \/ Park(w, p)
                             \/ LoopTake(w, p) \/ LoopDefer(w, p)
  PROVE  DeliveryInv'
<1>0. wk[w] \in Worker /\ wk \in [Workers -> Worker]
      /\ (wk[w].pc \in Busy => wk[w].job \in Posts)
  BY DEF TypeInv, TypeOK, JobOK
<1>q. ASSUME \A v \in Workers : Quiet(v), UNCHANGED <<logVars, platVars>>,
             \A p \in Posts : status'[p] = "published" => Reported(p)
      PROVE  DeliveryInv'
  BY <1>q, QuietStep, SameReports
<1>1. CASE TickStart(w)
  <2> DEFINE plan == [p1 \in Posts |->
        CASE status[p1] = "publishing" /\ p1 \in aged -> "stale"
          [] status[p1] = "scheduled" /\ p1 \in due -> "scheduled"
          [] status[p1] = "failed" -> "failed"
          [] OTHER -> "none"]
             k == [wk[w] EXCEPT !.pc = "recoverLogs", !.ret = "recover", !.snap = plan]
  <2>1. \A p \in Posts : plan[p] # "sent"  OBVIOUS
  <2>2. wk' = [wk EXCEPT ![w] = k]  BY <1>1, <1>0 DEF TickStart
  <2> HIDE DEF plan
  <2>3. k.snap = plan /\ k.pc = "recoverLogs"  BY <1>0 DEF Worker
  <2> HIDE DEF k
  <2>4. \A v \in Workers : Quiet(v)  BY <2>1, <2>2, <2>3, SetQuiet DEF Reporting
  <2>5. \A p \in Posts : status'[p] = "published" => Reported(p)
    BY <1>1 DEF TickStart, Reported
  <2> QED  BY <1>1, <2>4, <2>5, <1>q DEF TickStart
<1>2. CASE RecoverLogs(w)
  <2> DEFINE stale == {q \in Posts : wk[w].snap[q] = "stale"}
             reads == [q \in Posts |-> IF q \in stale THEN fails[q] ELSE 0]
             plan == [q \in Posts |-> IF q \in stale /\ plogged[q] THEN "sent"
                                      ELSE wk[w].snap[q]]
             k == [wk[w] EXCEPT !.pc = "recover", !.seen = reads, !.snap = plan]
  <2>1. \A p \in Posts : plan[p] = "sent" => wk[w].snap[p] = "sent" \/ plogged[p]
    OBVIOUS
  <2>2. wk' = [wk EXCEPT ![w] = k]  BY <1>2, <1>0 DEF RecoverLogs
  <2> HIDE DEF plan, reads
  <2>3. k.snap = plan /\ k.pc = "recover"  BY <1>0 DEF Worker
  <2> HIDE DEF k
  <2>4. \A v \in Workers : Quiet(v)  BY <2>1, <2>2, <2>3, SetQuiet DEF Reporting
  <2> QED  BY <1>2, <2>4, <1>q, SameReports DEF RecoverLogs
<1>3. ASSUME NEW p \in Posts, RecoverRow(w, p) PROVE DeliveryInv'
  <2> DEFINE n == wk[w].seen[p] + 1
             l == IF wk[w].snap[p] = "sent" \/ registry[p] # {}
                  THEN "recoverSettle" ELSE "recoverFail"
             k == [wk[w] EXCEPT !.job = p, !.snap[p] = "none", !.seen[p] = 0,
                                !.attempt = n, !.pc = l]
  <2>1. wk' = [wk EXCEPT ![w] = k]  BY <1>3, <1>0 DEF RecoverRow
  <2>2. l \in Reporting => Reported(p)  BY DEF Reporting, Reported, Evidence
  <2> HIDE DEF n, l
  <2>3. k.pc = l /\ k.job = p /\ \A q \in Posts : k.snap[q] = "sent" => wk[w].snap[q] = "sent"
    BY <1>0 DEF Worker
  <2> HIDE DEF k
  <2>4. k.pc \in Reporting => k.job \in Posts /\ Reported(k.job)  BY <2>2, <2>3
  <2>5. \A q \in Posts : k.snap[q] = "sent" => wk[w].snap[q] = "sent" \/ plogged[q]
    BY <2>3
  <2>6. \A v \in Workers : Quiet(v)  BY <2>1, <2>4, <2>5, SetQuiet
  <2> QED  BY <1>3, <2>6, <1>q, SameReports DEF RecoverRow
<1>4. CASE RecoverFail(w)
  <2> DEFINE q == wk[w].job
  <2>1. q \in Posts  BY <1>4, <1>0 DEF RecoverFail, At, Busy, PC
  <2>2. CASE <<w, q>> \in older /\ status[q] = "publishing"
    <3> DEFINE k == [wk[w] EXCEPT !.pc = "logFail", !.snap[q] = "failed"]
    <3>1. Transition(q, {"publishing"}, "failed") /\ wk' = [wk EXCEPT ![w] = k]
      BY <1>4, <1>0, <2>2 DEF RecoverFail
    <3>2. k.pc = "logFail" /\ \A r \in Posts : k.snap[r] = "sent" => wk[w].snap[r] = "sent"
      BY <1>0 DEF Worker
    <3> HIDE DEF k
    <3>3. \A v \in Workers : Quiet(v)  BY <3>1, <3>2, SetQuiet DEF Reporting
    <3> QED  BY <1>4, <2>1, <3>1, <3>3, <1>q, TransitionReports DEF RecoverFail
  <2>3. CASE ~(<<w, q>> \in older /\ status[q] = "publishing")
    <3>1. Return(w) /\ UNCHANGED rowVars  BY <1>4, <2>3 DEF RecoverFail
    <3> QED  BY <1>4, <3>1, <1>q, ReturnQuiet, SameReports DEF RecoverFail
  <2> QED  BY <2>2, <2>3
<1>5. CASE ReadControls(w)
  <2> DEFINE k == IF "disabled" \in gates THEN IdleWorker
                  ELSE [wk[w] EXCEPT !.pc = "select", !.ret = "loop"]
  <2>1. k.pc \in {"idle", "select"} /\ \A p \in Posts : k.snap[p] = "sent" => wk[w].snap[p] = "sent"
    BY <1>0 DEF Worker, IdleWorker, Nothing
  <2>2. wk' = [wk EXCEPT ![w] = k]  BY <1>5, <1>0 DEF ReadControls
  <2> HIDE DEF k
  <2> HIDE DEF k
  <2>3. \A v \in Workers : Quiet(v)  BY <2>1, <2>2, SetQuiet DEF Reporting
  <2>4. \A p \in Posts : status'[p] = "published" => Reported(p)
    BY <1>5 DEF ReadControls, Reported
  <2> QED  BY <1>5, <2>3, <2>4, <1>q DEF ReadControls
<1>6. CASE Select(w)
  <2> DEFINE old == wk[w].snap
             plan == [q \in Posts |->
               CASE old[q] # "failed" -> old[q]
                 [] old[q] = "failed" /\ fails[q] >= MaxAttempts -> "park"
                 [] old[q] = "failed" /\ fails[q] < MaxAttempts
                      /\ q \in due \ cooling -> "failed"
                 [] OTHER -> "none"]
             k == [wk[w] EXCEPT !.pc = "loop", !.snap = plan]
  <2>1. \A p \in Posts : plan[p] = "sent" => wk[w].snap[p] = "sent"  OBVIOUS
  <2>2. wk' = [wk EXCEPT ![w] = k]  BY <1>6, <1>0 DEF Select
  <2> HIDE DEF plan
  <2>3. k.snap = plan /\ k.pc = "loop"  BY <1>0 DEF Worker
  <2> HIDE DEF k
  <2>4. \A v \in Workers : Quiet(v)  BY <2>1, <2>2, <2>3, SetQuiet DEF Reporting
  <2> QED  BY <1>6, <2>4, <1>q, SameReports DEF Select
<1>7. ASSUME NEW p \in Posts, Park(w, p) \/ LoopDefer(w, p) PROVE DeliveryInv'
  <2> DEFINE k == [wk[w] EXCEPT !.snap[p] = "none"]
  <2>1. k.pc = "loop" /\ \A q \in Posts : k.snap[q] = "sent" => wk[w].snap[q] = "sent"
    BY <1>7, <1>0 DEF Worker, Park, LoopDefer, At
  <2>2. wk' = [wk EXCEPT ![w] = k]  BY <1>7, <1>0 DEF Park, LoopDefer
  <2> HIDE DEF k
  <2>3. \A v \in Workers : Quiet(v)  BY <2>1, <2>2, SetQuiet DEF Reporting
  <2>4. \A q \in Posts : status'[q] = "published" => Reported(q)
    BY <1>7, TransitionReports, SameReports DEF Park, LoopDefer
  <2> QED  BY <1>7, <2>3, <2>4, <1>q DEF Park, LoopDefer
<1>8. ASSUME NEW p \in Posts, LoopTake(w, p) PROVE DeliveryInv'
  <2> DEFINE k == Entered(wk[w], p, {wk[w].snap[p]})
  <2>1. k.pc = "claim" /\ \A q \in Posts : k.snap[q] = "sent" => wk[w].snap[q] = "sent"
    BY <1>0 DEF Worker, Entered
  <2>2. wk' = [wk EXCEPT ![w] = k]  BY <1>8, <1>0 DEF LoopTake
  <2> HIDE DEF k
  <2>3. \A v \in Workers : Quiet(v)  BY <2>1, <2>2, SetQuiet DEF Reporting
  <2> QED  BY <1>8, <2>3, <1>q, SameReports DEF LoopTake
<1>9. CASE LoopDone(w)
  BY <1>9, <1>q, ReturnQuiet, SameReports DEF LoopDone
<1> QED  BY <1>1, <1>2, <1>3, <1>4, <1>5, <1>6, <1>7, <1>8, <1>9

(* The steps of an attempt preserve it: the platform call delivers first. *)
LEMMA AttemptDelivery ==
  ASSUME TypeInv, DeliveryInv, NEW w \in Workers,
         \/ Claim(w) \/ ReadHistory(w) \/ QueryThrows(w) \/ ReadContent(w)
         \/ Check(w) \/ Release(w) \/ AttemptThrows(w) \/ SendCached(w)
         \/ PlatformAccepts(w) \/ PlatformRejects(w) \/ AnswerArrives(w)
         \/ AnswerLost(w)
  PROVE  DeliveryInv'
<1> DEFINE p == wk[w].job
<1>0. wk[w] \in Worker /\ wk \in [Workers -> Worker]
      /\ (wk[w].pc \in Busy => p \in Posts)
  BY DEF TypeInv, TypeOK, JobOK
<1>q. ASSUME \A v \in Workers : Quiet(v), UNCHANGED <<logVars, registry, delivered>>,
             \A q \in Posts : status'[q] = "published" => Reported(q)
      PROVE  DeliveryInv'
  BY <1>q, QuietStep, SameReports
<1>g. ASSUME wk[w].pc \in Busy, NEW l \in PC, Goto(w, l), l \in Reporting => Reported(p)
      PROVE  \A v \in Workers : Quiet(v)
  BY <1>g, <1>0, GotoQuiet
<1>p. UNCHANGED platVars => UNCHANGED <<registry, delivered>>  BY DEF platVars
<1>1. CASE Claim(w)
  <2>1. p \in Posts  BY <1>1, <1>0 DEF Claim, At, Busy, PC
  <2>2. \A q \in Posts : status'[q] = "published" => Reported(q)
    BY <1>1, <2>1, TransitionReports DEF Claim
  <2> DEFINE k == [wk[w] EXCEPT !.pc = "history", !.from = {}]
  <2>3. wk' = [wk EXCEPT ![w] = k] \/ Return(w)  BY <1>1, <1>0 DEF Claim
  <2>4. k.pc = "history" /\ k.snap = wk[w].snap  BY <1>0 DEF Worker
  <2> HIDE DEF k
  <2>5. \A v \in Workers : Quiet(v)
    BY <2>3, <2>4, SetQuiet, ReturnQuiet DEF Reporting
  <2> QED  BY <1>1, <2>2, <2>5, <1>q, <1>p DEF Claim
<1>2. CASE ReadHistory(w)
  <2> DEFINE n == fails[p] + 1
             l == IF Evidence(p) THEN "idemSettle" ELSE "content"
             k == [wk[w] EXCEPT !.attempt = n, !.pc = l]
  <2>1. p \in Posts  BY <1>2, <1>0 DEF ReadHistory, At, Busy, PC, Holding
  <2>2. wk' = [wk EXCEPT ![w] = k]  BY <1>2, <1>0 DEF ReadHistory
  <2>3. l \in Reporting => Reported(p)  BY DEF Reporting, Reported
  <2> HIDE DEF n, l
  <2>4. k.pc = l /\ k.job = p /\ k.snap = wk[w].snap  BY <1>0 DEF Worker
  <2> HIDE DEF k
  <2>5. k.pc \in Reporting => k.job \in Posts /\ Reported(k.job)  BY <2>1, <2>3, <2>4
  <2>6. \A q \in Posts : k.snap[q] = "sent" => wk[w].snap[q] = "sent" \/ plogged[q]
    BY <2>4
  <2>7. \A v \in Workers : Quiet(v)  BY <2>2, <2>5, <2>6, SetQuiet
  <2> QED  BY <1>2, <2>7, <1>q, <1>p, SameReports DEF ReadHistory
<1>3. CASE QueryThrows(w)
  BY <1>3, <1>q, <1>p, ReturnQuiet, SameReports DEF QueryThrows
<1>4. CASE ReadContent(w) \/ Check(w) \/ AttemptThrows(w)
  <2>1. wk[w].pc \in Busy
    BY <1>4 DEF ReadContent, Check, AttemptThrows, At, Busy, PC, Holding
  <2>2. \E l \in {"checks", "cancelSelf", "skip", "send", "catch"} : Goto(w, l)
    BY <1>4 DEF ReadContent, Check, AttemptThrows
  <2>3. \A v \in Workers : Quiet(v)  BY <2>1, <2>2, <1>g DEF PC, Holding, Reporting
  <2> QED  BY <1>4, <2>3, <1>q, <1>p, SameReports DEF ReadContent, Check, AttemptThrows
<1>5. CASE SendCached(w)
  <2>1. wk[w].pc \in Busy  BY <1>5 DEF SendCached, At, Busy, PC, Holding
  <2>2. Reported(p)  BY <1>5 DEF SendCached, Reported, Evidence
  <2>3. \A v \in Workers : Quiet(v)
    BY <1>5, <2>1, <2>2, <1>g DEF SendCached, PC, Holding
  <2> QED  BY <1>5, <2>3, <1>q, <1>p, SameReports DEF SendCached
<1>6. CASE Release(w)
  <2>1. wk[w].pc \in Busy  BY <1>6 DEF Release, At, Busy, PC, Holding
  <2>2. \A q \in Posts : status'[q] = "published" => Reported(q)
    <3>1. wk[w].prior # "published"  BY <1>0 DEF Worker, Resting
    <3> QED  BY <1>6, <1>0, <2>1, <3>1, TransitionReports DEF Release
  <2>3. \A v \in Workers : Quiet(v)
    BY <1>6, <2>1, <1>g, ReturnQuiet DEF Release, PC, Reporting
  <2> QED  BY <1>6, <2>2, <2>3, <1>q, <1>p DEF Release
<1>7. CASE PlatformRejects(w)
  <2>1. wk[w].pc \in Busy
    BY <1>7 DEF PlatformRejects, PlatformCall, At, Busy, PC, Holding
  <2>2. \A v \in Workers : Quiet(v)
    BY <1>7, <2>1, <1>g DEF PlatformRejects, PC, Holding, Reporting
  <2> QED  BY <1>7, <2>2, <1>q, SameReports DEF PlatformRejects, PlatformCall
<1>8. CASE AnswerLost(w)
  <2>1. wk[w].pc \in Busy  BY <1>8 DEF AnswerLost, At, Busy, PC, Holding
  <2>2. \A v \in Workers : Quiet(v)
    BY <1>8, <2>1, <1>g DEF AnswerLost, PC, Holding, Reporting
  <2> QED  BY <1>8, <2>2, <1>q, SameReports DEF AnswerLost
<1>9. CASE AnswerArrives(w)
  <2>1. wk[w].pc \in Busy  BY <1>9 DEF AnswerArrives, At, Busy, PC, Holding
  <2>2. Reported(p)  BY <1>9 DEF AnswerArrives, At, Reported, Reporting
  <2>3. \A v \in Workers : Quiet(v)
    BY <1>9, <2>1, <2>2, <1>g DEF AnswerArrives, PC, Holding
  <2>4. \A q \in Posts : Evidence(q)' => Reported(q)
    BY <1>9, <2>2 DEF AnswerArrives, Register, Evidence, Reported, TypeInv, TypeOK, logVars
  <2>5. \A q \in Posts : status'[q] = "published" => Reported(q)
    BY <1>9, SameReports DEF AnswerArrives
  <2> QED  BY <1>9, <2>3, <2>4, <2>5, QuietStep DEF AnswerArrives
<1>10. CASE PlatformAccepts(w)
  <2>1. wk[w].pc \in Busy /\ p \in Posts
    BY <1>10, <1>0 DEF PlatformAccepts, PlatformCall, At, Busy, PC, Holding
  <2>2. delivered' = [delivered EXCEPT ![p] = @ + 1] /\ UNCHANGED <<rowVars, logVars>>
    BY <1>10 DEF PlatformAccepts, PlatformCall
  <2>3. delivered'[p] >= 1  BY <2>1, <2>2 DEF TypeInv, TypeOK
  <2>4. ASSUME NEW q \in Posts, q # p, Reported(q)' PROVE delivered'[q] >= 1
    <3>1. delivered'[q] = delivered[q]  BY <2>1, <2>2, <2>4 DEF TypeInv, TypeOK
    <3>2. status'[q] = status[q] /\ Evidence(q)' = Evidence(q)
      BY <1>10, <2>1, <2>2, <2>4
      DEF PlatformAccepts, Register, Evidence, rowVars, logVars, TypeInv, TypeOK
    <3>3. \A v \in Workers \ {w} : wk'[v] = wk[v]
      BY <1>10, <1>0 DEF PlatformAccepts, Goto
    <3>4. wk'[w].snap = wk[w].snap /\ wk'[w].job = p
      BY <1>10, <1>0 DEF PlatformAccepts, Goto, Worker
    <3>5. Reported(q)  BY <2>4, <3>2, <3>3, <3>4 DEF Reported
    <3> QED  BY <3>1, <3>5 DEF DeliveryInv
  <2> QED  BY <2>3, <2>4 DEF DeliveryInv
<1> QED  BY <1>1, <1>2, <1>3, <1>4, <1>5, <1>6, <1>7, <1>8, <1>9, <1>10

(* The settling steps and the clicks preserve it.                          *)
LEMMA SettleDelivery ==
  ASSUME TypeInv, DeliveryInv, NEW w \in Workers,
         \/ SettlePublished(w) \/ PinThrows(w) \/ LogPublished(w)
         \/ SettleFailed(w) \/ LogFailed(w) \/ DeadLetter(w) \/ LogThrows(w)
         \/ AuditThrows(w) \/ RequeueLog(w) \/ RescheduleWrite(w)
         \/ \E p \in Posts : Click(w, p)
  PROVE  DeliveryInv'
<1> DEFINE p == wk[w].job
<1>0. wk[w] \in Worker /\ wk \in [Workers -> Worker]
      /\ (wk[w].pc \in Busy => p \in Posts)
  BY DEF TypeInv, TypeOK, JobOK
<1>q. ASSUME \A v \in Workers : Quiet(v), UNCHANGED <<plogged, platVars>>,
             \A q \in Posts : status'[q] = "published" => Reported(q)
      PROVE  DeliveryInv'
  BY <1>q, QuietStep, SameReports
<1>g. ASSUME wk[w].pc \in Busy, NEW l \in PC, Goto(w, l), l \in Reporting => Reported(p)
      PROVE  \A v \in Workers : Quiet(v)
  BY <1>g, <1>0, GotoQuiet
<1>l. UNCHANGED logVars => UNCHANGED plogged  BY DEF logVars
<1>1. CASE SettlePublished(w)
  <2>1. wk[w].pc \in Busy  BY <1>1 DEF SettlePublished, Busy, PC, Holding
  <2>2. Reported(p)  BY <1>1 DEF SettlePublished, Reported, Reporting
  <2>3. \A v \in Workers : Quiet(v)  BY <1>1, <2>1, <2>2, <1>g DEF SettlePublished, PC
  <2>4. \A q \in Posts : status'[q] = "published" => Reported(q)
    BY <1>1, <1>0, <2>1, <2>2, TransitionReports DEF SettlePublished
  <2> QED  BY <1>1, <2>3, <2>4, <1>q, <1>l DEF SettlePublished
<1>2. CASE PinThrows(w)
  <2>1. wk[w].pc \in Busy  BY <1>2 DEF PinThrows, At, Busy, PC, Holding
  <2>2. Reported(p)  BY <1>2 DEF PinThrows, At, Reported, Reporting
  <2>3. \A v \in Workers : Quiet(v)  BY <1>2, <2>1, <2>2, <1>g DEF PinThrows, PC
  <2> QED  BY <1>2, <2>3, <1>q, <1>l, SameReports DEF PinThrows
<1>3. CASE LogPublished(w)
  <2>1. Reported(p)  BY <1>3 DEF LogPublished, At, Reported, Reporting
  <2>2. \A q \in Posts : Evidence(q)' => Reported(q)
    BY <1>3, <2>1 DEF LogPublished, Evidence, Reported, TypeInv, TypeOK, platVars
  <2>3. \A v \in Workers : Quiet(v)  BY <1>3, ReturnQuiet DEF LogPublished
  <2> QED  BY <1>3, <2>2, <2>3, QuietStep, SameReports DEF LogPublished
<1>4. CASE SettleFailed(w)
  <2>1. wk[w].pc \in Busy  BY <1>4 DEF SettleFailed, Busy, PC, Holding
  <2>2. \A v \in Workers : Quiet(v)
    BY <1>4, <2>1, <1>g DEF SettleFailed, PC, Reporting
  <2>3. \A q \in Posts : status'[q] = "published" => Reported(q)
    BY <1>4, <1>0, <2>1, TransitionReports DEF SettleFailed
  <2> QED  BY <1>4, <2>2, <2>3, <1>q, <1>l DEF SettleFailed
<1>5. CASE LogFailed(w) \/ AuditThrows(w)
  <2>1. wk[w].pc \in Busy  BY <1>5 DEF LogFailed, AuditThrows, At, Busy, PC, Holding
  <2>2. \A v \in Workers : Quiet(v)
    BY <1>5, <2>1, <1>g, ReturnQuiet DEF LogFailed, AuditThrows, PC, Reporting
  <2> QED  BY <1>5, <2>2, <1>q, SameReports DEF LogFailed, AuditThrows
<1>6. CASE DeadLetter(w)
  <2>1. p \in Posts  BY <1>6, <1>0 DEF DeadLetter, At, Busy, PC, Holding
  <2> QED
    BY <1>6, <2>1, <1>q, <1>l, ReturnQuiet, TransitionReports DEF DeadLetter
<1>7. CASE LogThrows(w)
  <2>1. CASE At(w, "logFail") /\ Goto(w, "recatch")
    <3>1. \A v \in Workers : Quiet(v)
      BY <2>1, <1>g DEF At, Busy, PC, Holding, Reporting
    <3> QED  BY <1>7, <3>1, <1>q, <1>l, SameReports DEF LogThrows
  <2>2. CASE Return(w)
    BY <1>7, <2>2, <1>q, <1>l, ReturnQuiet, SameReports DEF LogThrows
  <2>3. CASE At(w, "logFail") /\ ~Goto(w, "recatch") /\ ~Return(w)
    <3> DEFINE k == [wk[w] EXCEPT !.pc = "recover", !.job = NoPost,
                                  !.attempt = 0, !.snap[p] = "none"]
    <3>1. wk' = [wk EXCEPT ![w] = k]  BY <1>7, <2>3, <1>0 DEF LogThrows, At
    <3>2. k.pc = "recover" /\ \A q \in Posts : k.snap[q] = "sent" => wk[w].snap[q] = "sent"
      BY <1>0 DEF Worker
    <3> HIDE DEF k
    <3>3. \A v \in Workers : Quiet(v)  BY <3>1, <3>2, SetQuiet DEF Reporting
    <3> QED  BY <1>7, <3>3, <1>q, <1>l, SameReports DEF LogThrows
  <2> QED  BY <1>7, <2>1, <2>2, <2>3 DEF LogThrows
<1>8. CASE RequeueLog(w)
  BY <1>8, <1>q, ReturnQuiet, SameReports DEF RequeueLog
<1>9. CASE RescheduleWrite(w)
  <2>1. \A q \in Posts : status'[q] = "published" => Reported(q)
    BY <1>9 DEF RescheduleWrite, Reported
  <2> QED  BY <1>9, <2>1, <1>q, <1>l, ReturnQuiet DEF RescheduleWrite
<1>10. ASSUME NEW r \in Posts, Click(w, r) PROVE DeliveryInv'
  <2>1. \A q \in Posts : status'[q] = "published" => Reported(q)
    BY <1>10, TransitionReports, SameReports DEF Click, PublishNow, Requeue, Reschedule
  <2>2. PICK k : /\ wk' = [wk EXCEPT ![w] = k] /\ k.pc \notin Reporting
                 /\ \A q \in Posts : k.snap[q] = "sent" => wk[w].snap[q] = "sent"
    <3>1. CASE PublishNow(w, r)
      <4> DEFINE e == Entered(wk[w], r, Resting)
      <4>1. wk' = [wk EXCEPT ![w] = e]  BY <3>1, <1>0 DEF PublishNow
      <4>2. e.pc \notin Reporting
            /\ \A q \in Posts : e.snap[q] = "sent" => wk[w].snap[q] = "sent"
        BY <1>0 DEF Entered, Worker, Reporting
      <4> QED  BY <4>1, <4>2
    <3>2. CASE Requeue(w, r) \/ Reschedule(w, r)
      <4> DEFINE e(l) == [wk[w] EXCEPT !.pc = l, !.job = r]
      <4>1. \E l \in {"requeueLog", "reschedule"} : wk' = [wk EXCEPT ![w] = e(l)]
        BY <3>2, <1>0 DEF Requeue, Reschedule
      <4>2. \A l \in {"requeueLog", "reschedule"} :
              e(l).pc \notin Reporting /\ e(l).snap = wk[w].snap
        BY <1>0 DEF Worker, Reporting
      <4> HIDE DEF e
      <4> QED  BY <4>1, <4>2
    <3> QED  BY <1>10, <3>1, <3>2 DEF Click
  <2>3. \A v \in Workers : Quiet(v)
    <3>1. \A q \in Posts : k.snap[q] = "sent" => wk[w].snap[q] = "sent" \/ plogged[q]
      BY <2>2
    <3>2. k.pc \in Reporting => k.job \in Posts /\ Reported(k.job)  BY <2>2
    <3>3. wk' = [wk EXCEPT ![w] = k]  BY <2>2
    <3> QED  BY <3>1, <3>2, <3>3, SetQuiet
  <2>4. UNCHANGED <<plogged, platVars>>
    BY <1>10 DEF Click, PublishNow, Requeue, Reschedule, logVars
  <2> QED  BY <2>1, <2>3, <2>4, <1>q
<1> QED  BY <1>1, <1>2, <1>3, <1>4, <1>5, <1>6, <1>7, <1>8, <1>9, <1>10

(* Time, demotions, gates, crashes and restarts preserve it.                *)
LEMMA EnvironmentDelivery ==
  ASSUME TypeInv, DeliveryInv,
         \/ \E p \in Posts : \/ Cancel(p) \/ Demote(p) \/ BecomesDue(p)
                             \/ BackoffElapses(p) \/ ClaimAges(p)
         \/ \E g \in AllGates : CloseGate(g) \/ OpenGate(g)
         \/ \E w \in Workers : Die(w)
         \/ Restart
  PROVE  DeliveryInv'
<1>1. delivered' = delivered /\ plogged' = plogged
  BY DEF Cancel, Demote, BecomesDue, BackoffElapses, ClaimAges, CloseGate,
         OpenGate, Die, Restart, logVars, platVars
<1>2. \A p \in Posts : status'[p] = "published" => Reported(p)
  <2>1. CASE \E p \in Posts : Cancel(p)  BY <2>1, TransitionReports DEF Cancel
  <2>2. CASE ~\E p \in Posts : Cancel(p)
    <3>1. status' = status
      BY <2>2 DEF Demote, BecomesDue, BackoffElapses, ClaimAges, CloseGate,
                  OpenGate, Die, Restart, rowVars
    <3> QED  BY <3>1 DEF Reported
  <2> QED  BY <2>1, <2>2
<1>3. \A p \in Posts : registry'[p] # {} => registry[p] # {}
  BY DEF Cancel, Demote, BecomesDue, BackoffElapses, ClaimAges, CloseGate,
         OpenGate, Die, Restart, platVars
<1>4. \A v \in Workers : Quiet(v)
  <2>1. UNCHANGED wk \/ (\E w \in Workers : Die(w)) \/ Restart
    BY DEF Cancel, Demote, BecomesDue, BackoffElapses, ClaimAges, CloseGate, OpenGate
  <2>2. \A v \in Workers : wk'[v] = wk[v] \/ wk'[v] = IdleWorker
    BY <2>1 DEF Die, Restart, TypeInv, TypeOK
  <2>3. IdleWorker.pc \notin Reporting /\ \A p \in Posts : IdleWorker.snap[p] # "sent"
    BY DEF IdleWorker, Nothing, Reporting
  <2> QED  BY <2>2, <2>3 DEF Quiet
<1> QED  BY <1>1, <1>2, <1>3, <1>4, QuietStep DEF Evidence, Reported

(* No row and no log entry reports a publication that never happened: for
   every number of posts and requests, slow workers, failing log tables,
   crashes and restarts included. *)
THEOREM NothingInvented == Spec => []PublishedWasDelivered
<1>1. Init => DeliveryInv
  BY DEF Init, DeliveryInv, Reported, Evidence, IdleWorker, Nothing, Reporting
<1>2. TypeInv /\ DeliveryInv /\ [Next]_vars => DeliveryInv'
  <2> SUFFICES ASSUME TypeInv, DeliveryInv, [Next]_vars PROVE DeliveryInv'
    OBVIOUS
  <2>1. CASE UNCHANGED vars
    BY <2>1 DEF vars, rowVars, logVars, platVars, DeliveryInv, Reported, Evidence
  <2>2. CASE Next
    BY <2>2, TickDelivery, AttemptDelivery, SettleDelivery, EnvironmentDelivery
    DEF Next, Step
  <2> QED  BY <2>1, <2>2
<1>3. TypeInv /\ DeliveryInv => PublishedWasDelivered
  BY DEF DeliveryInv, Reported, Evidence, PublishedWasDelivered
<1> QED  BY InitType, TypeStep, <1>1, <1>2, <1>3, PTL DEF Spec

---------------------------------------------------------------------------
(* Guarded transitions.                                                    *)

Stands(p) ==
  /\ status[p] \in {"published", "cancelled"} => status'[p] = status[p]
  /\ status[p] = "dead" => status'[p] \in {"dead", "scheduled", "cancelled"}

(* A conditional UPDATE whose condition names no outcome moves none.        *)
LEMMA TransitionStands ==
  ASSUME TypeInv, NEW p, NEW source, NEW target, Transition(p, source, target),
         \/ source \subseteq {"scheduled", "failed", "publishing"}
         \/ source \subseteq {"scheduled", "failed", "dead"}
            /\ target \in {"scheduled", "cancelled"}
  PROVE  \A q \in Posts : Stands(q)
<1>1. status \in [Posts -> Status]  BY DEF TypeInv, TypeOK
<1>2. CASE status[p] \in source
  <2>1. status' = [status EXCEPT ![p] = target]  BY <1>2 DEF Transition
  <2> QED  BY <1>1, <1>2, <2>1 DEF Stands
<1>3. CASE status[p] \notin source
  BY <1>3 DEF Transition, rowVars, Stands
<1> QED  BY <1>2, <1>3

(* A published or cancelled row is never moved again and a dead one only by an
   operator, whatever ticks, clicks, slow workers, failing log tables, crashes
   and restarts do: every UPDATE names the statuses it may leave. *)
THEOREM OutcomesAreFinal == Spec => OutcomesStand
<1>1. TypeInv /\ [Next]_vars => [\A p \in Posts : Stands(p)]_vars
  <2> SUFFICES ASSUME TypeInv, Next PROVE \A p \in Posts : Stands(p)
    OBVIOUS
  <2>u. ASSUME status' = status PROVE \A p \in Posts : Stands(p)
    BY <2>u DEF Stands
  <2>1. ASSUME NEW w \in Workers, TickStart(w) \/ Step(w) \/ Die(w)
        PROVE  \A p \in Posts : Stands(p)
    <3>0. wk[w].from \subseteq Resting  BY DEF TypeInv, TypeOK, Worker
    <3>1. CASE Claim(w)
      BY <3>0, <3>1, TransitionStands DEF Claim, Resting
    <3>2. CASE RecoverFail(w)
      BY <3>2, <2>u, TransitionStands DEF RecoverFail, rowVars
    <3>3. CASE Release(w) \/ SettlePublished(w) \/ SettleFailed(w) \/ DeadLetter(w)
      BY <3>3, TransitionStands DEF Release, SettlePublished, SettleFailed, DeadLetter
    <3>4. CASE \E p \in Posts : Park(w, p)
      BY <3>4, TransitionStands DEF Park
    <3>5. CASE \/ TickStart(w) \/ RecoverLogs(w) \/ ReadControls(w) \/ Select(w)
               \/ LoopDone(w) \/ ReadHistory(w) \/ QueryThrows(w) \/ ReadContent(w)
               \/ Check(w) \/ AttemptThrows(w) \/ SendCached(w) \/ PlatformAccepts(w)
               \/ PlatformRejects(w) \/ AnswerArrives(w) \/ AnswerLost(w)
      BY <3>5, <2>u
      DEF TickStart, RecoverLogs, ReadControls, Select, LoopDone, ReadHistory,
          QueryThrows, ReadContent, Check, AttemptThrows, SendCached, PlatformAccepts,
          PlatformRejects, PlatformCall, AnswerArrives, AnswerLost, rowVars
    <3>6. CASE \/ PinThrows(w) \/ LogPublished(w) \/ LogFailed(w) \/ LogThrows(w)
               \/ AuditThrows(w) \/ RequeueLog(w) \/ RescheduleWrite(w) \/ Die(w)
               \/ \E p \in Posts : RecoverRow(w, p) \/ LoopTake(w, p) \/ LoopDefer(w, p)
      BY <3>6, <2>u
      DEF PinThrows, LogPublished, LogFailed, LogThrows, AuditThrows, RequeueLog,
          RescheduleWrite, Die, RecoverRow, LoopTake, LoopDefer, rowVars
    <3> QED  BY <2>1, <3>1, <3>2, <3>3, <3>4, <3>5, <3>6 DEF Step
  <2>2. ASSUME NEW w \in Workers, NEW r \in Posts, Click(w, r)
        PROVE  \A p \in Posts : Stands(p)
    <3>1. CASE Requeue(w, r)  BY <3>1, TransitionStands DEF Requeue
    <3>2. CASE PublishNow(w, r) \/ Reschedule(w, r)
      BY <3>2, <2>u DEF PublishNow, Reschedule, rowVars
    <3> QED  BY <2>2, <3>1, <3>2 DEF Click
  <2>3. ASSUME NEW r \in Posts, Cancel(r) PROVE \A p \in Posts : Stands(p)
    BY <2>3, TransitionStands DEF Cancel
  <2>4. CASE \/ \E p \in Posts : \/ Demote(p) \/ BecomesDue(p)
                                 \/ BackoffElapses(p) \/ ClaimAges(p)
             \/ \E g \in AllGates : CloseGate(g) \/ OpenGate(g)
             \/ Restart
    BY <2>4, <2>u
    DEF Demote, BecomesDue, BackoffElapses, ClaimAges, CloseGate, OpenGate, Restart, rowVars
  <2> QED  BY <2>1, <2>2, <2>3, <2>4 DEF Next
<1> QED  BY <1>1, InitType, TypeStep, PTL DEF Spec, OutcomesStand, Stands

---------------------------------------------------------------------------
(* Exclusive claims, on a host that ends requests before the stale limit and
   with log tables that accept their inserts. *)

(* The worker that holds a post is alone with it, and the row is in flight
   and young, or already settled as published by a recovery. *)
HolderAlone ==
  \A p \in Posts, w \in Workers : Holds(w, p) =>
    /\ \/ status[p] = "publishing"
       \/ status[p] = "published" /\ Evidence(p)
    /\ p \notin aged
    /\ \A v \in Workers : Holds(v, p) => v = w
(* A row older than a tick's stale limit is still aged.                    *)
OldIsAged == \A x \in older : x[2] \in aged
NoSecondRelease == \A w \in Workers : wk[w].pc # "recatch"
(* A worker that settles a post as published still has the evidence, ...   *)
SettlesOnEvidence ==
  \A p \in Posts, w \in Workers :
    /\ wk[w].snap[p] = "sent" => plogged[p]
    /\ wk[w].job = p /\ wk[w].pc \in Reporting \ {"accepted"} => Evidence(p)
(* ... and one on its way to the platform, or about to give up on it, has
   none. *)
Cleared == {"content", "cancelSelf", "checks", "skip", "send", "accepted",
            "settleFail", "catch"}
SendsWithoutEvidence ==
  \A p \in Posts, w \in Workers :
    wk[w].job = p /\ wk[w].pc \in Cleared => ~Evidence(p)
(* Something shows that the platform has the post, and exactly then it has it
   once more than the times all that showed it was lost. *)
Shown(p) == Evidence(p) \/ \E w \in Workers : At(w, "accepted") /\ wk[w].job = p
Accounted(p) == delivered[p] = lost[p] + (IF Shown(p) THEN 1 ELSE 0)
DeliveriesAccounted == \A p \in Posts : Accounted(p)
(* A recovery whose reading of the logs is outdated finds the post in the
   registry, and one about to fail a row it may still touch misses nothing. *)
Traced(plan) ==
  \A p \in Posts : plan[p] = "stale" => (plogged[p] => registry[p] # {})
RecoversUnseen ==
  \A w \in Workers :
    /\ wk[w].pc # "recoverLogs" => Traced(wk[w].snap)
    /\ wk[w].pc = "recoverFail" /\ <<w, wk[w].job>> \in older
         => ~Evidence(wk[w].job)

Custody == /\ TypeInv /\ HolderAlone /\ OldIsAged /\ NoSecondRelease
           /\ SettlesOnEvidence /\ SendsWithoutEvidence /\ DeliveriesAccounted
           /\ RecoversUnseen

QuietHost == ~SlowWorkers /\ ~LogErrors

(* What most steps do to a worker, to the evidence and to the rows held.   *)
CalmWorker(v) ==
  \/ wk'[v] = wk[v]
  \/ /\ wk[v].pc # "accepted" /\ wk'[v].pc # "recatch"
     /\ \A p \in Posts : Holds(v, p)' => Holds(v, p)
     /\ \A p \in Posts : wk'[v].snap[p] = "sent" => wk[v].snap[p] = "sent" \/ plogged[p]
     /\ wk'[v].pc \in Reporting => wk'[v].pc # "accepted" /\ Evidence(wk'[v].job)
     /\ wk'[v].pc \in Cleared \cup {"recoverFail"} => ~Evidence(wk'[v].job)
     /\ wk'[v].pc # "recoverLogs" => Traced(wk'[v].snap)
CalmEvidence ==
  /\ delivered' = delivered /\ lost' = lost
  /\ \A p \in Posts : /\ Evidence(p)' <=> Evidence(p)
                      /\ plogged[p] => plogged'[p]
                      /\ plogged'[p] => plogged[p] \/ registry'[p] # {}
                      /\ registry[p] # {} => registry'[p] # {}
CalmRows ==
  /\ \A p \in Posts, v \in Workers : Holds(v, p)' =>
       /\ status'[p] = status[p] \/ (status'[p] = "published" /\ Evidence(p))
       /\ p \in aged' => p \in aged
  /\ OldIsAged'
  /\ \A p \in Posts, v \in Workers :
       wk'[v].pc = "recoverFail" /\ <<v, p>> \in older' => <<v, p>> \in older

(* A calm step preserves the custody of every post.                        *)
LEMMA CalmStep ==
  ASSUME Custody, TypeInv', \A v \in Workers : CalmWorker(v), CalmEvidence, CalmRows
  PROVE  Custody'
<1>0. wk \in [Workers -> Worker] /\ wk' \in [Workers -> Worker]
      /\ plogged \in [Posts -> BOOLEAN] /\ plogged' \in [Posts -> BOOLEAN]
  BY DEF Custody, TypeInv, TypeOK
<1>1. \A p \in Posts, v \in Workers : Holds(v, p)' => Holds(v, p)
  BY DEF CalmWorker, Holds
<1>2. HolderAlone'
  <2> SUFFICES ASSUME NEW p \in Posts, NEW w \in Workers, Holds(w, p)'
               PROVE  /\ \/ status'[p] = "publishing"
                         \/ status'[p] = "published" /\ Evidence(p)'
                      /\ p \notin aged'
                      /\ \A v \in Workers : Holds(v, p)' => v = w
    BY DEF HolderAlone
  <2>1. Holds(w, p)  BY <1>1
  <2> QED  BY <1>1, <2>1 DEF Custody, HolderAlone, CalmRows, CalmEvidence
<1>3. OldIsAged'  BY DEF CalmRows
<1>4. NoSecondRelease'  BY DEF CalmWorker, NoSecondRelease, Custody
<1>5. SettlesOnEvidence'
  <2> SUFFICES ASSUME NEW p \in Posts, NEW w \in Workers
               PROVE  /\ wk'[w].snap[p] = "sent" => plogged'[p]
                      /\ wk'[w].job = p /\ wk'[w].pc \in Reporting \ {"accepted"}
                           => Evidence(p)'
    BY DEF SettlesOnEvidence
  <2>1. CASE wk'[w] = wk[w]
    BY <2>1 DEF Custody, SettlesOnEvidence, CalmEvidence
  <2>2. CASE wk'[w] # wk[w]
    BY <2>2 DEF Custody, SettlesOnEvidence, CalmEvidence, CalmWorker
  <2> QED  BY <2>1, <2>2
<1>6. SendsWithoutEvidence'
  BY DEF Custody, SendsWithoutEvidence, CalmEvidence, CalmWorker
<1>7. DeliveriesAccounted'
  <2> SUFFICES ASSUME NEW p \in Posts PROVE Accounted(p)'
    BY DEF DeliveriesAccounted
  <2>1. ASSUME NEW w \in Workers
        PROVE  (At(w, "accepted") /\ wk[w].job = p)
                 <=> (At(w, "accepted")' /\ wk'[w].job = p)
    BY DEF CalmWorker, At, Reporting
  <2>2. Shown(p)' <=> Shown(p)  BY <2>1 DEF Shown, CalmEvidence
  <2> QED  BY <2>2 DEF Custody, DeliveriesAccounted, Accounted, CalmEvidence
<1>8. RecoversUnseen'
  <2> SUFFICES ASSUME NEW w \in Workers
               PROVE  /\ wk'[w].pc # "recoverLogs" => Traced(wk[w].snap)'
                      /\ wk'[w].pc = "recoverFail" /\ <<w, wk'[w].job>> \in older'
                             => ~Evidence(wk[w].job)'
    BY DEF RecoversUnseen
  <2>1. /\ wk'[w].pc # "recoverLogs" => Traced(wk'[w].snap)
        /\ wk'[w].pc = "recoverFail" /\ <<w, wk'[w].job>> \in older
             => ~Evidence(wk'[w].job)
    <3>1. CASE wk'[w] = wk[w]  BY <3>1 DEF Custody, RecoversUnseen
    <3>2. CASE wk'[w] # wk[w]  BY <3>2 DEF CalmWorker
    <3> QED  BY <3>1, <3>2
  <2>2. Traced(wk'[w].snap) => Traced(wk[w].snap)'  BY DEF Traced, CalmEvidence
  <2>3. ASSUME wk'[w].pc = "recoverFail", <<w, wk'[w].job>> \in older'
        PROVE  ~Evidence(wk[w].job)'
    <3>1. wk'[w].job \in Posts  BY <2>3 DEF TypeInv, JobOK, Busy, PC
    <3>2. <<w, wk'[w].job>> \in older  BY <2>3, <3>1 DEF CalmRows
    <3>3. ~Evidence(wk'[w].job)  BY <2>1, <2>3, <3>2
    <3> QED  BY <3>1, <3>3 DEF CalmEvidence
  <2> QED  BY <2>1, <2>2, <2>3
<1> QED  BY <1>2, <1>3, <1>4, <1>5, <1>6, <1>7, <1>8 DEF Custody

(* Untouched logs, registry and counters are calm, ...                      *)
LEMMA SameEvidence ==
  ASSUME UNCHANGED <<plogged, registry, delivered, lost>>
  PROVE  CalmEvidence
BY DEF CalmEvidence, Evidence

(* ... and so are untouched rows.                                          *)
LEMMA SameRows ==
  ASSUME Custody, UNCHANGED rowVars
  PROVE  CalmRows
BY DEF Custody, CalmRows, OldIsAged, rowVars

(* A transition disturbs no row held after the step: the row had no holder
   or loses it, or it is settled on evidence. *)
LEMMA TransitionCalm ==
  ASSUME Custody, NEW p \in Posts, NEW source, NEW target,
         Transition(p, source, target),
         \A q \in Posts, v \in Workers : Holds(v, q)' => Holds(v, q),
         \/ \A v \in Workers : ~Holds(v, p)'
         \/ target = "published" /\ Evidence(p)
         \/ "publishing" \notin source /\ "published" \notin source
  PROVE  CalmRows
<1>0. status \in [Posts -> Status] /\ older \in SUBSET (Workers \X Posts)
  BY DEF Custody, TypeInv, TypeOK
<1>1. CASE status[p] \in source
  <2>1. /\ status' = [status EXCEPT ![p] = target] /\ aged' = aged \ {p}
        /\ older' = {x \in older : x[2] # p}
    BY <1>1 DEF Transition
  <2>2. OldIsAged'  BY <2>1 DEF Custody, OldIsAged
  <2>3. ASSUME NEW q \in Posts, NEW v \in Workers, Holds(v, q)'
        PROVE  status'[q] = status[q] \/ (status'[q] = "published" /\ Evidence(q))
    <3>1. CASE q # p  BY <3>1, <2>1, <1>0
    <3>2. CASE q = p
      <4>1. Holds(v, p)  BY <2>3, <3>2
      <4>2. status[p] \in {"publishing", "published"}
        BY <4>1 DEF Custody, HolderAlone
      <4>3. target = "published" /\ Evidence(p)  BY <2>3, <3>2, <4>2, <1>1
      <4> QED  BY <4>3, <3>2, <2>1, <1>0
    <3> QED  BY <3>1, <3>2
  <2>4. older' \subseteq older  BY <2>1
  <2> QED  BY <2>2, <2>3, <2>4, <2>1 DEF CalmRows
<1>2. CASE status[p] \notin source
  BY <1>2, SameRows DEF Transition
<1> QED  BY <1>1, <1>2

(* A worker that moves on within or out of its claim is calm, ...           *)
LEMMA GotoCalm ==
  ASSUME Custody, NEW w \in Workers,
         NEW l \in PC \ {"accepted", "recatch", "recoverFail"},
         Goto(w, l), wk[w].pc \in Busy \ {"accepted"},
         l \in Holding => wk[w].pc \in Holding,
         l \in Reporting => Evidence(wk[w].job),
         l \in Cleared => ~Evidence(wk[w].job)
  PROVE  \A v \in Workers : CalmWorker(v)
<1>0. TypeInv /\ wk[w].job \in Posts /\ wk[w] \in Worker
  BY DEF Custody, TypeInv, TypeOK, JobOK
<1>1. /\ \A v \in Workers \ {w} : wk'[v] = wk[v]
      /\ wk'[w] = [wk[w] EXCEPT !.pc = l]
  BY <1>0, GotoStep
<1>2. wk'[w].pc = l /\ wk'[w].job = wk[w].job /\ wk'[w].snap = wk[w].snap
  BY <1>0, <1>1 DEF Worker
<1>3. \A p \in Posts : Holds(w, p)' => Holds(w, p)  BY <1>2 DEF Holds
<1>4. Traced(wk'[w].snap)  BY <1>0, <1>2 DEF Custody, RecoversUnseen, Busy
<1>5. CalmWorker(w)  BY <1>2, <1>3, <1>4 DEF CalmWorker
<1> QED  BY <1>1, <1>5 DEF CalmWorker

(* ... so is one that leaves the post in hand, ...                         *)
LEMMA ReturnCalm ==
  ASSUME Custody, NEW w \in Workers, Return(w),
         wk[w].pc \notin {"accepted", "recoverLogs"}
  PROVE  \A v \in Workers : CalmWorker(v) /\ ~\E p \in Posts : Holds(w, p)'
<1>0. TypeInv  BY DEF Custody
<1>1. /\ \A v \in Workers \ {w} : wk'[v] = wk[v]
      /\ wk'[w].pc \in {"idle", "recover", "loop"}
      /\ wk'[w].snap = wk[w].snap \/ wk'[w].snap = Nothing
  BY <1>0, ReturnStep
<1>2. wk'[w].pc \notin Holding /\ wk'[w].pc \notin Reporting /\ wk'[w].pc \notin Cleared
  BY <1>1 DEF Holding, Reporting, Cleared
<1>3. /\ \A p \in Posts : wk'[w].snap[p] = "sent" => wk[w].snap[p] = "sent"
      /\ \A p \in Posts : wk'[w].snap[p] = "stale" => wk[w].snap[p] = "stale"
  BY <1>1 DEF Nothing
<1>6. Traced(wk'[w].snap)  BY <1>0, <1>3 DEF Custody, RecoversUnseen, Traced
<1>4. CalmWorker(w)  BY <1>1, <1>2, <1>3, <1>6 DEF CalmWorker, Holds
<1> QED  BY <1>1, <1>2, <1>4 DEF CalmWorker, Holds

(* ... and one whose new locals hold nothing it did not hold before.        *)
LEMMA SetCalm ==
  ASSUME Custody, NEW w \in Workers, NEW k, wk' = [wk EXCEPT ![w] = k],
         wk[w].pc # "accepted", k.pc \notin {"accepted", "recatch"},
         k.pc \in Holding => wk[w].pc \in Holding /\ k.job = wk[w].job,
         \A p \in Posts : k.snap[p] = "sent" => wk[w].snap[p] = "sent" \/ plogged[p],
         k.pc \in Reporting => Evidence(k.job),
         k.pc \in Cleared => ~Evidence(k.job),
         k.pc = "recoverFail" => ~Evidence(k.job),
         k.pc # "recoverLogs" => Traced(k.snap)
  PROVE  \A v \in Workers : CalmWorker(v)
<1>0. wk \in [Workers -> Worker]  BY DEF Custody, TypeInv, TypeOK
<1>1. wk'[w] = k /\ \A v \in Workers \ {w} : wk'[v] = wk[v]  BY <1>0
<1>2. \A p \in Posts : Holds(w, p)' => Holds(w, p)  BY <1>1 DEF Holds
<1>3. CalmWorker(w)  BY <1>1, <1>2 DEF CalmWorker
<1> QED  BY <1>1, <1>3 DEF CalmWorker

(* The steps of a tick preserve the custody.                               *)
LEMMA TickCustody ==
  ASSUME Custody, TypeInv', NEW w \in Workers,
         \/ TickStart(w) \/ RecoverLogs(w) \/ RecoverFail(w)
         \/ ReadControls(w) \/ Select(w) \/ LoopDone(w)
         \/ \E p \in Posts : \/ RecoverRow(w, p) \/ Park(w, p)
                             \/ LoopTake(w, p) \/ LoopDefer(w, p)
  PROVE  Custody'
<1>0. wk[w] \in Worker /\ wk \in [Workers -> Worker]
      /\ (wk[w].pc \in Busy => wk[w].job \in Posts)
  BY DEF Custody, TypeInv, TypeOK, JobOK
<1>q. ASSUME \A v \in Workers : CalmWorker(v), UNCHANGED <<logVars, platVars>>, CalmRows
      PROVE  Custody'
  BY <1>q, CalmStep, SameEvidence DEF logVars, platVars
<1>1. CASE TickStart(w)
  <2> DEFINE plan == [p1 \in Posts |->
        CASE status[p1] = "publishing" /\ p1 \in aged -> "stale"
          [] status[p1] = "scheduled" /\ p1 \in due -> "scheduled"
          [] status[p1] = "failed" -> "failed"
          [] OTHER -> "none"]
             k == [wk[w] EXCEPT !.pc = "recoverLogs", !.ret = "recover", !.snap = plan]
  <2>1. \A p \in Posts : plan[p] = "sent" => wk[w].snap[p] = "sent" \/ plogged[p]
    OBVIOUS
  <2>2. wk' = [wk EXCEPT ![w] = k] /\ wk[w].pc # "accepted"
    BY <1>1, <1>0 DEF TickStart, At
  <2> HIDE DEF plan
  <2>3. k.snap = plan /\ k.pc = "recoverLogs"  BY <1>0 DEF Worker
  <2> HIDE DEF k
  <2>4. k.pc \notin Holding /\ k.pc \notin Reporting /\ k.pc \notin Cleared
    BY <2>3 DEF Holding, Reporting, Cleared
  <2>5. \A v \in Workers : CalmWorker(v)  BY <2>1, <2>2, <2>3, <2>4, SetCalm
  <2>6. wk'[w].pc = "recoverLogs"  BY <1>0, <2>2, <2>3
  <2>8. ASSUME NEW v \in Workers, NEW p \in Posts,
               wk'[v].pc = "recoverFail", <<v, p>> \in older'
        PROVE  <<v, p>> \in older
    <3>1. v # w  BY <2>6, <2>8
    <3>2. older' = older \cup {<<w, q>> : q \in aged}  BY <1>1 DEF TickStart
    <3> QED  BY <2>8, <3>1, <3>2
  <2>9. OldIsAged' /\ status' = status /\ aged' = aged
    BY <1>1 DEF TickStart, Custody, OldIsAged
  <2>7. CalmRows  BY <2>8, <2>9 DEF CalmRows
  <2> QED  BY <1>1, <2>5, <2>7, <1>q DEF TickStart
<1>2. CASE RecoverLogs(w)
  <2> DEFINE stale == {q \in Posts : wk[w].snap[q] = "stale"}
             reads == [q \in Posts |-> IF q \in stale THEN fails[q] ELSE 0]
             plan == [q \in Posts |-> IF q \in stale /\ plogged[q] THEN "sent"
                                      ELSE wk[w].snap[q]]
             k == [wk[w] EXCEPT !.pc = "recover", !.seen = reads, !.snap = plan]
  <2>1. \A p \in Posts :
          /\ plan[p] = "sent" => wk[w].snap[p] = "sent" \/ plogged[p]
          /\ plan[p] = "stale" => ~plogged[p]
    OBVIOUS
  <2>2. wk' = [wk EXCEPT ![w] = k] /\ wk[w].pc # "accepted"
    BY <1>2, <1>0 DEF RecoverLogs, At
  <2> HIDE DEF plan, reads
  <2>3. k.snap = plan /\ k.pc = "recover"  BY <1>0 DEF Worker
  <2> HIDE DEF k
  <2>4. k.pc \notin Holding /\ k.pc \notin Reporting /\ k.pc \notin Cleared
    BY <2>3 DEF Holding, Reporting, Cleared
  <2>6. Traced(k.snap)  BY <2>1, <2>3 DEF Traced
  <2>7. \A p \in Posts : k.snap[p] = "sent" => wk[w].snap[p] = "sent" \/ plogged[p]
    BY <2>1, <2>3
  <2>5. \A v \in Workers : CalmWorker(v)
    BY <2>2, <2>3, <2>4, <2>6, <2>7, SetCalm
  <2> QED  BY <1>2, <2>5, <1>q, SameRows DEF RecoverLogs
<1>3. ASSUME NEW p \in Posts, RecoverRow(w, p) PROVE Custody'
  <2> DEFINE n == wk[w].seen[p] + 1
             l == IF wk[w].snap[p] = "sent" \/ registry[p] # {}
                  THEN "recoverSettle" ELSE "recoverFail"
             k == [wk[w] EXCEPT !.job = p, !.snap[p] = "none", !.seen[p] = 0,
                                !.attempt = n, !.pc = l]
  <2>1. wk' = [wk EXCEPT ![w] = k] /\ wk[w].pc # "accepted"
    BY <1>3, <1>0 DEF RecoverRow, At
  <2>2. l \notin Holding /\ l \notin Cleared /\ l \notin {"accepted", "recatch"}
    BY DEF Holding, Cleared
  <2>3. l \in Reporting => Evidence(p)
    BY DEF Reporting, Evidence, Custody, SettlesOnEvidence
  <2>8. l = "recoverFail" => ~Evidence(p)
    <3> SUFFICES ASSUME l = "recoverFail" PROVE ~Evidence(p)
      OBVIOUS
    <3>1. registry[p] = {} /\ wk[w].snap[p] = "stale" /\ wk[w].pc = "recover"
      BY <1>3 DEF RecoverRow, At
    <3>2. Traced(wk[w].snap)  BY <3>1 DEF Custody, RecoversUnseen
    <3> QED  BY <3>1, <3>2 DEF Traced, Evidence
  <2>9. wk[w].pc = "recover"  BY <1>3 DEF RecoverRow, At
  <2> HIDE DEF n, l
  <2>4. k.pc = l /\ k.job = p  BY <1>0 DEF Worker
  <2>5. \A q \in Posts : k.snap[q] \in {"sent", "stale"} => k.snap[q] = wk[w].snap[q]
    BY <1>0 DEF Worker
  <2> HIDE DEF k
  <2>6. k.pc \in Reporting => Evidence(k.job)  BY <2>3, <2>4
  <2>10. Traced(k.snap)
    BY <2>5, <2>9 DEF Custody, RecoversUnseen, Traced
  <2>11. \A q \in Posts : k.snap[q] = "sent" => wk[w].snap[q] = "sent" \/ plogged[q]
    BY <2>5
  <2>12. k.pc = "recoverFail" => ~Evidence(k.job)  BY <2>4, <2>8
  <2>13. k.pc \notin {"accepted", "recatch"} /\ k.pc \notin Holding /\ k.pc \notin Cleared
    BY <2>2, <2>4
  <2>7. \A v \in Workers : CalmWorker(v)
    BY <2>1, <2>6, <2>10, <2>11, <2>12, <2>13, SetCalm
  <2> QED  BY <1>3, <2>7, <1>q, SameRows DEF RecoverRow
<1>4. CASE RecoverFail(w)
  <2>1. PICK q \in Posts : q = wk[w].job
    BY <1>4, <1>0 DEF RecoverFail, At, Busy, PC
  <2>0. wk[w].pc \notin {"accepted", "recoverLogs"}  BY <1>4 DEF RecoverFail, At
  <2>2. CASE <<w, q>> \in older /\ status[q] = "publishing"
    <3> DEFINE k == [wk[w] EXCEPT !.pc = "logFail", !.snap[q] = "failed"]
    <3>1. Transition(q, {"publishing"}, "failed") /\ wk' = [wk EXCEPT ![w] = k]
      BY <1>4, <1>0, <2>1, <2>2 DEF RecoverFail
    <3>2. k.pc = "logFail" /\ wk[w].pc = "recoverFail"
          /\ \A r \in Posts : k.snap[r] \in {"sent", "stale"} => k.snap[r] = wk[w].snap[r]
      BY <1>0, <1>4 DEF Worker, RecoverFail, At
    <3> HIDE DEF k
    <3>3. k.pc \notin Holding /\ k.pc \notin Reporting /\ k.pc \notin Cleared
      BY <3>2 DEF Holding, Reporting, Cleared
    <3>8. Traced(k.snap)  BY <3>2 DEF Custody, RecoversUnseen, Traced
    <3>9. \A s \in Posts : k.snap[s] = "sent" => wk[w].snap[s] = "sent" \/ plogged[s]
      BY <3>2
    <3>10. wk' = [wk EXCEPT ![w] = k] /\ k.pc = "logFail"  BY <3>1, <3>2
    <3>4. \A v \in Workers : CalmWorker(v)
      BY <2>0, <3>3, <3>8, <3>9, <3>10, SetCalm
    <3>5. \A r \in Posts, v \in Workers : Holds(v, r)' => Holds(v, r)
      BY <3>4 DEF CalmWorker, Holds
    <3>6. \A v \in Workers : ~Holds(v, q)
      BY <2>1, <2>2 DEF Custody, OldIsAged, HolderAlone
    <3>7. CalmRows
      <4>1. \A v \in Workers : ~Holds(v, q)'  BY <2>1, <3>5, <3>6
      <4> QED  BY <2>1, <3>1, <3>5, <4>1, TransitionCalm
    <3> QED  BY <1>4, <3>4, <3>7, <1>q DEF RecoverFail
  <2>3. CASE ~(<<w, q>> \in older /\ status[q] = "publishing")
    <3>1. Return(w) /\ UNCHANGED rowVars  BY <1>4, <2>1, <2>3 DEF RecoverFail
    <3> QED  BY <1>4, <2>0, <3>1, <1>q, ReturnCalm, SameRows DEF RecoverFail
  <2> QED  BY <2>2, <2>3
<1>5. CASE ReadControls(w)
  <2> DEFINE k == IF "disabled" \in gates THEN IdleWorker
                  ELSE [wk[w] EXCEPT !.pc = "select", !.ret = "loop"]
  <2>1. /\ k.pc \in {"idle", "select"}
        /\ \A p \in Posts : k.snap[p] = "sent" => wk[w].snap[p] = "sent" \/ plogged[p]
        /\ Traced(k.snap)
    BY <1>0, <1>5 DEF Worker, IdleWorker, Nothing, ReadControls, Traced
  <2>2. wk' = [wk EXCEPT ![w] = k] /\ wk[w].pc # "accepted"
    BY <1>5, <1>0 DEF ReadControls, At
  <2> HIDE DEF k
  <2>3. k.pc \notin Holding /\ k.pc \notin Reporting /\ k.pc \notin Cleared
        /\ k.pc \notin {"accepted", "recatch", "recoverFail"}
    BY <2>1 DEF Holding, Reporting, Cleared
  <2>6. \A p \in Posts : k.snap[p] = "sent" => wk[w].snap[p] = "sent" \/ plogged[p]
    BY <2>1
  <2>7. Traced(k.snap)  BY <2>1
  <2>4. \A v \in Workers : CalmWorker(v)  BY <2>2, <2>3, <2>6, <2>7, SetCalm
  <2>5. CalmRows  BY <1>5 DEF ReadControls, CalmRows, Custody, OldIsAged
  <2> QED  BY <1>5, <2>4, <2>5, <1>q DEF ReadControls
<1>6. CASE Select(w)
  <2> DEFINE old == wk[w].snap
             plan == [q \in Posts |->
               CASE old[q] # "failed" -> old[q]
                 [] old[q] = "failed" /\ fails[q] >= MaxAttempts -> "park"
                 [] old[q] = "failed" /\ fails[q] < MaxAttempts
                      /\ q \in due \ cooling -> "failed"
                 [] OTHER -> "none"]
             k == [wk[w] EXCEPT !.pc = "loop", !.snap = plan]
  <2>1. \A p \in Posts : plan[p] \in {"sent", "stale"} => plan[p] = wk[w].snap[p]
    OBVIOUS
  <2>2. wk' = [wk EXCEPT ![w] = k] /\ wk[w].pc = "select"
    BY <1>6, <1>0 DEF Select, At
  <2> HIDE DEF plan
  <2>3. k.snap = plan /\ k.pc = "loop"  BY <1>0 DEF Worker
  <2> HIDE DEF k
  <2>4. k.pc \notin Holding /\ k.pc \notin Reporting /\ k.pc \notin Cleared
    BY <2>3 DEF Holding, Reporting, Cleared
  <2>6. Traced(k.snap)  BY <2>1, <2>2, <2>3 DEF Custody, RecoversUnseen, Traced
  <2>7. \A q \in Posts : k.snap[q] = "sent" => wk[w].snap[q] = "sent" \/ plogged[q]
    BY <2>1, <2>3
  <2>9. k.pc = "loop"
    BY <2>1, <2>3
  <2>5. \A v \in Workers : CalmWorker(v)
    BY <2>2, <2>4, <2>6, <2>7, <2>9, SetCalm
  <2> QED  BY <1>6, <2>5, <1>q, SameRows DEF Select
<1>7. ASSUME NEW p \in Posts, Park(w, p) \/ LoopDefer(w, p) PROVE Custody'
  <2> DEFINE k == [wk[w] EXCEPT !.snap[p] = "none"]
  <2>1. k.pc = "loop" /\ wk[w].pc = "loop"
        /\ \A q \in Posts : k.snap[q] \in {"sent", "stale"} => k.snap[q] = wk[w].snap[q]
    BY <1>7, <1>0 DEF Worker, Park, LoopDefer, At
  <2>2. wk' = [wk EXCEPT ![w] = k]  BY <1>7, <1>0 DEF Park, LoopDefer
  <2> HIDE DEF k
  <2>3. k.pc \notin Holding /\ k.pc \notin Reporting /\ k.pc \notin Cleared
    BY <2>1 DEF Holding, Reporting, Cleared
  <2>7. Traced(k.snap)  BY <2>1 DEF Custody, RecoversUnseen, Traced
  <2>8. \A q \in Posts : k.snap[q] = "sent" => wk[w].snap[q] = "sent" \/ plogged[q]
    BY <2>1
  <2>9. k.pc = "loop"
    BY <2>1
  <2>10. wk[w].pc # "accepted"
    BY <2>1
  <2>4. \A v \in Workers : CalmWorker(v)
    BY <2>2, <2>3, <2>7, <2>8, <2>9, <2>10, SetCalm
  <2>5. \A r \in Posts, v \in Workers : Holds(v, r)' => Holds(v, r)
    BY <2>4 DEF CalmWorker, Holds
  <2>6. CalmRows
    BY <1>7, <2>5, TransitionCalm, SameRows DEF Park, LoopDefer
  <2> QED  BY <1>7, <2>4, <2>6, <1>q DEF Park, LoopDefer
<1>8. ASSUME NEW p \in Posts, LoopTake(w, p) PROVE Custody'
  <2> DEFINE k == Entered(wk[w], p, {wk[w].snap[p]})
  <2>1. k.pc = "claim"
        /\ \A q \in Posts : k.snap[q] \in {"sent", "stale"} => k.snap[q] = wk[w].snap[q]
    BY <1>0 DEF Worker, Entered
  <2>2. wk' = [wk EXCEPT ![w] = k] /\ wk[w].pc = "loop"
    BY <1>8, <1>0 DEF LoopTake, At
  <2> HIDE DEF k
  <2>3. k.pc \notin Holding /\ k.pc \notin Reporting /\ k.pc \notin Cleared
    BY <2>1 DEF Holding, Reporting, Cleared
  <2>5. Traced(k.snap)  BY <2>1, <2>2 DEF Custody, RecoversUnseen, Traced
  <2>6. \A q \in Posts : k.snap[q] = "sent" => wk[w].snap[q] = "sent" \/ plogged[q]
    BY <2>1
  <2>9. k.pc = "claim"
    BY <2>1
  <2>4. \A v \in Workers : CalmWorker(v)
    BY <2>2, <2>3, <2>5, <2>6, <2>9, SetCalm
  <2> QED  BY <1>8, <2>4, <1>q, SameRows DEF LoopTake
<1>9. CASE LoopDone(w)
  BY <1>9, <1>q, ReturnCalm, SameRows DEF LoopDone, At
<1> QED  BY <1>1, <1>2, <1>3, <1>4, <1>5, <1>6, <1>7, <1>8, <1>9

(* The steps around the platform call: they change what is known about the
   post in hand, which no other worker holds. *)
LEMMA PlatformStep ==
  ASSUME Custody, TypeInv', NEW w \in Workers, NEW r \in Posts,
         wk[w].pc \in {"send", "accepted"}, wk[w].job = r,
         \A v \in Workers \ {w} : wk'[v] = wk[v],
         \/ wk'[w].job = r /\ wk'[w].pc \in {"accepted", "settlePub", "settleFail"}
         \/ wk'[w].pc = "idle",
         \A p \in Posts : wk'[w].snap[p] \in {"sent", "stale"}
                           => wk'[w].snap[p] = wk[w].snap[p],
         status' = status, aged' = aged, older' \subseteq older, plogged' = plogged,
         \A p \in Posts \ {r} : /\ registry'[p] = registry[p]
                                /\ delivered'[p] = delivered[p] /\ lost'[p] = lost[p],
         registry[r] \subseteq registry'[r],
         wk'[w].pc \in {"accepted", "settleFail"} => ~Evidence(r)',
         wk'[w].pc = "settlePub" => Evidence(r)',
         Accounted(r)'
  PROVE  Custody'
<1>0. Holds(w, r) /\ wk[w].pc \in Cleared  BY DEF Holds, Holding, Cleared
<1>1. \A v \in Workers : Holds(v, r) => v = w
  BY <1>0 DEF Custody, HolderAlone
<1>2. \A p \in Posts, v \in Workers : Holds(v, p)' => Holds(v, p)
  <2> SUFFICES ASSUME NEW p \in Posts, Holds(w, p)' PROVE Holds(w, p)
    BY DEF Holds
  <2>1. p = r  BY DEF Holds, Holding
  <2> QED  BY <1>0, <2>1
<1>3. \A p \in Posts : Evidence(p) => Evidence(p)'
  <2> SUFFICES ASSUME NEW p \in Posts, Evidence(p) PROVE plogged'[p] \/ registry'[p] # {}
    BY DEF Evidence
  <2>1. CASE p = r  BY <2>1 DEF Evidence
  <2>2. CASE p # r  BY <2>2 DEF Evidence
  <2> QED  BY <2>1, <2>2
<1>4. \A p \in Posts \ {r} : Evidence(p)' <=> Evidence(p)  BY DEF Evidence
<1>5. HolderAlone'
  <2> SUFFICES ASSUME NEW p \in Posts, NEW u \in Workers, Holds(u, p)'
               PROVE  /\ \/ status'[p] = "publishing"
                         \/ status'[p] = "published" /\ Evidence(p)'
                      /\ p \notin aged'
                      /\ \A v \in Workers : Holds(v, p)' => v = u
    BY DEF HolderAlone
  <2>1. Holds(u, p)  BY <1>2
  <2> QED  BY <1>2, <1>3, <2>1 DEF Custody, HolderAlone
<1>6. OldIsAged'  BY DEF OldIsAged, Custody
<1>7. NoSecondRelease'  BY DEF NoSecondRelease, Custody
<1>8. SettlesOnEvidence'
  <2> SUFFICES ASSUME NEW p \in Posts, NEW v \in Workers
               PROVE  /\ wk'[v].snap[p] = "sent" => plogged'[p]
                      /\ wk'[v].job = p /\ wk'[v].pc \in Reporting \ {"accepted"}
                           => Evidence(p)'
    BY DEF SettlesOnEvidence
  <2>1. CASE v # w  BY <2>1, <1>3 DEF Custody, SettlesOnEvidence
  <2>2. CASE v = w  BY <2>2 DEF Custody, SettlesOnEvidence, Reporting
  <2> QED  BY <2>1, <2>2
<1>9. SendsWithoutEvidence'
  <2> SUFFICES ASSUME NEW p \in Posts, NEW v \in Workers,
                      wk'[v].job = p, wk'[v].pc \in Cleared
               PROVE  ~Evidence(p)'
    BY DEF SendsWithoutEvidence
  <2>1. CASE v = w  BY <2>1 DEF Cleared
  <2>2. CASE v # w
    <3>1. wk[v].job = p /\ wk[v].pc \in Cleared  BY <2>2
    <3>2. p # r  BY <3>1, <1>1, <2>2 DEF Holds, Holding, Cleared
    <3> QED  BY <3>1, <3>2, <1>4 DEF Custody, SendsWithoutEvidence
  <2> QED  BY <2>1, <2>2
<1>10. DeliveriesAccounted'
  <2> SUFFICES ASSUME NEW p \in Posts, p # r PROVE Accounted(p)'
    BY DEF DeliveriesAccounted
  <2>1. ASSUME NEW v \in Workers
        PROVE  (At(v, "accepted") /\ wk[v].job = p)
                 <=> (At(v, "accepted")' /\ wk'[v].job = p)
    BY DEF At
  <2>2. Shown(p)' <=> Shown(p)  BY <2>1, <1>4 DEF Shown
  <2> QED  BY <2>2 DEF Custody, DeliveriesAccounted, Accounted
<1>11. RecoversUnseen'
  <2> SUFFICES ASSUME NEW v \in Workers
               PROVE  /\ wk'[v].pc # "recoverLogs" => Traced(wk[v].snap)'
                      /\ wk'[v].pc = "recoverFail" /\ <<v, wk'[v].job>> \in older'
                             => ~Evidence(wk[v].job)'
    BY DEF RecoversUnseen
  <2>1. \A q \in Posts : registry[q] # {} => registry'[q] # {}
    <3>1. registry[r] # {} => registry'[r] # {}  OBVIOUS
    <3> QED  BY <3>1
  <2>2. CASE v = w
    <3>1. Traced(wk[w].snap)  BY DEF Custody, RecoversUnseen
    <3>2. Traced(wk[w].snap)'  BY <2>1, <3>1 DEF Traced
    <3> QED  BY <2>2, <3>2
  <2>3. CASE v # w
    <3>1. wk'[v] = wk[v]  BY <2>3
    <3>2. r \notin aged  BY <1>0 DEF Custody, HolderAlone
    <3>3. <<v, r>> \notin older  BY <3>2 DEF Custody, OldIsAged
    <3>4. wk[v].pc # "recoverLogs" => Traced(wk[v].snap)  BY DEF Custody, RecoversUnseen
    <3>5. wk'[v].pc # "recoverLogs" => Traced(wk[v].snap)'
      BY <2>1, <3>1, <3>4 DEF Traced
    <3>6. ASSUME wk[v].pc = "recoverFail", <<v, wk[v].job>> \in older
          PROVE  ~Evidence(wk[v].job)'
      <4>1. wk[v].job \in Posts \ {r}
        BY <3>3, <3>6 DEF Custody, TypeInv, JobOK, Busy, PC
      <4>2. ~Evidence(wk[v].job)  BY <3>6 DEF Custody, RecoversUnseen
      <4> QED  BY <3>1, <4>1, <4>2, <1>4
    <3> QED  BY <3>1, <3>5, <3>6
  <2> QED  BY <2>2, <2>3
<1> QED  BY <1>5, <1>6, <1>7, <1>8, <1>9, <1>10, <1>11 DEF Custody

(* The steps of an attempt preserve it: only the claim makes a new holder,
   and only where nobody holds the post. *)
LEMMA AttemptCustody ==
  ASSUME Custody, TypeInv', QuietHost, NEW w \in Workers,
         \/ Claim(w) \/ ReadHistory(w) \/ QueryThrows(w) \/ ReadContent(w)
         \/ Check(w) \/ Release(w) \/ AttemptThrows(w) \/ SendCached(w)
         \/ PlatformAccepts(w) \/ PlatformRejects(w)
         \/ AnswerArrives(w) \/ AnswerLost(w)
  PROVE  Custody'
<1>0. wk[w] \in Worker /\ wk \in [Workers -> Worker] /\ TypeInv
      /\ (wk[w].pc \in Busy => wk[w].job \in Posts)
  BY DEF Custody, TypeInv, TypeOK, JobOK
<1>q. ASSUME \A v \in Workers : CalmWorker(v), UNCHANGED <<logVars, registry, delivered, lost>>,
             CalmRows
      PROVE  Custody'
  BY <1>q, CalmStep, SameEvidence DEF logVars
<1>r. PICK r \in Posts : r = wk[w].job
  BY <1>0 DEF Claim, ReadHistory, QueryThrows, ReadContent, Check, Release,
              AttemptThrows, SendCached, PlatformAccepts, PlatformRejects, PlatformCall,
              AnswerArrives, AnswerLost, At, Busy, PC, Holding
<1>1. CASE Claim(w)
  <2>1. CASE status[r] \in wk[w].from
    <3> DEFINE k == [wk[w] EXCEPT !.pc = "history", !.from = {}]
    <3>1. wk' = [wk EXCEPT ![w] = k]  BY <1>1, <1>r, <2>1, <1>0 DEF Claim
    <3>2. k.pc = "history" /\ k.job = r /\ k.snap = wk[w].snap
      BY <1>0, <1>r DEF Worker
    <3> HIDE DEF k
    <3>3. wk'[w] = k /\ \A v \in Workers \ {w} : wk'[v] = wk[v]  BY <3>1, <1>0
    <3>4. status[r] \in {"scheduled", "failed"}
      BY <2>1, <1>0 DEF Worker, Resting
    <3>5. \A v \in Workers : ~Holds(v, r)
      BY <3>4 DEF Custody, HolderAlone
    <3>6. /\ status' = [status EXCEPT ![r] = "publishing"] /\ aged' = aged \ {r}
          /\ older' = {x \in older : x[2] # r}
      BY <1>1, <1>r, <2>1 DEF Claim, Transition
    <3>7. UNCHANGED <<plogged, registry, delivered, lost>>
      BY <1>1 DEF Claim, logVars, platVars
    <3>8. status \in [Posts -> Status]  BY <1>0 DEF TypeInv, TypeOK
    <3>9. HolderAlone'
      <4> SUFFICES ASSUME NEW p \in Posts, NEW u \in Workers, Holds(u, p)'
                   PROVE  /\ \/ status'[p] = "publishing"
                             \/ status'[p] = "published" /\ Evidence(p)'
                          /\ p \notin aged'
                          /\ \A v \in Workers : Holds(v, p)' => v = u
        BY DEF HolderAlone
      <4>1. CASE p = r
        <5>1. \A v \in Workers : Holds(v, r)' => v = w  BY <3>3, <3>5 DEF Holds
        <5> QED  BY <4>1, <5>1, <3>6, <3>8
      <4>2. CASE p # r
        <5>1. \A v \in Workers : Holds(v, p)' => Holds(v, p)
          BY <4>2, <3>2, <3>3 DEF Holds
        <5>2. status'[p] = status[p] /\ (p \in aged' => p \in aged)
              /\ (Evidence(p)' <=> Evidence(p))
          BY <4>2, <3>6, <3>7, <3>8 DEF Evidence
        <5> QED  BY <5>1, <5>2 DEF Custody, HolderAlone
      <4> QED  BY <4>1, <4>2
    <3>10. OldIsAged'  BY <3>6 DEF Custody, OldIsAged
    <3>11. NoSecondRelease'  BY <3>2, <3>3 DEF Custody, NoSecondRelease
    <3>12. SettlesOnEvidence'
      BY <3>2, <3>3, <3>7 DEF Custody, SettlesOnEvidence, Evidence, Reporting
    <3>13. SendsWithoutEvidence'
      BY <3>2, <3>3, <3>7 DEF Custody, SendsWithoutEvidence, Evidence, Cleared
    <3>14. DeliveriesAccounted'
      <4>1. ASSUME NEW v \in Workers
            PROVE  /\ At(v, "accepted") <=> At(v, "accepted")'
                   /\ At(v, "accepted") => wk'[v].job = wk[v].job
        BY <3>2, <3>3, <1>1 DEF At, Claim
      <4>2. \A p \in Posts : Shown(p)' <=> Shown(p)
        BY <4>1, <3>7 DEF Shown, Evidence
      <4> QED
        BY <4>2, <3>7 DEF Custody, DeliveriesAccounted, Accounted
    <3>15. RecoversUnseen'
      <4> SUFFICES ASSUME NEW v \in Workers
                   PROVE  /\ wk'[v].pc # "recoverLogs" => Traced(wk[v].snap)'
                          /\ wk'[v].pc = "recoverFail" /\ <<v, wk'[v].job>> \in older'
                                 => ~Evidence(wk[v].job)'
        BY DEF RecoversUnseen
      <4>1. CASE v = w
        <5>1. Traced(wk[w].snap)  BY <1>1 DEF Claim, At, Custody, RecoversUnseen
        <5>2. Traced(wk[w].snap)'  BY <5>1, <3>2, <3>3, <3>7 DEF Traced
        <5> QED  BY <4>1, <5>2, <3>2, <3>3
      <4>2. CASE v # w
        <5>1. wk'[v] = wk[v]  BY <4>2, <3>3
        <5>2. wk[v].pc # "recoverLogs" => Traced(wk[v].snap)
          BY DEF Custody, RecoversUnseen
        <5>3. wk'[v].pc # "recoverLogs" => Traced(wk[v].snap)'
          BY <5>1, <5>2, <3>7 DEF Traced
        <5> QED  BY <5>1, <5>3, <3>6, <3>7 DEF Custody, RecoversUnseen, Evidence
      <4> QED  BY <4>1, <4>2
    <3> QED  BY <3>9, <3>10, <3>11, <3>12, <3>13, <3>14, <3>15 DEF Custody
  <2>2. CASE status[r] \notin wk[w].from
    <3>1. Return(w) /\ UNCHANGED rowVars  BY <1>1, <1>r, <2>2 DEF Claim, Transition
    <3> QED  BY <1>1, <3>1, <1>q, ReturnCalm, SameRows DEF Claim, At, platVars
  <2> QED  BY <2>1, <2>2
<1>2. CASE ReadHistory(w)
  <2> DEFINE l == IF Evidence(r) THEN "idemSettle" ELSE "content"
             k == [wk[w] EXCEPT !.attempt = fails[r] + 1, !.pc = l]
  <2>1. wk' = [wk EXCEPT ![w] = k] /\ wk[w].pc = "history"
    BY <1>2, <1>r, <1>0 DEF ReadHistory, At
  <2>2. l \in Reporting => Evidence(r)  BY DEF Reporting
  <2>3. l \in Cleared => ~Evidence(r)  BY DEF Cleared
  <2>4. l \notin {"accepted", "recatch", "recoverFail"}  OBVIOUS
  <2> HIDE DEF l
  <2>5. k.pc = l /\ k.job = r /\ k.snap = wk[w].snap  BY <1>0, <1>r DEF Worker
  <2> HIDE DEF k
  <2>6. k.pc \in Holding => wk[w].pc \in Holding /\ k.job = wk[w].job
    BY <2>1, <2>5, <1>r DEF Holding
  <2>7. k.pc \in Reporting => Evidence(k.job)  BY <2>2, <2>5
  <2>8. k.pc \in Cleared => ~Evidence(k.job)  BY <2>3, <2>5
  <2>10. Traced(k.snap)  BY <2>1, <2>5 DEF Custody, RecoversUnseen
  <2>11. \A q \in Posts : k.snap[q] = "sent" => wk[w].snap[q] = "sent" \/ plogged[q]
    BY <2>5
  <2>12. k.pc \notin {"accepted", "recatch", "recoverFail"} /\ wk[w].pc # "accepted"
         /\ wk' = [wk EXCEPT ![w] = k]
    BY <2>1, <2>4, <2>5
  <2>9. \A v \in Workers : CalmWorker(v)
    BY <2>6, <2>7, <2>8, <2>10, <2>11, <2>12, SetCalm
  <2> QED  BY <1>2, <2>9, <1>q, SameRows DEF ReadHistory, platVars
<1>3. CASE QueryThrows(w)
  <2>1. wk[w].pc \notin {"accepted", "recoverLogs"}  BY <1>3 DEF QueryThrows
  <2> QED  BY <1>3, <2>1, <1>q, ReturnCalm, SameRows DEF QueryThrows, platVars
<1>4. CASE ReadContent(w) \/ Check(w) \/ AttemptThrows(w)
  <2>1. PICK l \in {"checks", "cancelSelf", "skip", "send", "catch"} :
          Goto(w, l) /\ wk[w].pc \in Cleared \ {"accepted"}
    BY <1>4 DEF ReadContent, Check, AttemptThrows, At, Cleared
  <2>2. wk[w].pc \in Holding \ {"accepted"}
    BY <1>4 DEF ReadContent, Check, AttemptThrows, At, Holding
  <2>3. l \in Cleared => ~Evidence(wk[w].job)
    BY <2>1, <1>r DEF Custody, SendsWithoutEvidence
  <2>4. l \in PC \ {"accepted", "recatch", "recoverFail"} /\ l \notin Reporting
    BY DEF PC, Holding, Reporting
  <2>5. wk[w].pc \in Busy \ {"accepted"}  BY <2>2 DEF Busy, PC, Holding
  <2>6. \A v \in Workers : CalmWorker(v)
    BY <2>1, <2>2, <2>3, <2>4, <2>5, GotoCalm
  <2> QED
    BY <1>4, <2>6, <1>q, SameRows DEF ReadContent, Check, AttemptThrows, platVars
<1>5. CASE Release(w)
  <2>1. Return(w) /\ wk[w].pc \in Holding \ {"accepted"}
    BY <1>5 DEF Release, QuietHost, At, Holding
  <2>7. wk[w].pc \notin {"accepted", "recoverLogs"}  BY <2>1 DEF Holding
  <2>2. \A v \in Workers : CalmWorker(v) /\ ~\E p \in Posts : Holds(w, p)'
    BY <2>1, <2>7, ReturnCalm
  <2>3. \A q \in Posts, v \in Workers : Holds(v, q)' => Holds(v, q)
    BY <2>2 DEF CalmWorker, Holds
  <2>4. Holds(w, r)  BY <2>1, <1>r DEF Holds
  <2>5. \A v \in Workers : ~Holds(v, r)'
    <3>1. \A v \in Workers : Holds(v, r) => v = w
      BY <2>4 DEF Custody, HolderAlone
    <3> QED  BY <2>2, <2>3, <3>1
  <2>6. CalmRows
    <3>1. CASE Transition(r, {"publishing"}, "cancelled")
      BY <3>1, <2>3, <2>5, TransitionCalm
    <3>2. CASE Transition(r, {"publishing"}, wk[w].prior)
      BY <3>2, <2>3, <2>5, TransitionCalm
    <3> QED  BY <1>5, <1>r, <3>1, <3>2 DEF Release
  <2> QED  BY <1>5, <2>2, <2>6, <1>q DEF Release, platVars
<1>6. CASE SendCached(w)
  <2>1. Evidence(r)
    BY <1>6, <1>r DEF SendCached, Evidence
  <2>2. FALSE
    BY <1>6, <1>r, <2>1 DEF SendCached, At, Custody, SendsWithoutEvidence, Cleared
  <2> QED  BY <2>2
<1>p. wk[w].pc \in {"send", "accepted"} => 
        /\ ~Evidence(r) /\ Holds(w, r)
        /\ \A v \in Workers : Holds(v, r) => v = w
  BY <1>r DEF Custody, SendsWithoutEvidence, Cleared, Holds, Holding, HolderAlone
<1>t. registry \in [Posts -> SUBSET Nat] /\ delivered \in [Posts -> Nat]
      /\ lost \in [Posts -> Nat]
  BY <1>0 DEF TypeInv, TypeOK
<1>g. ASSUME NEW l \in PC, Goto(w, l)
      PROVE  /\ wk'[w].pc = l /\ wk'[w].job = r /\ wk'[w].snap = wk[w].snap
             /\ \A v \in Workers \ {w} : wk'[v] = wk[v]
  BY <1>g, <1>0, <1>r DEF Goto, Worker
<1>7. CASE PlatformAccepts(w)
  <2>1. wk[w].pc = "send" /\ delivered[r] = lost[r]
    <3>1. wk[w].pc = "send"  BY <1>7 DEF PlatformAccepts, PlatformCall, At
    <3>2. ~\E v \in Workers : At(v, "accepted") /\ wk[v].job = r
      BY <3>1, <1>p DEF At, Holds, Holding
    <3>3. ~Shown(r)  BY <3>1, <3>2, <1>p DEF Shown
    <3> QED  BY <3>1, <3>3, <1>t DEF Custody, DeliveriesAccounted, Accounted
  <2>2. /\ delivered' = [delivered EXCEPT ![r] = @ + 1] /\ lost' = lost
        /\ UNCHANGED rowVars /\ plogged' = plogged
    BY <1>7, <1>r DEF PlatformAccepts, PlatformCall, logVars
  <2>3. delivered'[r] = lost'[r] + 1  BY <2>1, <2>2, <1>t
  <2>4. CASE LiveConnector
    <3>1. Goto(w, "accepted") /\ registry' = registry
      BY <1>7, <2>4 DEF PlatformAccepts
    <3>2. wk'[w].pc = "accepted" /\ wk'[w].job = r /\ wk'[w].snap = wk[w].snap
          /\ \A v \in Workers \ {w} : wk'[v] = wk[v]
      BY <3>1, <1>g DEF PC, Holding
    <3>3. ~Evidence(r)'  BY <2>1, <2>2, <3>1, <1>p DEF Evidence
    <3>4. Accounted(r)'  BY <2>3, <3>2 DEF Accounted, Shown, At
    <3> QED  BY <1>r, <1>t, <2>1, <2>2, <3>1, <3>2, <3>3, <3>4, PlatformStep DEF rowVars
  <2>5. CASE ~LiveConnector
    <3>1. Goto(w, "settlePub") /\ Register(w)
      BY <1>7, <2>5 DEF PlatformAccepts
    <3>2. wk'[w].pc = "settlePub" /\ wk'[w].job = r /\ wk'[w].snap = wk[w].snap
          /\ \A v \in Workers \ {w} : wk'[v] = wk[v]
      BY <3>1, <1>g DEF PC, Holding
    <3>3. registry' = [registry EXCEPT ![r] = @ \cup {wk[w].attempt}]
      BY <3>1, <1>r DEF Register
    <3>4. Evidence(r)'  BY <3>3, <1>t DEF Evidence
    <3>5. Accounted(r)'  BY <2>3, <3>4 DEF Accounted, Shown
    <3> QED  BY <1>r, <1>t, <2>1, <2>2, <3>2, <3>3, <3>4, <3>5, PlatformStep DEF rowVars
  <2> QED  BY <2>4, <2>5
<1>8. CASE PlatformRejects(w)
  <2>1. Goto(w, "settleFail") /\ wk[w].pc = "send"
    BY <1>8 DEF PlatformRejects, PlatformCall, At
  <2>3. ~Evidence(wk[w].job)  BY <2>1, <1>p, <1>r
  <2>2. \A v \in Workers : CalmWorker(v)
    BY <2>1, <2>3, GotoCalm DEF PC, Holding, Busy, Reporting, Cleared
  <2> QED  BY <1>8, <2>2, <1>q, SameRows DEF PlatformRejects, PlatformCall
<1>9. CASE AnswerArrives(w)
  <2>1. Goto(w, "settlePub") /\ Register(w) /\ wk[w].pc = "accepted"
        /\ UNCHANGED <<rowVars, plogged, delivered, lost>>
    BY <1>9 DEF AnswerArrives, At, logVars
  <2>2. wk'[w].pc = "settlePub" /\ wk'[w].job = r /\ wk'[w].snap = wk[w].snap
        /\ \A v \in Workers \ {w} : wk'[v] = wk[v]
    BY <2>1, <1>g DEF PC, Holding
  <2>3. registry' = [registry EXCEPT ![r] = @ \cup {wk[w].attempt}]
    BY <2>1, <1>r DEF Register
  <2>4. Evidence(r)'  BY <2>3, <1>t DEF Evidence
  <2>5. delivered[r] = lost[r] + 1
    BY <2>1, <1>r DEF Custody, DeliveriesAccounted, Accounted, Shown, At
  <2>6. Accounted(r)'  BY <2>1, <2>4, <2>5 DEF Accounted, Shown
  <2> QED  BY <1>r, <1>t, <2>1, <2>2, <2>3, <2>4, <2>6, PlatformStep DEF rowVars
<1>10. CASE AnswerLost(w)
  <2>1. Goto(w, "settleFail") /\ wk[w].pc = "accepted"
        /\ lost' = [lost EXCEPT ![r] = @ + 1]
        /\ UNCHANGED <<rowVars, plogged, registry, delivered>>
    BY <1>10, <1>r DEF AnswerLost, At, logVars
  <2>2. wk'[w].pc = "settleFail" /\ wk'[w].job = r /\ wk'[w].snap = wk[w].snap
        /\ \A v \in Workers \ {w} : wk'[v] = wk[v]
    BY <2>1, <1>g DEF PC, Holding
  <2>3. delivered[r] = lost[r] + 1
    BY <2>1, <1>r DEF Custody, DeliveriesAccounted, Accounted, Shown, At
  <2>5. ~Evidence(r)'  BY <2>1, <1>p DEF Evidence
  <2>6. ~\E v \in Workers : At(v, "accepted")' /\ wk'[v].job = r
    BY <2>1, <2>2, <1>p DEF At, Holds, Holding
  <2>4. Accounted(r)'  BY <2>1, <2>3, <2>5, <2>6, <1>t DEF Accounted, Shown
  <2> QED  BY <1>r, <1>t, <2>1, <2>2, <2>4, <2>5, PlatformStep DEF rowVars
<1> QED  BY <1>1, <1>2, <1>3, <1>4, <1>5, <1>6, <1>7, <1>8, <1>9, <1>10

(* The settling steps and the clicks preserve it.                          *)
LEMMA SettleCustody ==
  ASSUME Custody, TypeInv', QuietHost, NEW w \in Workers,
         \/ SettlePublished(w) \/ PinThrows(w) \/ LogPublished(w)
         \/ SettleFailed(w) \/ LogFailed(w) \/ DeadLetter(w)
         \/ LogThrows(w) \/ AuditThrows(w) \/ RequeueLog(w) \/ RescheduleWrite(w)
         \/ \E p \in Posts : Click(w, p)
  PROVE  Custody'
<1>0. wk[w] \in Worker /\ wk \in [Workers -> Worker] /\ TypeInv
      /\ (wk[w].pc \in Busy => wk[w].job \in Posts)
      /\ plogged \in [Posts -> BOOLEAN]
  BY DEF Custody, TypeInv, TypeOK, JobOK
<1>q. ASSUME \A v \in Workers : CalmWorker(v), UNCHANGED <<plogged, platVars>>, CalmRows
      PROVE  Custody'
  BY <1>q, CalmStep, SameEvidence DEF platVars
<1>l. UNCHANGED logVars => UNCHANGED plogged  BY DEF logVars
<1>1. CASE SettlePublished(w)
  <2>1. PICK r \in Posts : r = wk[w].job
    BY <1>1, <1>0 DEF SettlePublished, Busy, PC, Holding
  <2>2. wk[w].pc \in Busy \ {"accepted"} /\ Goto(w, "logPub")
    BY <1>1 DEF SettlePublished, Busy, PC, Holding
  <2>3. Evidence(r)
    BY <1>1, <2>1 DEF SettlePublished, Custody, SettlesOnEvidence, Reporting
  <2>4. \A v \in Workers : CalmWorker(v)
    BY <2>1, <2>2, <2>3, GotoCalm DEF PC, Holding, Cleared
  <2>5. \A q \in Posts, v \in Workers : Holds(v, q)' => Holds(v, q)
    BY <2>4 DEF CalmWorker, Holds
  <2>6. CalmRows
    BY <1>1, <2>1, <2>3, <2>5, TransitionCalm DEF SettlePublished
  <2> QED  BY <1>1, <1>l, <2>4, <2>6, <1>q DEF SettlePublished
<1>2. CASE PinThrows(w)
  <2>1. PICK r \in Posts : r = wk[w].job
    BY <1>2, <1>0 DEF PinThrows, At, Busy, PC, Holding
  <2>2. wk[w].pc \in Busy \ {"accepted"} /\ Goto(w, "logPub")
    BY <1>2 DEF PinThrows, At, Busy, PC, Holding
  <2>3. Evidence(r)
    BY <1>2, <2>1 DEF PinThrows, At, Custody, SettlesOnEvidence, Reporting
  <2>4. \A v \in Workers : CalmWorker(v)
    BY <2>1, <2>2, <2>3, GotoCalm DEF PC, Holding, Cleared
  <2> QED  BY <1>2, <1>l, <2>4, <1>q, SameRows DEF PinThrows
<1>3. CASE LogPublished(w)
  <2>1. PICK r \in Posts : r = wk[w].job
    BY <1>3, <1>0 DEF LogPublished, At, Busy, PC
  <2>2. Evidence(r)
    BY <1>3, <2>1 DEF LogPublished, At, Custody, SettlesOnEvidence, Reporting
  <2>3. plogged' = [plogged EXCEPT ![r] = TRUE] /\ UNCHANGED platVars
    BY <1>3, <2>1 DEF LogPublished
  <2>4. CalmEvidence
    BY <1>0, <2>2, <2>3 DEF CalmEvidence, Evidence, platVars
  <2>5. \A v \in Workers : CalmWorker(v)
    BY <1>3, ReturnCalm DEF LogPublished, At
  <2> QED  BY <1>3, <2>4, <2>5, CalmStep, SameRows DEF LogPublished
<1>4. CASE SettleFailed(w)
  <2>1. PICK r \in Posts : r = wk[w].job
    BY <1>4, <1>0 DEF SettleFailed, Busy, PC, Holding
  <2>2. wk[w].pc \in {"settleFail", "catch"}
    BY <1>4 DEF SettleFailed, Custody, NoSecondRelease
  <2>3. PICK l \in {"logFail", "catchLog"} : Goto(w, l)
    BY <1>4 DEF SettleFailed
  <2>4. wk[w].pc \in Busy \ {"accepted"} /\ Holds(w, r)
    BY <2>1, <2>2 DEF Busy, PC, Holding, Holds
  <2>5. l \in PC \ {"accepted", "recatch", "recoverFail"} /\ l \notin Holding
        /\ l \notin Reporting /\ l \notin Cleared
    BY DEF PC, Holding, Reporting, Cleared
  <2>6. \A v \in Workers : CalmWorker(v)
    BY <2>3, <2>4, <2>5, GotoCalm
  <2>7. \A q \in Posts, v \in Workers : Holds(v, q)' => Holds(v, q)
    BY <2>6 DEF CalmWorker, Holds
  <2>8. \A v \in Workers : ~Holds(v, r)'
    <3>1. \A v \in Workers : Holds(v, r) => v = w
      BY <2>4 DEF Custody, HolderAlone
    <3>2. wk'[w].pc = l  BY <2>3, <2>5, <1>0 DEF Goto, Worker
    <3> QED  BY <2>5, <2>7, <3>1, <3>2 DEF Holds
  <2>9. CalmRows
    BY <1>4, <2>1, <2>7, <2>8, TransitionCalm DEF SettleFailed
  <2> QED  BY <1>4, <1>l, <2>6, <2>9, <1>q DEF SettleFailed
<1>5. CASE LogFailed(w)
  <2>1. wk[w].pc \in Busy \ {"accepted"}
    BY <1>5 DEF LogFailed, Busy, PC, Holding
  <2>4. wk[w].pc \notin {"accepted", "recoverLogs"}  BY <1>5 DEF LogFailed
  <2>2. CASE Goto(w, "deadLetter")
    <3>1. \A v \in Workers : CalmWorker(v)
      BY <2>1, <2>2, GotoCalm DEF PC, Holding, Reporting, Cleared
    <3> QED  BY <1>5, <3>1, <1>q, SameRows DEF LogFailed
  <2>3. CASE Return(w)
    BY <1>5, <2>4, <2>3, <1>q, ReturnCalm, SameRows DEF LogFailed
  <2> QED  BY <1>5, <2>2, <2>3 DEF LogFailed
<1>6. CASE DeadLetter(w)
  <2>1. PICK r \in Posts : r = wk[w].job
    BY <1>6, <1>0 DEF DeadLetter, At, Busy, PC
  <2>2. \A v \in Workers : CalmWorker(v)
    BY <1>6, ReturnCalm DEF DeadLetter, At
  <2>3. \A q \in Posts, v \in Workers : Holds(v, q)' => Holds(v, q)
    BY <2>2 DEF CalmWorker, Holds
  <2>4. CalmRows
    BY <1>6, <2>1, <2>3, TransitionCalm DEF DeadLetter
  <2> QED  BY <1>6, <1>l, <2>2, <2>4, <1>q DEF DeadLetter
<1>7. CASE LogThrows(w) \/ AuditThrows(w)
  BY <1>7 DEF LogThrows, AuditThrows, QuietHost
<1>8. CASE RequeueLog(w)
  BY <1>8, <1>q, ReturnCalm, SameRows DEF RequeueLog, At
<1>9. CASE RescheduleWrite(w)
  <2>1. \A v \in Workers : CalmWorker(v)
    BY <1>9, ReturnCalm DEF RescheduleWrite, At
  <2>2. OldIsAged'  BY <1>9 DEF RescheduleWrite, Custody, OldIsAged
  <2>3. CalmRows  BY <1>9, <2>2 DEF RescheduleWrite, CalmRows
  <2> QED  BY <1>9, <1>l, <2>1, <2>3, <1>q DEF RescheduleWrite
<1>10. ASSUME NEW r \in Posts, Click(w, r) PROVE Custody'
  <2>1. PICK k : /\ wk' = [wk EXCEPT ![w] = k]
                 /\ k.pc \in {"claim", "requeueLog", "reschedule"}
                 /\ \A q \in Posts : k.snap[q] \in {"sent", "stale"} => k.snap[q] = wk[w].snap[q]
    <3>1. CASE PublishNow(w, r)
      <4> DEFINE e == Entered(wk[w], r, Resting)
      <4>1. wk' = [wk EXCEPT ![w] = e]  BY <3>1, <1>0 DEF PublishNow
      <4>2. e.pc = "claim"
            /\ \A q \in Posts : e.snap[q] \in {"sent", "stale"} => e.snap[q] = wk[w].snap[q]
        BY <1>0 DEF Entered, Worker
      <4> HIDE DEF e
      <4> QED  BY <4>1, <4>2
    <3>2. CASE Requeue(w, r) \/ Reschedule(w, r)
      <4> DEFINE e(l) == [wk[w] EXCEPT !.pc = l, !.job = r]
      <4>1. \E l \in {"requeueLog", "reschedule"} : wk' = [wk EXCEPT ![w] = e(l)]
        BY <3>2, <1>0 DEF Requeue, Reschedule
      <4>2. \A l \in {"requeueLog", "reschedule"} :
              e(l).pc = l /\ e(l).snap = wk[w].snap
        BY <1>0 DEF Worker
      <4> HIDE DEF e
      <4> QED  BY <4>1, <4>2
    <3> QED  BY <1>10, <3>1, <3>2 DEF Click
  <2>2. k.pc \notin Holding /\ k.pc \notin Reporting /\ k.pc \notin Cleared
        /\ k.pc \notin {"accepted", "recatch", "recoverFail"} /\ wk[w].pc = "idle"
    BY <2>1, <1>10 DEF Holding, Reporting, Cleared, Click, PublishNow, Requeue,
                       Reschedule, At
  <2>3. \A v \in Workers : CalmWorker(v)
    <3>1. \A q \in Posts : k.snap[q] = "sent" => wk[w].snap[q] = "sent" \/ plogged[q]
      BY <2>1
    <3>2. wk' = [wk EXCEPT ![w] = k]  BY <2>1
    <3>3. Traced(k.snap)  BY <2>1, <2>2 DEF Custody, RecoversUnseen, Traced
    <3> QED  BY <2>2, <3>1, <3>2, <3>3, SetCalm
  <2>4. \A q \in Posts, v \in Workers : Holds(v, q)' => Holds(v, q)
    BY <2>3 DEF CalmWorker, Holds
  <2>5. CalmRows
    <3>1. CASE Requeue(w, r)
      BY <3>1, <2>4, TransitionCalm DEF Requeue
    <3>2. CASE PublishNow(w, r) \/ Reschedule(w, r)
      BY <3>2, SameRows DEF PublishNow, Reschedule
    <3> QED  BY <1>10, <3>1, <3>2 DEF Click
  <2>6. UNCHANGED <<plogged, platVars>>
    BY <1>10 DEF Click, PublishNow, Requeue, Reschedule, logVars
  <2> QED  BY <2>3, <2>5, <2>6, <1>q
<1> QED  BY <1>1, <1>2, <1>3, <1>4, <1>5, <1>6, <1>7, <1>8, <1>9, <1>10

(* Time, crashes and restarts preserve it: a claim ages without a holder.  *)
LEMMA EnvironmentCustody ==
  ASSUME Custody, TypeInv', QuietHost,
         \/ \E p \in Posts : \/ Cancel(p) \/ Demote(p) \/ BecomesDue(p)
                             \/ BackoffElapses(p) \/ ClaimAges(p)
         \/ \E g \in AllGates : CloseGate(g) \/ OpenGate(g)
         \/ \E w \in Workers : Die(w)
         \/ Restart
  PROVE  Custody'
<1>0. wk \in [Workers -> Worker] /\ TypeInv  BY DEF Custody, TypeInv, TypeOK
<1>i. /\ IdleWorker.pc = "idle" /\ \A p \in Posts : IdleWorker.snap[p] \notin {"sent", "stale"}
      /\ "idle" \notin Holding /\ "idle" \notin Reporting /\ "idle" \notin Cleared
  BY DEF IdleWorker, Nothing, Holding, Reporting, Cleared
<1>q. ASSUME UNCHANGED <<wk, plogged, registry, delivered, lost>>, CalmRows PROVE Custody'
  BY <1>q, CalmStep, SameEvidence DEF CalmWorker
<1>1. ASSUME NEW p \in Posts, Cancel(p) PROVE Custody'
  <2>1. \A q \in Posts, v \in Workers : Holds(v, q)' => Holds(v, q)
    BY <1>1 DEF Cancel, Holds
  <2>2. CalmRows  BY <1>1, <2>1, TransitionCalm DEF Cancel
  <2> QED  BY <1>1, <2>2, <1>q DEF Cancel, logVars, platVars
<1>2. ASSUME NEW p \in Posts, Demote(p) \/ BecomesDue(p) \/ BackoffElapses(p)
      PROVE  Custody'
  BY <1>2, <1>q, SameRows DEF Demote, BecomesDue, BackoffElapses, logVars, platVars
<1>3. ASSUME NEW p \in Posts, ClaimAges(p) PROVE Custody'
  <2>1. \A v \in Workers : ~Holds(v, p)  BY <1>3 DEF ClaimAges, QuietHost
  <2>2. CalmRows
    BY <1>3, <2>1 DEF ClaimAges, CalmRows, Holds, Custody, OldIsAged
  <2> QED  BY <1>3, <2>2, <1>q DEF ClaimAges, logVars, platVars
<1>4. ASSUME NEW g \in AllGates, CloseGate(g) \/ OpenGate(g) PROVE Custody'
  BY <1>4, <1>q, SameRows DEF CloseGate, OpenGate, logVars, platVars
<1>5. ASSUME NEW w \in Workers, Die(w) PROVE Custody'
  <2>1. /\ wk'[w] = IdleWorker /\ \A v \in Workers \ {w} : wk'[v] = wk[v]
        /\ status' = status /\ aged' = aged /\ older' \subseteq older
        /\ plogged' = plogged /\ registry' = registry /\ delivered' = delivered
    BY <1>5, <1>0 DEF Die, logVars
  <2>2. CASE wk[w].pc = "accepted"
    <3>1. PICK r \in Posts : r = wk[w].job
      BY <2>2, <1>0 DEF TypeInv, JobOK, Busy, PC, Holding
    <3>2. lost' = [lost EXCEPT ![r] = @ + 1]
      BY <1>5, <2>2, <3>1 DEF Die, At
    <3>3. delivered \in [Posts -> Nat] /\ lost \in [Posts -> Nat]
          /\ registry \in [Posts -> SUBSET Nat]
      BY <1>0 DEF TypeInv, TypeOK
    <3>5. Holds(w, r) /\ ~Evidence(r)
      BY <2>2, <3>1 DEF Holds, Holding, Custody, SendsWithoutEvidence, Cleared
    <3>6. ~Shown(r)'
      BY <1>i, <2>1, <3>5
      DEF Shown, At, Evidence, Custody, HolderAlone, Holds, Holding
    <3>7. delivered[r] = lost[r] + 1
      BY <2>2, <3>1 DEF Custody, DeliveriesAccounted, Accounted, Shown, At
    <3>4. Accounted(r)'  BY <2>1, <3>2, <3>3, <3>6, <3>7 DEF Accounted
    <3> QED  BY <1>i, <2>1, <2>2, <3>1, <3>2, <3>3, <3>4, PlatformStep
  <2>3. CASE wk[w].pc # "accepted"
    <3>1. lost' = lost  BY <1>5, <2>3 DEF Die, At
    <3>2. \A v \in Workers : CalmWorker(v)
      BY <1>i, <2>1, <2>3 DEF CalmWorker, Holds, Traced
    <3>3. OldIsAged'  BY <2>1 DEF Custody, OldIsAged
    <3>4. CalmRows  BY <2>1, <3>3 DEF CalmRows
    <3> QED  BY <2>1, <3>1, <3>2, <3>4, CalmStep, SameEvidence
  <2> QED  BY <2>2, <2>3
<1>6. CASE Restart
  <2>1. \A v \in Workers : wk'[v] = IdleWorker  BY <1>6 DEF Restart
  <2>2. \A v \in Workers :
          wk'[v].pc = "idle" /\ \A p \in Posts : wk'[v].snap[p] \notin {"sent", "stale"}
    BY <2>1, <1>i
  <2>3. HolderAlone' /\ NoSecondRelease' /\ SettlesOnEvidence' /\ SendsWithoutEvidence'
    BY <2>2, <1>i DEF HolderAlone, NoSecondRelease, SettlesOnEvidence,
                      SendsWithoutEvidence, Holds
  <2>6. RecoversUnseen'  BY <2>2 DEF RecoversUnseen, Traced
  <2>4. OldIsAged'  BY <1>6 DEF Restart, OldIsAged
  <2>5. DeliveriesAccounted'
    <3> SUFFICES ASSUME NEW p \in Posts PROVE Accounted(p)'
      BY DEF DeliveriesAccounted
    <3> DEFINE inMemory == /\ ~plogged[p]
                           /\ \/ registry[p] # {}
                              \/ \E v \in Workers : At(v, "accepted") /\ wk[v].job = p
    <3>1. /\ lost'[p] = IF inMemory THEN lost[p] + 1 ELSE lost[p]
          /\ delivered'[p] = delivered[p] /\ plogged' = plogged
      BY <1>6 DEF Restart, logVars
    <3>2. delivered[p] \in Nat /\ lost[p] \in Nat  BY <1>0 DEF TypeInv, TypeOK
    <3>3. Accounted(p)  BY DEF Custody, DeliveriesAccounted
    <3>4. Shown(p)' <=> plogged[p]
      BY <1>6, <2>2, <3>1 DEF Shown, Evidence, At, Restart
    <3>5. Shown(p) <=> plogged[p] \/ inMemory  BY DEF Shown, Evidence
    <3> HIDE DEF inMemory
    <3>6. inMemory => ~plogged[p]  BY DEF inMemory
    <3> QED  BY <3>1, <3>2, <3>3, <3>4, <3>5, <3>6 DEF Accounted
  <2> QED  BY <2>3, <2>4, <2>5, <2>6 DEF Custody
<1> QED  BY <1>1, <1>2, <1>3, <1>4, <1>5, <1>6

(* The custody of every post is an invariant of a quiet host.              *)
LEMMA CustodyInvariant ==
  ASSUME QuietHost
  PROVE  Spec => []Custody
<1>1. Init => Custody
  <2> SUFFICES ASSUME Init PROVE Custody
    OBVIOUS
  <2>1. \A w \in Workers : wk[w] = IdleWorker  BY DEF Init
  <2>2. \A w \in Workers : wk[w].pc = "idle" /\ \A p \in Posts : wk[w].snap[p] = "none"
    BY <2>1 DEF IdleWorker, Nothing
  <2>3. HolderAlone /\ OldIsAged /\ NoSecondRelease
    BY <2>2 DEF Init, HolderAlone, OldIsAged, NoSecondRelease, Holds, Holding
  <2>4. SettlesOnEvidence /\ SendsWithoutEvidence /\ RecoversUnseen
    BY <2>2 DEF SettlesOnEvidence, SendsWithoutEvidence, RecoversUnseen, Traced,
                Reporting, Cleared
  <2>5. \A p \in Posts : ~Shown(p)  BY <2>2 DEF Init, Shown, Evidence, At
  <2>6. DeliveriesAccounted  BY <2>5 DEF Init, DeliveriesAccounted, Accounted
  <2> QED  BY InitType, <2>3, <2>4, <2>6 DEF Custody
<1>2. Custody /\ [Next]_vars => Custody'
  <2> SUFFICES ASSUME Custody, [Next]_vars PROVE Custody'
    OBVIOUS
  <2>1. TypeInv'  BY TypeStep DEF Custody
  <2>2. CASE UNCHANGED vars
    BY <2>1, <2>2, CalmStep, SameEvidence, SameRows
    DEF vars, rowVars, logVars, platVars, CalmWorker
  <2>3. CASE Next
    BY <2>1, <2>3, TickCustody, AttemptCustody, SettleCustody, EnvironmentCustody
    DEF Next, Step
  <2> QED  BY <2>2, <2>3
<1> QED  BY <1>1, <1>2, PTL DEF Spec

(* The atomic claim: wherever requests end before the stale limit and the
   log tables take their inserts, no two requests ever work on one post and
   the row of a post being worked on stays in flight, for any number of
   posts, ticks, clicks, crashes, restarts and lost answers. *)
THEOREM ClaimIsExclusive ==
  ASSUME QuietHost
  PROVE  Spec => []ExclusiveClaim
<1>1. Custody => ExclusiveClaim
  BY DEF Custody, HolderAlone, ExclusiveClaim
<1> QED  BY <1>1, CustodyInvariant, PTL

(* Publish idempotency, on the same hosts: the platform receives a post once,
   plus once for every time the only evidence of an acceptance was lost. *)
THEOREM DeliveredOncePerLoss ==
  ASSUME QuietHost
  PROVE  Spec => []OneDeliveryPerLoss
<1>1. Custody => OneDeliveryPerLoss
  BY DEF Custody, DeliveriesAccounted, Accounted, OneDeliveryPerLoss, TypeInv, TypeOK
<1> QED  BY <1>1, CustodyInvariant, PTL

---------------------------------------------------------------------------
(* The queue implements what it promises of each post.                     *)

(* Where a row's status puts its post.                                     *)
LEMMA Places ==
  /\ PlaceOf["scheduled"] = "queue" /\ PlaceOf["failed"] = "queue"
  /\ PlaceOf["publishing"] = "flight" /\ PlaceOf["published"] = "out"
  /\ PlaceOf["dead"] = "parked" /\ PlaceOf["cancelled"] = "gone"
BY DEF PlaceOf

(* One step of one post, as the promise has it, in the queue's own terms.   *)
Same(p) == delivered'[p] = delivered[p] /\ lost'[p] = lost[p]
Becomes(p, from, to) == status[p] \in from /\ status'[p] \in to /\ Same(p)
Promised(p) ==
  \/ status'[p] = status[p] /\ Same(p)
  \/ Becomes(p, Resting, {"publishing"})
  \/ Becomes(p, {"publishing"}, Resting \cup {"cancelled"}) /\ ~Shown(p)
  \/ Becomes(p, {"publishing"}, {"published"}) /\ Shown(p)
  \/ Becomes(p, Resting, {"dead", "cancelled"})
  \/ Becomes(p, {"dead"}, {"scheduled", "cancelled"})
  \/ /\ status[p] = "publishing" /\ status'[p] = status[p] /\ ~Shown(p)
     /\ delivered'[p] = delivered[p] + 1 /\ lost'[p] = lost[p]
  \/ /\ status'[p] = status[p] /\ Shown(p)
     /\ delivered'[p] = delivered[p] /\ lost'[p] = lost[p] + 1

(* A step that does to every post what is promised is a step of the promise. *)
LEMMA PromisedStep ==
  ASSUME Custody, TypeInv', \A p \in Posts : Promised(p)
  PROVE  Promise!Next
<1> SUFFICES ASSUME NEW p \in Posts
             PROVE  \/ Promise!Take(p) \/ Promise!PutBack(p) \/ Promise!Withdraw(p)
                    \/ Promise!Confirm(p) \/ Promise!Park(p) \/ Promise!Revive(p)
                    \/ Promise!Cancel(p) \/ Promise!Send(p) \/ Promise!LoseSight(p)
                    \/ Promise!Rests(p)
  BY DEF Promise!Next
<1> DEFINE place == [q \in Posts |-> PlaceOf[status[q]]]
<1>1. place[p] = PlaceOf[status[p]] /\ place'[p] = PlaceOf[status'[p]]
  OBVIOUS
<1>2. delivered[p] \in Nat /\ lost[p] \in Nat
  BY DEF Custody, TypeInv, TypeOK
<1>3. delivered[p] = lost[p] + (IF Shown(p) THEN 1 ELSE 0)
  BY DEF Custody, DeliveriesAccounted, Accounted
<1>4. (Shown(p) => delivered[p] > lost[p]) /\ (~Shown(p) => ~(delivered[p] > lost[p]))
  BY <1>2, <1>3
<1>5. Same(p) => Promise!SameCounts(p)  BY DEF Same, Promise!SameCounts
<1>6. status'[p] = status[p] => Promise!Stays(p)  BY <1>1 DEF Promise!Stays
<1>7. Promise!KnownUp(p) <=> Shown(p)  BY <1>4 DEF Promise!KnownUp
<1>m. ASSUME NEW from, NEW to, PlaceOf[status[p]] = from, PlaceOf[status'[p]] = to
      PROVE  Promise!Moves(p, from, to)
  BY <1>1, <1>m DEF Promise!Moves
<1> HIDE DEF place
<1> USE Places DEF Resting
<1>8. CASE status'[p] = status[p] /\ Same(p)
  BY <1>5, <1>6, <1>8 DEF Promise!Rests
<1>9. CASE Becomes(p, Resting, {"publishing"})
  <2>1. Promise!Take(p)  BY <1>5, <1>9, <1>m DEF Becomes, Promise!Take
  <2> QED  BY <2>1
<1>10. CASE Becomes(p, {"publishing"}, Resting \cup {"cancelled"}) /\ ~Shown(p)
  <2>1. CASE status'[p] \in Resting
    <3>1. Promise!Moves(p, "flight", "queue")  BY <1>10, <2>1, <1>m DEF Becomes
    <3> QED  BY <3>1, <1>5, <1>7, <1>10 DEF Becomes, Promise!PutBack
  <2>2. CASE status'[p] = "cancelled"
    <3>1. Promise!Moves(p, "flight", "gone")  BY <1>10, <2>2, <1>m DEF Becomes
    <3> QED  BY <3>1, <1>5, <1>7, <1>10 DEF Becomes, Promise!Withdraw
  <2> QED  BY <1>10, <2>1, <2>2 DEF Becomes
<1>11. CASE Becomes(p, {"publishing"}, {"published"}) /\ Shown(p)
  <2>1. Promise!Moves(p, "flight", "out")  BY <1>11, <1>m DEF Becomes
  <2>2. delivered[p] > 0  BY <1>2, <1>4, <1>11
  <2> QED  BY <2>1, <2>2, <1>5, <1>11 DEF Becomes, Promise!Confirm
<1>12. CASE Becomes(p, Resting, {"dead", "cancelled"})
  <2>1. CASE status'[p] = "dead"
    <3>1. Promise!Moves(p, "queue", "parked")  BY <1>12, <2>1, <1>m DEF Becomes
    <3> QED  BY <3>1, <1>5, <1>12 DEF Becomes, Promise!Park
  <2>2. CASE status'[p] = "cancelled"
    <3>1. Promise!Moves(p, "queue", "gone")  BY <1>12, <2>2, <1>m DEF Becomes
    <3> QED  BY <3>1, <1>5, <1>12 DEF Becomes, Promise!Cancel
  <2> QED  BY <1>12, <2>1, <2>2 DEF Becomes
<1>13. CASE Becomes(p, {"dead"}, {"scheduled", "cancelled"})
  <2>1. CASE status'[p] = "scheduled"
    <3>1. Promise!Moves(p, "parked", "queue")  BY <1>13, <2>1, <1>m DEF Becomes
    <3> QED  BY <3>1, <1>5, <1>13 DEF Becomes, Promise!Revive
  <2>2. CASE status'[p] = "cancelled"
    <3>1. Promise!Moves(p, "parked", "gone")  BY <1>13, <2>2, <1>m DEF Becomes
    <3> QED  BY <3>1, <1>5, <1>13 DEF Becomes, Promise!Cancel
  <2> QED  BY <1>13, <2>1, <2>2 DEF Becomes
<1>14. CASE /\ status[p] = "publishing" /\ status'[p] = status[p] /\ ~Shown(p)
            /\ delivered'[p] = delivered[p] + 1 /\ lost'[p] = lost[p]
  BY <1>1, <1>6, <1>7, <1>14 DEF Promise!Send
<1>15. CASE /\ status'[p] = status[p] /\ Shown(p)
            /\ delivered'[p] = delivered[p] /\ lost'[p] = lost[p] + 1
  BY <1>6, <1>7, <1>15 DEF Promise!LoseSight
<1> QED  BY <1>8, <1>9, <1>10, <1>11, <1>12, <1>13, <1>14, <1>15 DEF Promised

(* Rows and counts left alone keep the promise, ...                         *)
LEMMA StillPromised ==
  ASSUME UNCHANGED <<status, delivered, lost>>
  PROVE  \A p \in Posts : Promised(p)
BY DEF Promised, Same

(* ... and so does the conditional UPDATE of a row, if its change does.     *)
LEMMA TransitionPromised ==
  ASSUME Custody, NEW p \in Posts, NEW source, NEW target,
         Transition(p, source, target), UNCHANGED <<delivered, lost>>,
         status[p] \in source /\ status'[p] = target /\ Same(p) => Promised(p)
  PROVE  \A q \in Posts : Promised(q)
<1>1. CASE status[p] \in source
  <2>1. status \in [Posts -> Status] /\ status' = [status EXCEPT ![p] = target]
    BY <1>1 DEF Transition, Custody, TypeInv, TypeOK
  <2>2. Promised(p)  BY <1>1, <2>1 DEF Same
  <2>3. ASSUME NEW q \in Posts, q # p PROVE Promised(q)
    BY <2>1, <2>3 DEF Promised, Same
  <2> QED  BY <2>2, <2>3
<1>2. CASE status[p] \notin source
  BY <1>2, StillPromised DEF Transition, rowVars
<1> QED  BY <1>1, <1>2

(* Nothing shows a post whose holder has it cleared and not yet accepted.   *)
LEMMA HeldUnseen ==
  ASSUME Custody, NEW w \in Workers, NEW p \in Posts, wk[w].job = p,
         wk[w].pc \in Cleared \ {"accepted"}
  PROVE  ~Shown(p) /\ status[p] = "publishing"
<1>1. ~Evidence(p)  BY DEF Custody, SendsWithoutEvidence
<1>2. Holds(w, p)  BY DEF Holds, Holding, Cleared
<1>3. \A v \in Workers : Holds(v, p) => v = w  BY <1>2 DEF Custody, HolderAlone
<1>4. ~\E v \in Workers : At(v, "accepted") /\ wk[v].job = p
  BY <1>3 DEF At, Holds, Holding
<1> QED  BY <1>1, <1>2, <1>4 DEF Shown, Custody, HolderAlone

(* The steps of a tick: only a stale row that nothing shows is put back.    *)
LEMMA TickPromised ==
  ASSUME Custody, NEW w \in Workers,
         \/ TickStart(w) \/ RecoverLogs(w) \/ RecoverFail(w)
         \/ ReadControls(w) \/ Select(w) \/ LoopDone(w)
         \/ \E p \in Posts : \/ RecoverRow(w, p) \/ Park(w, p)
                             \/ LoopTake(w, p) \/ LoopDefer(w, p)
  PROVE  \A p \in Posts : Promised(p)
<1>1. CASE RecoverFail(w)
  <2>0. UNCHANGED <<delivered, lost>>  BY <1>1 DEF RecoverFail, platVars
  <2>1. PICK r \in Posts : r = wk[w].job
    BY <1>1 DEF RecoverFail, At, Busy, PC, Custody, TypeInv, JobOK
  <2>2. CASE <<w, r>> \in older /\ status[r] = "publishing"
    <3>1. Transition(r, {"publishing"}, "failed")  BY <1>1, <2>1, <2>2 DEF RecoverFail
    <3>2. ~Evidence(r)
      BY <1>1, <2>1, <2>2 DEF RecoverFail, At, Custody, RecoversUnseen
    <3>3. r \in aged  BY <2>2 DEF Custody, OldIsAged
    <3>4. \A v \in Workers : ~Holds(v, r)  BY <3>3 DEF Custody, HolderAlone
    <3>5. ~Shown(r)  BY <3>2, <3>4 DEF Shown, At, Holds, Holding
    <3> QED
      BY <2>0, <3>1, <3>5, TransitionPromised DEF Promised, Becomes, Resting
  <2>3. CASE ~(<<w, r>> \in older /\ status[r] = "publishing")
    BY <1>1, <2>0, <2>1, <2>3, StillPromised DEF RecoverFail, rowVars
  <2> QED  BY <2>2, <2>3
<1>2. ASSUME NEW p \in Posts, Park(w, p) PROVE \A q \in Posts : Promised(q)
  BY <1>2, TransitionPromised DEF Park, platVars, Promised, Becomes, Resting
<1>3. CASE \/ TickStart(w) \/ RecoverLogs(w) \/ ReadControls(w) \/ Select(w) \/ LoopDone(w)
           \/ \E p \in Posts : RecoverRow(w, p) \/ LoopTake(w, p) \/ LoopDefer(w, p)
  BY <1>3, StillPromised
  DEF TickStart, RecoverLogs, ReadControls, Select, LoopDone, RecoverRow, LoopTake,
      LoopDefer, rowVars, platVars
<1> QED  BY <1>1, <1>2, <1>3

(* The steps of an attempt: the platform is called for a post that nothing
   shows, and only such a post is put back or withdrawn. *)
LEMMA AttemptPromised ==
  ASSUME Custody, TypeInv', NEW w \in Workers,
         \/ Claim(w) \/ ReadHistory(w) \/ QueryThrows(w) \/ ReadContent(w)
         \/ Check(w) \/ Release(w) \/ AttemptThrows(w) \/ SendCached(w)
         \/ PlatformAccepts(w) \/ PlatformRejects(w)
         \/ AnswerArrives(w) \/ AnswerLost(w)
  PROVE  \A p \in Posts : Promised(p)
<1>r. PICK r \in Posts : r = wk[w].job
  BY DEF Claim, ReadHistory, QueryThrows, ReadContent, Check, Release,
         AttemptThrows, SendCached, PlatformAccepts, PlatformRejects, PlatformCall,
         AnswerArrives, AnswerLost, At, Busy, PC, Holding, Custody, TypeInv, JobOK
<1>0. wk[w] \in Worker /\ delivered \in [Posts -> Nat] /\ lost \in [Posts -> Nat]
  BY DEF Custody, TypeInv, TypeOK
<1>1. CASE Claim(w)
  <2>1. wk[w].from \subseteq Resting  BY <1>0 DEF Worker
  <2>2. Transition(r, wk[w].from, "publishing") /\ UNCHANGED <<delivered, lost>>
    BY <1>1, <1>r DEF Claim, platVars
  <2> QED  BY <2>1, <2>2, TransitionPromised DEF Promised, Becomes
<1>2. CASE Release(w)
  <2>1. wk[w].pc \in {"cancelSelf", "skip"} /\ UNCHANGED <<delivered, lost>>
    BY <1>2 DEF Release, At, platVars
  <2>2. ~Shown(r)  BY <1>r, <2>1, HeldUnseen DEF Cleared
  <2>3. wk[w].prior \in Resting  BY <1>0 DEF Worker
  <2>4. PICK target \in Resting \cup {"cancelled"} : Transition(r, {"publishing"}, target)
    BY <1>2, <1>r, <2>3 DEF Release
  <2> QED  BY <2>1, <2>2, <2>4, TransitionPromised DEF Promised, Becomes
<1>3. CASE PlatformAccepts(w)
  <2>1. ~Shown(r) /\ status[r] = "publishing"
    BY <1>3, <1>r, HeldUnseen DEF PlatformAccepts, PlatformCall, At, Cleared
  <2>2. /\ status' = status /\ lost' = lost
        /\ delivered' = [delivered EXCEPT ![r] = @ + 1]
    BY <1>3, <1>r DEF PlatformAccepts, PlatformCall, rowVars
  <2>3. Promised(r)  BY <2>1, <2>2, <1>0 DEF Promised
  <2>4. ASSUME NEW q \in Posts, q # r PROVE Promised(q)
    BY <2>2, <2>4, <1>0 DEF Promised, Same
  <2> QED  BY <2>3, <2>4
<1>4. CASE AnswerLost(w)
  <2>1. Shown(r)  BY <1>4, <1>r DEF AnswerLost, Shown
  <2>2. /\ status' = status /\ delivered' = delivered
        /\ lost' = [lost EXCEPT ![r] = @ + 1]
    BY <1>4, <1>r DEF AnswerLost, rowVars
  <2>3. Promised(r)  BY <2>1, <2>2, <1>0 DEF Promised
  <2>4. ASSUME NEW q \in Posts, q # r PROVE Promised(q)
    BY <2>2, <2>4, <1>0 DEF Promised, Same
  <2> QED  BY <2>3, <2>4
<1>5. CASE \/ ReadHistory(w) \/ QueryThrows(w) \/ ReadContent(w) \/ Check(w)
           \/ AttemptThrows(w) \/ SendCached(w) \/ PlatformRejects(w) \/ AnswerArrives(w)
  BY <1>5, StillPromised
  DEF ReadHistory, QueryThrows, ReadContent, Check, AttemptThrows, SendCached,
      PlatformRejects, PlatformCall, AnswerArrives, rowVars, platVars
<1> QED  BY <1>1, <1>2, <1>3, <1>4, <1>5

(* The settling steps and the clicks: a post is reported out when something
   shows it and put back as failed when nothing does. *)
LEMMA SettlePromised ==
  ASSUME Custody, NEW w \in Workers,
         \/ SettlePublished(w) \/ PinThrows(w) \/ LogPublished(w)
         \/ SettleFailed(w) \/ LogFailed(w) \/ DeadLetter(w)
         \/ LogThrows(w) \/ AuditThrows(w) \/ RequeueLog(w) \/ RescheduleWrite(w)
         \/ \E p \in Posts : Click(w, p)
  PROVE  \A p \in Posts : Promised(p)
<1>1. CASE SettlePublished(w)
  <2>1. PICK r \in Posts : r = wk[w].job
    BY <1>1 DEF SettlePublished, Busy, PC, Holding, Custody, TypeInv, JobOK
  <2>2. Shown(r)
    BY <1>1, <2>1 DEF SettlePublished, Custody, SettlesOnEvidence, Reporting, Shown
  <2>3. Transition(r, {"publishing"}, "published") /\ UNCHANGED <<delivered, lost>>
    BY <1>1, <2>1 DEF SettlePublished, platVars
  <2> QED  BY <2>2, <2>3, TransitionPromised DEF Promised, Becomes
<1>2. CASE SettleFailed(w)
  <2>1. PICK r \in Posts : r = wk[w].job
    BY <1>2 DEF SettleFailed, Busy, PC, Holding, Custody, TypeInv, JobOK
  <2>2. wk[w].pc \in {"settleFail", "catch"}
    BY <1>2 DEF SettleFailed, Custody, NoSecondRelease
  <2>3. ~Shown(r)  BY <2>1, <2>2, HeldUnseen DEF Cleared
  <2>4. Transition(r, {"publishing"}, "failed") /\ UNCHANGED <<delivered, lost>>
    BY <1>2, <2>1 DEF SettleFailed, platVars
  <2> QED  BY <2>3, <2>4, TransitionPromised DEF Promised, Becomes, Resting
<1>3. CASE DeadLetter(w)
  <2>1. PICK r \in Posts : r = wk[w].job
    BY <1>3 DEF DeadLetter, At, Busy, PC, Custody, TypeInv, JobOK
  <2>2. Transition(r, {"failed"}, "dead") /\ UNCHANGED <<delivered, lost>>
    BY <1>3, <2>1 DEF DeadLetter, platVars
  <2> QED  BY <2>2, TransitionPromised DEF Promised, Becomes, Resting
<1>4. ASSUME NEW p \in Posts, Requeue(w, p) PROVE \A q \in Posts : Promised(q)
  BY <1>4, TransitionPromised DEF Requeue, platVars, Promised, Becomes
<1>5. CASE \/ PinThrows(w) \/ LogPublished(w) \/ LogFailed(w) \/ LogThrows(w)
           \/ AuditThrows(w) \/ RequeueLog(w) \/ RescheduleWrite(w)
           \/ \E p \in Posts : PublishNow(w, p) \/ Reschedule(w, p)
  BY <1>5, StillPromised
  DEF PinThrows, LogPublished, LogFailed, LogThrows, AuditThrows, RequeueLog,
      RescheduleWrite, PublishNow, Reschedule, rowVars, platVars
<1> QED  BY <1>1, <1>2, <1>3, <1>4, <1>5 DEF Click

(* Cancellations, time, crashes and restarts: what shows a post may be lost. *)
LEMMA EnvironmentPromised ==
  ASSUME Custody,
         \/ \E p \in Posts : \/ Cancel(p) \/ Demote(p) \/ BecomesDue(p)
                             \/ BackoffElapses(p) \/ ClaimAges(p)
         \/ \E g \in AllGates : CloseGate(g) \/ OpenGate(g)
         \/ \E w \in Workers : Die(w)
         \/ Restart
  PROVE  \A p \in Posts : Promised(p)
<1>0. delivered \in [Posts -> Nat] /\ lost \in [Posts -> Nat]
  BY DEF Custody, TypeInv, TypeOK
<1>1. ASSUME NEW p \in Posts, Cancel(p) PROVE \A q \in Posts : Promised(q)
  BY <1>1, TransitionPromised DEF Cancel, platVars, Promised, Becomes, Resting
<1>2. ASSUME NEW w \in Workers, Die(w) PROVE \A q \in Posts : Promised(q)
  <2>1. CASE At(w, "accepted")
    <3>1. PICK r \in Posts : r = wk[w].job
      BY <2>1 DEF At, Custody, TypeInv, JobOK, Busy, PC, Holding
    <3>2. Shown(r)  BY <2>1, <3>1 DEF Shown
    <3>3. /\ status' = status /\ delivered' = delivered
          /\ lost' = [lost EXCEPT ![r] = @ + 1]
      BY <1>2, <2>1, <3>1 DEF Die
    <3>4. Promised(r)  BY <3>2, <3>3, <1>0 DEF Promised
    <3>5. ASSUME NEW q \in Posts, q # r PROVE Promised(q)
      BY <3>3, <3>5, <1>0 DEF Promised, Same
    <3> QED  BY <3>4, <3>5
  <2>2. CASE ~At(w, "accepted")
    BY <1>2, <2>2, StillPromised DEF Die
  <2> QED  BY <2>1, <2>2
<1>3. CASE Restart
  <2> SUFFICES ASSUME NEW p \in Posts PROVE Promised(p)
    OBVIOUS
  <2> DEFINE inMemory == /\ ~plogged[p]
                         /\ \/ registry[p] # {}
                            \/ \E v \in Workers : At(v, "accepted") /\ wk[v].job = p
  <2>1. /\ lost'[p] = IF inMemory THEN lost[p] + 1 ELSE lost[p]
        /\ delivered'[p] = delivered[p] /\ status'[p] = status[p]
    BY <1>3 DEF Restart
  <2>2. inMemory => Shown(p)  BY DEF Shown, Evidence
  <2> HIDE DEF inMemory
  <2> QED  BY <2>1, <2>2 DEF Promised, Same
<1>4. CASE \/ \E p \in Posts : \/ Demote(p) \/ BecomesDue(p)
                               \/ BackoffElapses(p) \/ ClaimAges(p)
           \/ \E g \in AllGates : CloseGate(g) \/ OpenGate(g)
  BY <1>4, StillPromised
  DEF Demote, BecomesDue, BackoffElapses, ClaimAges, CloseGate, OpenGate, rowVars, platVars
<1> QED  BY <1>1, <1>2, <1>3, <1>4

(* Every step of the queue does to every post what is promised.             *)
LEMMA StepPromised ==
  ASSUME Custody, TypeInv', [Next]_vars
  PROVE  \A p \in Posts : Promised(p)
<1>1. CASE UNCHANGED vars
  BY <1>1, StillPromised DEF vars, rowVars, platVars
<1>2. CASE Next
  BY <1>2, TickPromised, AttemptPromised, SettlePromised, EnvironmentPromised
  DEF Next, Step, Custody
<1> QED  BY <1>1, <1>2

(* The queue keeps the promise it makes of each post: on a quiet host every
   step of ticks, clicks, recoveries, crashes and restarts is, seen from
   outside, a step of PublishPromise or none at all, so that a post known to
   be up is neither sent again nor put back nor given up. *)
THEOREM PromiseKept ==
  ASSUME QuietHost
  PROVE  Spec => KeepsPromise
<1>1. Init => Promise!Init
  <2> SUFFICES ASSUME Init PROVE Promise!Init
    OBVIOUS
  <2>1. \A p \in Posts : PlaceOf[status[p]] = "queue"  BY Places DEF Init
  <2>2. delivered = [p \in Posts |-> 0] /\ lost = delivered  BY DEF Init
  <2> QED  BY <2>1, <2>2 DEF Promise!Init
<1>2. Custody /\ Custody' /\ [Next]_vars => [Promise!Next]_Promise!promiseVars
  <2> SUFFICES ASSUME Custody, Custody', [Next]_vars
               PROVE  [Promise!Next]_Promise!promiseVars
    OBVIOUS
  <2>1. \A p \in Posts : Promised(p)  BY StepPromised DEF Custody
  <2>2. Promise!Next  BY <2>1, PromisedStep DEF Custody
  <2> QED  BY <2>2
<1> QED
  BY <1>1, <1>2, CustodyInvariant, PTL DEF Spec, Promise!Spec, KeepsPromise

(* What the promise is worth by itself: whoever keeps it sends a post once, and
   once more for each time nobody could know that it was up; and a post that
   is out, or was put away for good, has not moved since. *)
THEOREM PromiseMeans ==
  KeepsPromise => /\ []OneDeliveryPerLoss
                  /\ [][\A p \in Posts : PlaceOf[status[p]] \in {"out", "gone"} =>
                          PlaceOf[status'[p]] = PlaceOf[status[p]]]_vars
<1> DEFINE Once == \A p \in Posts : delivered[p] \in Nat /\ lost[p] \in Nat /\ delivered[p] <= 1 + lost[p]
           Final == \A p \in Posts : PlaceOf[status[p]] \in {"out", "gone"} =>
                      PlaceOf[status'[p]] = PlaceOf[status[p]]
<1>1. Promise!Init => Once
  BY DEF Promise!Init
<1>2. Once /\ [Promise!Next]_Promise!promiseVars => Once'
  <2> SUFFICES ASSUME Once, [Promise!Next]_Promise!promiseVars, NEW p \in Posts
               PROVE  delivered'[p] \in Nat /\ lost'[p] \in Nat /\ delivered'[p] <= 1 + lost'[p]
    OBVIOUS
  <2>1. \/ delivered'[p] = delivered[p] /\ lost'[p] = lost[p]
        \/ ~(delivered[p] > lost[p]) /\ delivered'[p] = delivered[p] + 1 /\ lost'[p] = lost[p]
        \/ delivered[p] > lost[p] /\ delivered'[p] = delivered[p] /\ lost'[p] = lost[p] + 1
    BY DEF Promise!Next, Promise!promiseVars, Promise!Take, Promise!PutBack, Promise!Withdraw,
           Promise!Confirm, Promise!Park, Promise!Revive, Promise!Cancel, Promise!Send,
           Promise!LoseSight, Promise!Rests, Promise!SameCounts, Promise!KnownUp
  <2> QED  BY <2>1
<1>3. [Promise!Next]_Promise!promiseVars => [Final]_vars
  <2> SUFFICES ASSUME [Promise!Next]_Promise!promiseVars, NEW p \in Posts,
                      PlaceOf[status[p]] \in {"out", "gone"}
               PROVE  PlaceOf[status'[p]] = PlaceOf[status[p]]
    OBVIOUS
  <2>1. CASE Promise!Next
    BY <2>1
    DEF Promise!Next, Promise!Take, Promise!PutBack, Promise!Withdraw, Promise!Confirm, Promise!Park,
        Promise!Revive, Promise!Cancel, Promise!Send, Promise!LoseSight, Promise!Rests,
        Promise!Moves, Promise!Stays
  <2>2. CASE UNCHANGED Promise!promiseVars
    <3>1. [q \in Posts |-> PlaceOf[status'[q]]][p] = [q \in Posts |-> PlaceOf[status[q]]][p]
      BY <2>2 DEF Promise!promiseVars
    <3> QED  BY <3>1
  <2> QED  BY <2>1, <2>2
<1>4. Once => OneDeliveryPerLoss
  BY DEF OneDeliveryPerLoss
<1> QED
  BY <1>1, <1>2, <1>3, <1>4, PTL DEF Promise!Spec, KeepsPromise
=============================================================================
