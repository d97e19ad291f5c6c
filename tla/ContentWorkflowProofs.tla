----------------------- MODULE ContentWorkflowProofs -----------------------
(* Theorems about ContentWorkflow, for any number of rows, requests and
   texts, linked to a campaign or not, with crashes or without. *)
EXTENDS ContentWorkflow, TLAPS

(* Type correctness, one part per group of variables.                      *)
ContentType == /\ status \in Status /\ body \in Bodies
               /\ review \in {"none", "pending", "approved", "changes_requested"}
LinkedType == item \in Item /\ campaign \in {"approved", "completed", "cancelled"}
PostType == post \in [Posts -> Row]
HistoryType == /\ cleared \in SUBSET Bodies /\ sent \in [Posts -> SUBSET Bodies]
               /\ born \in [Posts -> Bodies] /\ shared \in Bodies /\ raced \in BOOLEAN
WkType == wk \in [Workers -> Worker]

(* TypeOK is the conjunction of its parts.                                 *)
LEMMA TypeParts ==
  /\ TypeOK <=> ContentType /\ LinkedType /\ PostType /\ HistoryType /\ WkType
  /\ TypeOK' <=> ContentType' /\ LinkedType' /\ PostType' /\ HistoryType' /\ WkType'
BY DEF TypeOK, ContentType, LinkedType, PostType, HistoryType, WkType

(* A group of variables that an action leaves alone keeps its type.        *)
LEMMA Kept ==
  ASSUME TypeOK
  PROVE  /\ UNCHANGED contentVars => ContentType'
         /\ UNCHANGED linkedVars => LinkedType'
         /\ UNCHANGED post => PostType'
         /\ UNCHANGED history => HistoryType'
         /\ UNCHANGED wk => WkType'
<1>1. ContentType /\ LinkedType /\ PostType /\ HistoryType /\ WkType  BY TypeParts
<1>2. UNCHANGED contentVars => ContentType'  BY <1>1 DEF contentVars, ContentType
<1>3. UNCHANGED linkedVars => LinkedType'  BY <1>1 DEF linkedVars, LinkedType
<1>4. UNCHANGED post => PostType'  BY <1>1 DEF PostType
<1>5. UNCHANGED history => HistoryType'  BY <1>1 DEF history, HistoryType
<1>6. UNCHANGED wk => WkType'  BY <1>1 DEF WkType
<1> QED  BY <1>2, <1>3, <1>4, <1>5, <1>6

(* The local state of a request at rest.                                   *)
LEMMA IdleType == IdleWorker \in Worker /\ IdleWorker.pc = "idle"
BY BodiesAssumption DEF IdleWorker, Worker, PC, Op, Item

(* A worker moves to another program point, with its locals, without what it
   read, or to rest; the others stay where they are. *)
LEMMA Move ==
  ASSUME WkType, NEW w \in Workers, NEW l \in PC
  PROVE  /\ Goto(w, l) => wk' \in [Workers -> Worker] /\ wk' = [wk EXCEPT ![w] = [wk[w] EXCEPT !.pc = l]]
         /\ Forget(w, l) => wk' \in [Workers -> Worker] /\ wk'[w].pc = l
                            /\ \A v \in Workers \ {w} : wk'[v] = wk[v]
         /\ Finish(w) => wk' \in [Workers -> Worker] /\ wk' = [wk EXCEPT ![w] = IdleWorker]
<1>1. wk[w] \in Worker  BY DEF WkType
<1>2. Goto(w, l) => wk' \in [Workers -> Worker] /\ wk' = [wk EXCEPT ![w] = [wk[w] EXCEPT !.pc = l]]
  BY <1>1 DEF WkType, Goto, Worker
<1>3. ASSUME Forget(w, l)
      PROVE  wk' \in [Workers -> Worker] /\ wk'[w].pc = l /\ \A v \in Workers \ {w} : wk'[v] = wk[v]
  <2> DEFINE k == [wk[w] EXCEPT !.pc = l, !.was = FALSE, !.bd = FirstBody]
  <2>1. k \in Worker /\ k.pc = l  BY <1>1, BodiesAssumption DEF Worker
  <2>2. wk' = [wk EXCEPT ![w] = k]  BY <1>3 DEF Forget
  <2> HIDE DEF k
  <2> QED  BY <2>1, <2>2 DEF WkType
<1>4. Finish(w) => wk' \in [Workers -> Worker] /\ wk' = [wk EXCEPT ![w] = IdleWorker]
  BY IdleType DEF WkType, Finish
<1> QED  BY <1>2, <1>3, <1>4

(* The steps of an edit keep the types.                                    *)
LEMMA EditType ==
  ASSUME TypeOK, NEW w \in Workers, EditNext(w)
  PROVE  TypeOK'
<1> USE TypeParts
<1>0. ContentType /\ LinkedType /\ PostType /\ HistoryType /\ WkType /\ wk[w] \in Worker
  BY DEF WkType
<1>k. /\ UNCHANGED contentVars => ContentType'
      /\ UNCHANGED linkedVars => LinkedType'
      /\ UNCHANGED post => PostType'
      /\ UNCHANGED history => HistoryType'
  BY Kept
<1>s. ASSUME NEW k \in Worker, wk' = [wk EXCEPT ![w] = k]
      PROVE  WkType'
  BY <1>0, <1>s DEF WkType
<1>1. ASSUME NEW b \in Bodies, Save(w, b)
      PROVE  TypeOK'
  <2>1. ContentType' /\ LinkedType' /\ PostType' /\ HistoryType'  BY <1>1, <1>k DEF Save
  <2>2. WkType'
    <3> DEFINE approved == status \in {"approved", "scheduled"}
               k == [wk[w] EXCEPT !.op = "edit", !.bd = b, !.was = approved,
                        !.pc = IF status = "scheduled" THEN "sweepList" ELSE "edit"]
    <3>1. wk' = [wk EXCEPT ![w] = k]  BY <1>1 DEF Save
    <3>2. approved \in BOOLEAN  OBVIOUS
    <3> HIDE DEF approved
    <3>3. k \in Worker  BY <1>0, <3>2 DEF Worker, PC, Op
    <3> HIDE DEF k
    <3> QED  BY <1>s, <3>1, <3>3
  <2> QED  BY <2>1, <2>2
<1>2. CASE SweepList(w)
  <2>1. ContentType' /\ LinkedType' /\ PostType' /\ HistoryType'  BY <1>2, <1>k DEF SweepList
  <2>2. WkType'
    <3> DEFINE k == [wk[w] EXCEPT !.pc = "sweep", !.todo =
             {q \in Posts : post[q] \in IF wk[w].op = "edit" THEN Resting
                                        ELSE {"scheduled", "publishing"}}]
    <3>1. k \in Worker  BY <1>0, <1>2 DEF SweepList, Worker, PC, Op, ContentType, LinkedType
    <3>2. wk' = [wk EXCEPT ![w] = k]  BY <1>0, <1>2 DEF SweepList
    <3> HIDE DEF k
    <3> QED  BY <1>s, <3>1, <3>2
  <2> QED  BY <2>1, <2>2
<1>3. ASSUME NEW p \in Posts, SweepRow(w, p)
      PROVE  TypeOK'
  <2>1. ContentType' /\ LinkedType' /\ HistoryType'  BY <1>3, <1>k DEF SweepRow
  <2>2. PostType'  BY <1>0, <1>3 DEF SweepRow, PostType, Transition, Row, Resting
  <2>3. WkType'
    <3> DEFINE k == [wk[w] EXCEPT !.todo = @ \ {p}]
    <3>1. k \in Worker  BY <1>0, <1>3 DEF SweepRow, Worker, PC, Op, ContentType, LinkedType
    <3>2. wk' = [wk EXCEPT ![w] = k]  BY <1>0, <1>3 DEF SweepRow
    <3> HIDE DEF k
    <3> QED  BY <1>s, <3>1, <3>2
  <2> QED  BY <2>1, <2>2, <2>3
<1>4. CASE SweepDone(w)
  <2>1. ContentType' /\ LinkedType' /\ PostType' /\ HistoryType'  BY <1>4, <1>k DEF SweepDone
  <2>2. WkType'  BY <1>0, <1>4, Move DEF SweepDone, WkType, PC
  <2> QED  BY <2>1, <2>2
<1>5. CASE Edit(w)
  <2>1. LinkedType' /\ PostType' /\ HistoryType'  BY <1>5, <1>k DEF Edit
  <2>2. ContentType'  BY <1>0, <1>5 DEF Edit, ContentType, Worker, Status, Drafts, Publishable
  <2>3. WkType'  BY <1>0, <1>5, Move DEF Edit, WkType, PC
  <2> QED  BY <2>1, <2>2, <2>3
<1>6. CASE BackItem(w)
  <2>1. ContentType' /\ LinkedType' /\ PostType' /\ HistoryType'  BY <1>6, <1>k DEF BackItem
  <2>2. WkType'  BY <1>0, <1>6, Move DEF BackItem, WkType, PC
  <2> QED  BY <2>1, <2>2
<1>7. CASE BackItemWrite(w)
  <2>1. ContentType' /\ PostType' /\ HistoryType'  BY <1>7, <1>k DEF BackItemWrite
  <2>2. LinkedType'  BY <1>0, <1>7 DEF BackItemWrite, LinkedType, Item
  <2>3. WkType'  BY <1>0, <1>7, Move DEF BackItemWrite, WkType, PC
  <2> QED  BY <2>1, <2>2, <2>3
<1>8. CASE BackCampaign(w)
  <2>1. ContentType' /\ LinkedType' /\ PostType' /\ HistoryType'  BY <1>8, <1>k DEF BackCampaign
  <2>2. WkType'  BY <1>0, <1>8, Move DEF BackCampaign, WkType, PC
  <2> QED  BY <2>1, <2>2
<1>9. CASE Reopen(w)
  <2>1. ContentType' /\ PostType' /\ HistoryType'  BY <1>9, <1>k DEF Reopen
  <2>2. LinkedType'  BY <1>0, <1>9 DEF Reopen, LinkedType, Item
  <2>3. WkType'  BY <1>0, <1>9, Move DEF Reopen, WkType, PC
  <2> QED  BY <2>1, <2>2, <2>3
<1> QED  BY <1>1, <1>2, <1>3, <1>4, <1>5, <1>6, <1>7, <1>8, <1>9 DEF EditNext

(* The steps of a review keep the types.                                   *)
LEMMA ReviewType ==
  ASSUME TypeOK, NEW w \in Workers, ReviewNext(w)
  PROVE  TypeOK'
<1> USE TypeParts
<1>0. ContentType /\ LinkedType /\ PostType /\ HistoryType /\ WkType /\ wk[w] \in Worker
  BY DEF WkType
<1>k. /\ UNCHANGED contentVars => ContentType'
      /\ UNCHANGED linkedVars => LinkedType'
      /\ UNCHANGED post => PostType'
      /\ UNCHANGED history => HistoryType'
  BY Kept
<1>s. ASSUME NEW k \in Worker, wk' = [wk EXCEPT ![w] = k]
      PROVE  WkType'
  BY <1>0, <1>s DEF WkType
<1>1. CASE Submit(w)
  <2>1. ContentType' /\ LinkedType' /\ PostType' /\ HistoryType'  BY <1>1, <1>k DEF Submit
  <2>2. WkType'  BY <1>0, <1>1, Move DEF Submit, WkType, PC
  <2> QED  BY <2>1, <2>2
<1>2. CASE SubmitWrite(w)
  <2>1. LinkedType' /\ PostType' /\ HistoryType'  BY <1>2, <1>k DEF SubmitWrite
  <2>2. ContentType'  BY <1>0, <1>2 DEF SubmitWrite, ContentType, Status, Drafts, Publishable
  <2>3. WkType'  BY <1>0, <1>2, Move DEF SubmitWrite, WkType, PC
  <2> QED  BY <2>1, <2>2, <2>3
<1>3. CASE Share(w)
  <2>1. ContentType' /\ LinkedType' /\ PostType' /\ HistoryType'  BY <1>3, <1>k DEF Share
  <2>2. WkType'  BY <1>0, <1>3, Move DEF Share, WkType, PC
  <2> QED  BY <2>1, <2>2
<1>4. CASE ShareWrite(w)
  <2>1. LinkedType' /\ PostType'  BY <1>4, <1>k DEF ShareWrite
  <2>2. ContentType'  BY <1>0, <1>4 DEF ShareWrite, ContentType, Status
  <2>3. HistoryType'  BY <1>0, <1>4 DEF ShareWrite, HistoryType, ContentType
  <2>4. WkType'  BY <1>0, <1>4, Move DEF ShareWrite, WkType, PC
  <2> QED  BY <2>1, <2>2, <2>3, <2>4
<1>5. ASSUME NEW op \in {"staff", "client"}, Decide(w, op)
      PROVE  TypeOK'
  <2>1. ContentType' /\ LinkedType' /\ PostType' /\ HistoryType'  BY <1>5, <1>k DEF Decide
  <2>2. WkType'
    <3> DEFINE k == [wk[w] EXCEPT !.pc = "govern", !.op = op, !.bd = body]
    <3>1. k \in Worker  BY <1>0, <1>5 DEF Decide, Worker, PC, Op, ContentType, LinkedType
    <3>2. wk' = [wk EXCEPT ![w] = k]  BY <1>0, <1>5 DEF Decide
    <3> HIDE DEF k
    <3> QED  BY <1>s, <3>1, <3>2
  <2> QED  BY <2>1, <2>2
<1>6. CASE Govern(w)
  <2>1. ContentType' /\ LinkedType' /\ PostType' /\ HistoryType'  BY <1>6, <1>k DEF Govern
  <2>2. WkType'  BY <1>0, <1>6, Move DEF Govern, WkType, PC
  <2> QED  BY <2>1, <2>2
<1>7. CASE ApproveWrite(w)
  <2>1. LinkedType' /\ PostType'  BY <1>7, <1>k DEF ApproveWrite
  <2>2. ContentType'  BY <1>0, <1>7 DEF ApproveWrite, ContentType, Promote, Status
  <2>3. HistoryType'  BY <1>0, <1>7 DEF ApproveWrite, HistoryType, Promote, Worker
  <2>4. WkType'  BY <1>0, <1>7, Move DEF ApproveWrite, WkType, PC, Decided
  <2> QED  BY <2>1, <2>2, <2>3, <2>4
<1>8. CASE ApproveItem(w)
  <2>1. ContentType' /\ PostType' /\ HistoryType'  BY <1>8, <1>k DEF ApproveItem
  <2>2. LinkedType'  BY <1>0, <1>8 DEF ApproveItem, LinkedType, Item
  <2>3. WkType'  BY <1>0, <1>8, Move DEF ApproveItem, WkType, PC
  <2> QED  BY <2>1, <2>2, <2>3
<1>9. CASE Complete(w)
  <2>1. ContentType' /\ LinkedType' /\ PostType' /\ HistoryType'  BY <1>9, <1>k DEF Complete
  <2>2. WkType'  BY <1>0, <1>9, Move DEF Complete, WkType, PC, Decided
  <2> QED  BY <2>1, <2>2
<1>10. CASE CompleteItems(w)
  <2>1. ContentType' /\ LinkedType' /\ PostType' /\ HistoryType'  BY <1>10, <1>k DEF CompleteItems
  <2>2. WkType'  BY <1>0, <1>10, Move DEF CompleteItems, WkType, PC, Decided
  <2> QED  BY <2>1, <2>2
<1>11. CASE CompleteWrite(w)
  <2>1. ContentType' /\ PostType' /\ HistoryType'  BY <1>11, <1>k DEF CompleteWrite
  <2>2. LinkedType'  BY <1>0, <1>11 DEF CompleteWrite, LinkedType
  <2>3. WkType'  BY <1>0, <1>11, Move DEF CompleteWrite, WkType, PC, Decided
  <2> QED  BY <2>1, <2>2, <2>3
<1>12. ASSUME NEW op \in {"staff", "client"}, Reject(w, op)
      PROVE  TypeOK'
  <2>1. ContentType' /\ LinkedType' /\ PostType' /\ HistoryType'  BY <1>12, <1>k DEF Reject
  <2>2. WkType'
    <3> DEFINE k == [wk[w] EXCEPT !.pc = "reject", !.op = op]
    <3>1. k \in Worker  BY <1>0, <1>12 DEF Reject, Worker, PC, Op, ContentType, LinkedType
    <3>2. wk' = [wk EXCEPT ![w] = k]  BY <1>0, <1>12 DEF Reject
    <3> HIDE DEF k
    <3> QED  BY <1>s, <3>1, <3>2
  <2> QED  BY <2>1, <2>2
<1>13. CASE RejectWrite(w)
  <2>1. LinkedType' /\ PostType' /\ HistoryType'  BY <1>13, <1>k DEF RejectWrite
  <2>2. ContentType'  BY <1>0, <1>13 DEF RejectWrite, ContentType, Status, Drafts
  <2>3. WkType'  BY <1>0, <1>13, Move DEF RejectWrite, WkType, PC
  <2> QED  BY <2>1, <2>2, <2>3
<1> QED
  BY <1>1, <1>2, <1>3, <1>4, <1>5, <1>6, <1>7, <1>8, <1>9, <1>10, <1>11, <1>12,
     <1>13 DEF ReviewNext

(* The steps of scheduling and cancelling keep the types.                  *)
LEMMA ScheduleType ==
  ASSUME TypeOK, NEW w \in Workers, ScheduleNext(w)
  PROVE  TypeOK'
<1> USE TypeParts
<1>0. ContentType /\ LinkedType /\ PostType /\ HistoryType /\ WkType /\ wk[w] \in Worker
  BY DEF WkType
<1>k. /\ UNCHANGED contentVars => ContentType'
      /\ UNCHANGED linkedVars => LinkedType'
      /\ UNCHANGED post => PostType'
      /\ UNCHANGED history => HistoryType'
  BY Kept
<1>s. ASSUME NEW k \in Worker, wk' = [wk EXCEPT ![w] = k]
      PROVE  WkType'
  BY <1>0, <1>s DEF WkType
<1>1. CASE ScheduleRead(w)
  <2>1. ContentType' /\ LinkedType' /\ PostType' /\ HistoryType'  BY <1>1, <1>k DEF ScheduleRead
  <2>2. WkType'
    <3> DEFINE k == [wk[w] EXCEPT !.pc = "critique", !.bd = body]
    <3>1. k \in Worker  BY <1>0 DEF Worker, PC, ContentType
    <3>2. wk' = [wk EXCEPT ![w] = k] \/ Finish(w)  BY <1>0, <1>1 DEF ScheduleRead
    <3> HIDE DEF k
    <3> QED  BY <1>0, <1>s, <3>1, <3>2, Move DEF PC, WkType
  <2> QED  BY <2>1, <2>2
<1>2. CASE Critique(w)
  <2>1. ContentType' /\ LinkedType' /\ PostType' /\ HistoryType'  BY <1>2, <1>k DEF Critique
  <2>2. WkType'  BY <1>0, <1>2, Move DEF Critique, WkType, PC
  <2> QED  BY <2>1, <2>2
<1>3. ASSUME NEW p \in Posts, CreateRow(w, p)
      PROVE  TypeOK'
  <2>1. ContentType' /\ LinkedType'  BY <1>3, <1>k DEF CreateRow
  <2>2. PostType'  BY <1>0, <1>3 DEF CreateRow, PostType, Row, Resting
  <2>3. HistoryType'  BY <1>0, <1>3 DEF CreateRow, HistoryType, ContentType
  <2>4. WkType'
    <3> DEFINE k == [wk[w] EXCEPT !.pc = "scheduleWrite", !.post = p]
    <3>1. k \in Worker  BY <1>0, <1>3 DEF CreateRow, Worker, PC, Op, ContentType, LinkedType
    <3>2. wk' = [wk EXCEPT ![w] = k]  BY <1>0, <1>3 DEF CreateRow
    <3> HIDE DEF k
    <3> QED  BY <1>s, <3>1, <3>2
  <2> QED  BY <2>1, <2>2, <2>3, <2>4
<1>4. CASE CreateThrows(w)
  <2>1. ContentType' /\ LinkedType' /\ PostType' /\ HistoryType'  BY <1>4, <1>k DEF CreateThrows
  <2>2. WkType'  BY <1>0, <1>4, Move DEF CreateThrows, WkType, PC
  <2> QED  BY <2>1, <2>2
<1>5. CASE ScheduleWrite(w)
  <2>1. LinkedType' /\ PostType'  BY <1>5, <1>k DEF ScheduleWrite
  <2>2. ContentType'
    BY <1>0, <1>5 DEF ScheduleWrite, ContentType, Promote, Status, Drafts, Publishable
  <2>3. HistoryType'  BY <1>0, <1>5 DEF ScheduleWrite, HistoryType, Promote
  <2>4. WkType'  BY <1>0, <1>5, Move DEF ScheduleWrite, WkType, PC, Scheduled
  <2> QED  BY <2>1, <2>2, <2>3, <2>4
<1>6. CASE ScheduleItem(w)
  <2>1. ContentType' /\ PostType' /\ HistoryType'  BY <1>6, <1>k DEF ScheduleItem
  <2>2. LinkedType'  BY <1>0, <1>6 DEF ScheduleItem, LinkedType, Item
  <2>3. WkType'  BY <1>0, <1>6, Move DEF ScheduleItem, WkType, PC, Scheduled
  <2> QED  BY <2>1, <2>2, <2>3
<1>7. ASSUME NEW p \in Posts, CancelRow(w, p)
      PROVE  TypeOK'
  <2>1. ContentType' /\ LinkedType' /\ HistoryType'  BY <1>7, <1>k DEF CancelRow
  <2>2. PostType'  BY <1>0, <1>7 DEF CancelRow, PostType, Transition, Row, Resting
  <2>3. WkType'
    <3> DEFINE k == [wk[w] EXCEPT !.pc = "cancelRead"]
    <3>1. k \in Worker  BY <1>0, <1>7 DEF CancelRow, Worker, PC, Op, ContentType, LinkedType
    <3>2. wk' = [wk EXCEPT ![w] = k]  BY <1>0, <1>7 DEF CancelRow
    <3> HIDE DEF k
    <3> QED  BY <1>s, <3>1, <3>2
  <2> QED  BY <2>1, <2>2, <2>3
<1>8. CASE CancelRead(w)
  <2>1. ContentType' /\ LinkedType' /\ PostType' /\ HistoryType'  BY <1>8, <1>k DEF CancelRead
  <2>2. WkType'
    <3> DEFINE k == [wk[w] EXCEPT !.was = status = "scheduled", !.bd = body, !.pc = "cancelActive"]
    <3>1. k \in Worker
      BY <1>0, <1>8 DEF CancelRead, Worker, PC, Op, ContentType, LinkedType, Fetched
    <3>2. wk' = [wk EXCEPT ![w] = k]  BY <1>0, <1>8 DEF CancelRead, Fetched
    <3> HIDE DEF k
    <3> QED  BY <1>s, <3>1, <3>2
  <2> QED  BY <2>1, <2>2
<1>9. CASE CancelActive(w)
  <2>1. ContentType' /\ LinkedType' /\ PostType' /\ HistoryType'  BY <1>9, <1>k DEF CancelActive
  <2>2. WkType'  BY <1>0, <1>9, Move DEF CancelActive, WkType, PC, ItemNext
  <2> QED  BY <2>1, <2>2
<1>10. CASE Unschedule(w)
  <2>1. LinkedType' /\ PostType'  BY <1>10, <1>k DEF Unschedule
  <2>2. ContentType'
    BY <1>0, <1>10 DEF Unschedule, ContentType, Promote, Status, Drafts, Publishable
  <2>3. HistoryType'  BY <1>0, <1>10 DEF Unschedule, HistoryType, Promote
  <2>4. WkType'  BY <1>0, <1>10, Move DEF Unschedule, WkType, PC, ItemNext
  <2> QED  BY <2>1, <2>2, <2>3, <2>4
<1>11. CASE ItemRead(w)
  <2>1. ContentType' /\ LinkedType' /\ PostType' /\ HistoryType'  BY <1>11, <1>k DEF ItemRead
  <2>2. WkType'
    <3> DEFINE k == [wk[w] EXCEPT !.pc = "itemWrite", !.it = item]
    <3>1. k \in Worker  BY <1>0, <1>11 DEF ItemRead, Worker, PC, Op, ContentType, LinkedType
    <3>2. wk' = [wk EXCEPT ![w] = k]  BY <1>0, <1>11 DEF ItemRead
    <3> HIDE DEF k
    <3> QED  BY <1>s, <3>1, <3>2
  <2> QED  BY <2>1, <2>2
<1>12. CASE ItemWrite(w)
  <2>1. ContentType' /\ PostType' /\ HistoryType'  BY <1>12, <1>k DEF ItemWrite
  <2>2. LinkedType'  BY <1>0, <1>12 DEF ItemWrite, LinkedType, Item
  <2>3. WkType'  BY <1>0, <1>12, Move DEF ItemWrite, WkType, PC
  <2> QED  BY <2>1, <2>2, <2>3
<1>13. CASE CancelCampaign(w)
  <2>1. ContentType' /\ LinkedType' /\ PostType' /\ HistoryType'
    BY <1>13, <1>k DEF CancelCampaign
  <2>2. WkType'
    <3> DEFINE k == [wk[w] EXCEPT !.pc = "campaignItems", !.op = "campaign"]
    <3>1. k \in Worker  BY <1>0, <1>13 DEF CancelCampaign, Worker, PC, Op, ContentType, LinkedType
    <3>2. wk' = [wk EXCEPT ![w] = k]  BY <1>0, <1>13 DEF CancelCampaign
    <3> HIDE DEF k
    <3> QED  BY <1>s, <3>1, <3>2
  <2> QED  BY <2>1, <2>2
<1>14. CASE CampaignItems(w)
  <2>1. ContentType' /\ LinkedType' /\ PostType' /\ HistoryType'  BY <1>14, <1>k DEF CampaignItems
  <2>2. WkType'
    <3> DEFINE k == [wk[w] EXCEPT !.pc = "campaignContent", !.it = item]
    <3>1. k \in Worker  BY <1>0, <1>14 DEF CampaignItems, Worker, PC, Op, ContentType, LinkedType
    <3>2. wk' = [wk EXCEPT ![w] = k]  BY <1>0, <1>14 DEF CampaignItems
    <3> HIDE DEF k
    <3> QED  BY <1>s, <3>1, <3>2
  <2> QED  BY <2>1, <2>2
<1>15. CASE CampaignContent(w)
  <2>1. ContentType' /\ LinkedType' /\ PostType' /\ HistoryType'
    BY <1>15, <1>k DEF CampaignContent
  <2>2. WkType'
    <3> DEFINE k == [wk[w] EXCEPT !.was = status = "scheduled", !.bd = body, !.pc = "sweepList"]
    <3>1. k \in Worker
      BY <1>0, <1>15 DEF CampaignContent, Worker, PC, Op, ContentType, LinkedType, Fetched
    <3>2. wk' = [wk EXCEPT ![w] = k]  BY <1>0, <1>15 DEF CampaignContent, Fetched
    <3> HIDE DEF k
    <3> QED  BY <1>s, <3>1, <3>2
  <2> QED  BY <2>1, <2>2
<1>16. CASE CampaignWrite(w)
  <2>1. ContentType' /\ PostType' /\ HistoryType'  BY <1>16, <1>k DEF CampaignWrite
  <2>2. LinkedType'  BY <1>0, <1>16 DEF CampaignWrite, LinkedType
  <2>3. WkType'  BY <1>0, <1>16, Move DEF CampaignWrite, WkType, PC
  <2> QED  BY <2>1, <2>2, <2>3
<1> QED
  BY <1>1, <1>2, <1>3, <1>4, <1>5, <1>6, <1>7, <1>8, <1>9, <1>10, <1>11, <1>12, <1>13, <1>14,
     <1>15, <1>16 DEF ScheduleNext

(* The steps of a publish attempt keep the types.                          *)
LEMMA PublishType ==
  ASSUME TypeOK, NEW w \in Workers, PublishNext(w) \/ Stop(w)
  PROVE  TypeOK'
<1> USE TypeParts
<1>0. ContentType /\ LinkedType /\ PostType /\ HistoryType /\ WkType /\ wk[w] \in Worker
  BY DEF WkType
<1>k. /\ UNCHANGED contentVars => ContentType'
      /\ UNCHANGED linkedVars => LinkedType'
      /\ UNCHANGED post => PostType'
      /\ UNCHANGED history => HistoryType'
  BY Kept
<1>s. ASSUME NEW k \in Worker, wk' = [wk EXCEPT ![w] = k]
      PROVE  WkType'
  BY <1>0, <1>s DEF WkType
<1>1. ASSUME NEW p \in Posts, Claim(w, p)
      PROVE  TypeOK'
  <2>1. ContentType' /\ LinkedType' /\ HistoryType'  BY <1>1, <1>k DEF Claim
  <2>2. PostType'  BY <1>0, <1>1 DEF Claim, PostType, Row
  <2>3. WkType'
    <3> DEFINE k == [wk[w] EXCEPT !.pc = "content", !.post = p, !.prior = post[p]]
    <3>1. k \in Worker  BY <1>0, <1>1 DEF Claim, Worker, PC, Op, ContentType, LinkedType
    <3>2. wk' = [wk EXCEPT ![w] = k]  BY <1>0, <1>1 DEF Claim
    <3> HIDE DEF k
    <3> QED  BY <1>s, <3>1, <3>2
  <2> QED  BY <2>1, <2>2, <2>3
<1>2. CASE ClaimLost(w)
  <2>1. ContentType' /\ LinkedType' /\ PostType' /\ HistoryType'  BY <1>2, <1>k DEF ClaimLost
  <2>2. WkType'  BY <1>0, <1>2, Move DEF ClaimLost, WkType, PC
  <2> QED  BY <2>1, <2>2
<1>3. CASE ReadContent(w)
  <2>1. ContentType' /\ LinkedType' /\ PostType' /\ HistoryType'  BY <1>3, <1>k DEF ReadContent
  <2>2. WkType'
    <3> DEFINE k == [wk[w] EXCEPT !.bd = body,
                        !.pc = IF status \in Publishable THEN "checks" ELSE "cancelSelf"]
    <3>1. k \in Worker  BY <1>0, <1>3 DEF ReadContent, Worker, PC, Op, ContentType, LinkedType
    <3>2. wk' = [wk EXCEPT ![w] = k]  BY <1>0, <1>3 DEF ReadContent
    <3> HIDE DEF k
    <3> QED  BY <1>s, <3>1, <3>2
  <2> QED  BY <2>1, <2>2
<1>4. CASE CancelSelf(w)
  <2>1. ContentType' /\ LinkedType' /\ HistoryType'  BY <1>4, <1>k DEF CancelSelf, Release
  <2>2. PostType'  BY <1>0, <1>4 DEF CancelSelf, PostType, Release, Transition, Row
  <2>3. WkType'  BY <1>0, <1>4, Move DEF CancelSelf, WkType, PC
  <2> QED  BY <2>1, <2>2, <2>3
<1>5. CASE Checks(w)
  <2>1. ContentType' /\ LinkedType' /\ PostType' /\ HistoryType'  BY <1>5, <1>k DEF Checks
  <2>2. WkType'  BY <1>0, <1>5, Move DEF Checks, WkType, PC
  <2> QED  BY <2>1, <2>2
<1>6. CASE Skip(w)
  <2>1. ContentType' /\ LinkedType' /\ HistoryType'  BY <1>6, <1>k DEF Skip, Release
  <2>2. PostType'  BY <1>0, <1>6 DEF Skip, PostType, Release, Transition, Row, Resting, Worker
  <2>3. WkType'  BY <1>0, <1>6, Move DEF Skip, WkType, PC
  <2> QED  BY <2>1, <2>2, <2>3
<1>7. CASE Send(w)
  <2>1. ContentType' /\ LinkedType' /\ PostType'  BY <1>7, <1>k DEF Send
  <2>2. HistoryType'  BY <1>0, <1>7 DEF Send, HistoryType, Worker
  <2>3. WkType'  BY <1>0, <1>7, Move DEF Send, WkType, PC
  <2> QED  BY <2>1, <2>2, <2>3
<1>8. CASE Settle(w)
  <2>1. ContentType' /\ LinkedType' /\ HistoryType'  BY <1>8, <1>k DEF Settle, Release
  <2>2. PostType'  BY <1>0, <1>8 DEF Settle, PostType, Release, Transition, Row
  <2>3. WkType'  BY <1>0, <1>8, Move DEF Settle, WkType, PC
  <2> QED  BY <2>1, <2>2, <2>3
<1>9. CASE SettleFail(w)
  <2>1. ContentType' /\ LinkedType' /\ HistoryType'  BY <1>9, <1>k DEF SettleFail, Release
  <2>2. PostType'  BY <1>0, <1>9 DEF SettleFail, PostType, Release, Transition, Row, Resting
  <2>3. WkType'  BY <1>0, <1>9, Move DEF SettleFail, WkType, PC
  <2> QED  BY <2>1, <2>2, <2>3
<1>10. CASE Exhaust(w)
  <2>1. ContentType' /\ LinkedType' /\ HistoryType'  BY <1>10, <1>k DEF Exhaust
  <2>2. PostType'  BY <1>0, <1>10 DEF Exhaust, PostType, Transition, Row, Resting
  <2>3. WkType'  BY <1>0, <1>10, Move DEF Exhaust, WkType, PC
  <2> QED  BY <2>1, <2>2, <2>3
<1>11. CASE Fresh(w)
  <2>1. ContentType' /\ LinkedType' /\ PostType' /\ HistoryType'  BY <1>11, <1>k DEF Fresh
  <2>2. WkType'  BY <1>0, <1>11, Move DEF Fresh, WkType, PC
  <2> QED  BY <2>1, <2>2
<1>12. CASE Advance(w)
  <2>1. LinkedType' /\ PostType'  BY <1>12, <1>k DEF Advance
  <2>2. ContentType'
    BY <1>0, <1>12 DEF Advance, ContentType, Promote, Status, Drafts, Publishable
  <2>3. HistoryType'  BY <1>0, <1>12 DEF Advance, HistoryType, Promote
  <2>4. WkType'  BY <1>0, <1>12, Move DEF Advance, WkType, PC
  <2> QED  BY <2>1, <2>2, <2>3, <2>4
<1>13. CASE ItemPublished(w)
  <2>1. ContentType' /\ PostType' /\ HistoryType'  BY <1>13, <1>k DEF ItemPublished
  <2>2. LinkedType'  BY <1>0, <1>13 DEF ItemPublished, LinkedType, Item
  <2>3. WkType'  BY <1>0, <1>13, Move DEF ItemPublished, WkType, PC
  <2> QED  BY <2>1, <2>2, <2>3
<1>14. CASE Stop(w)
  <2>1. ContentType' /\ LinkedType' /\ PostType' /\ HistoryType'  BY <1>14, <1>k DEF Stop
  <2>2. WkType'  BY <1>0, <1>14, Move DEF Stop, WkType, PC
  <2> QED  BY <2>1, <2>2
<1> QED
  BY <1>1, <1>2, <1>3, <1>4, <1>5, <1>6, <1>7, <1>8, <1>9, <1>10, <1>11, <1>12, <1>13,
     <1>14 DEF PublishNext

---------------------------------------------------------------------------
(* Type correctness as a theorem.                                          *)

(* The initial states are well typed.                                      *)
LEMMA InitType == Init => TypeOK
<1> SUFFICES ASSUME Init PROVE TypeOK
  OBVIOUS
<1>1. ContentType /\ LinkedType /\ PostType
  BY BodiesAssumption DEF Init, ContentType, LinkedType, PostType, Status, Drafts, Item, Row
<1>2. HistoryType  BY BodiesAssumption DEF Init, HistoryType
<1>3. WkType  BY IdleType DEF Init, WkType
<1> QED  BY <1>1, <1>2, <1>3, TypeParts

(* Every step keeps the types, a stuttering step too.                      *)
LEMMA StepType == TypeOK /\ [Next]_vars => TypeOK'
<1> SUFFICES ASSUME TypeOK, [Next]_vars PROVE TypeOK'
  OBVIOUS
<1>1. ASSUME NEW w \in Workers,
             EditNext(w) \/ ReviewNext(w) \/ ScheduleNext(w) \/ PublishNext(w) \/ Stop(w)
      PROVE  TypeOK'
  BY <1>1, EditType, ReviewType, ScheduleType, PublishType
<1>2. ASSUME UNCHANGED <<contentVars, linkedVars, history, wk>>, PostType'
      PROVE  TypeOK'
  BY <1>2, Kept, TypeParts
<1>3. ASSUME NEW p \in Posts, Recover(p) \/ Requeue(p)
      PROVE  TypeOK'
  <2>1. PostType'  BY <1>3, TypeParts DEF Recover, Requeue, PostType, Row, Resting
  <2> QED  BY <1>2, <1>3, <2>1 DEF Recover, Requeue
<1>4. CASE UNCHANGED vars
  BY <1>4, Kept, TypeParts DEF vars
<1> QED  BY <1>1, <1>3, <1>4 DEF Next

(* Every reachable state is well typed: whatever interleaving and crashes, no
   worker is left with locals that no operation produces. *)
THEOREM TypeCorrect == Spec => []TypeOK
<1>1. Init => TypeOK  BY InitType
<1>2. TypeOK /\ [Next]_vars => TypeOK'  BY StepType
<1> QED  BY <1>1, <1>2, PTL DEF Spec

---------------------------------------------------------------------------
(* What was approved.  The status and the body a worker has read are an       *)
(* approved pair while they are still to be acted on, because cleared only     *)
(* grows; a promotion therefore either finds the body it read, or is counted   *)
(* as raced.                                                                   *)

(* Where a worker still relies on having read an approved text.             *)
Relies(k) == \/ k.pc \in {"critique", "createRow", "scheduleWrite", "unschedule", "checks",
                          "send", "settle", "fresh", "advance"}
             \/ k.was /\ k.pc = "cancelActive"
             \/ k.was /\ k.pc \in {"sweepList", "sweep"} /\ k.op # "edit"

ContentClear == status \in {"approved"} \cup Publishable => body \in cleared
SentClear == \A p \in Posts : sent[p] \subseteq cleared
LocalsClear == \A w \in Workers : Relies(wk[w]) => wk[w].bd \in cleared
ClearInv == ~raced => ContentClear /\ SentClear /\ LocalsClear

(* A worker that changes neither the item nor the history has to answer only for
   what it relies on next. *)
LEMMA QuietStep ==
  ASSUME ClearInv, NEW w \in Workers, UNCHANGED <<status, body, cleared, sent, raced>>,
         \A v \in Workers \ {w} : wk'[v] = wk[v],
         ~raced /\ ContentClear /\ LocalsClear /\ Relies(wk'[w]) => wk'[w].bd \in cleared
  PROVE  ClearInv'
<1> SUFFICES ASSUME ~raced PROVE (ContentClear /\ SentClear /\ LocalsClear)'
  BY DEF ClearInv
<1>1. ContentClear /\ SentClear /\ LocalsClear  BY DEF ClearInv
<1>2. ContentClear' /\ SentClear'  BY <1>1 DEF ContentClear, SentClear
<1>3. ASSUME NEW v \in Workers, Relies(wk'[v]) PROVE wk'[v].bd \in cleared
  BY <1>1, <1>3 DEF LocalsClear
<1>4. LocalsClear'  BY <1>3 DEF LocalsClear, Relies
<1> QED  BY <1>2, <1>4

(* An edit writes a text nobody has approved, and demotes the item with it. *)
LEMMA EditClear ==
  ASSUME TypeOK, ClearInv, NEW w \in Workers, EditNext(w)
  PROVE  ClearInv'
<1>0. wk \in [Workers -> Worker]  BY DEF TypeOK
<1>1. ASSUME NEW b \in Bodies, Save(w, b)
      PROVE  ClearInv'
  <2>1. \A v \in Workers \ {w} : wk'[v] = wk[v]  BY <1>0, <1>1 DEF Save
  <2>2. UNCHANGED <<status, body, cleared, sent, raced>>  BY <1>1 DEF Save, contentVars, history
  <2>3. ~raced /\ ContentClear /\ LocalsClear /\ Relies(wk'[w]) => wk'[w].bd \in cleared
    BY <1>0, <1>1 DEF Save, Relies, Worker
  <2> QED  BY <2>1, <2>2, <2>3, QuietStep
<1>2. CASE SweepList(w)
  <2>1. \A v \in Workers \ {w} : wk'[v] = wk[v]  BY <1>0, <1>2 DEF SweepList, At
  <2>2. UNCHANGED <<status, body, cleared, sent, raced>>
    BY <1>2 DEF SweepList, contentVars, history
  <2>3. ~raced /\ ContentClear /\ LocalsClear /\ Relies(wk'[w]) => wk'[w].bd \in cleared
    BY <1>0, <1>2 DEF SweepList, Relies, Worker, At, LocalsClear
  <2> QED  BY <2>1, <2>2, <2>3, QuietStep
<1>3. ASSUME NEW p \in Posts, SweepRow(w, p)
      PROVE  ClearInv'
  <2>1. \A v \in Workers \ {w} : wk'[v] = wk[v]  BY <1>0, <1>3 DEF SweepRow, At
  <2>2. UNCHANGED <<status, body, cleared, sent, raced>>
    BY <1>3 DEF SweepRow, contentVars, history
  <2>3. ~raced /\ ContentClear /\ LocalsClear /\ Relies(wk'[w]) => wk'[w].bd \in cleared
    BY <1>0, <1>3 DEF SweepRow, Relies, Worker, At, LocalsClear
  <2> QED  BY <2>1, <2>2, <2>3, QuietStep
<1>4. CASE SweepDone(w)
  <2>1. \A v \in Workers \ {w} : wk'[v] = wk[v]  BY <1>0, <1>4 DEF SweepDone, Goto, At
  <2>2. UNCHANGED <<status, body, cleared, sent, raced>>
    BY <1>4 DEF SweepDone, contentVars, history
  <2>3. ~raced /\ ContentClear /\ LocalsClear /\ Relies(wk'[w]) => wk'[w].bd \in cleared
    BY <1>0, <1>4 DEF SweepDone, Relies, Worker, Goto, At, LocalsClear
  <2> QED  BY <2>1, <2>2, <2>3, QuietStep
<1>5. CASE Edit(w)
  <2>1. \A v \in Workers \ {w} : wk'[v] = wk[v]
    BY <1>0, <1>5 DEF Edit, Forget, Finish, IdleWorker
  <2>2. UNCHANGED <<cleared, sent, raced>> /\ status' \notin {"approved"} \cup Publishable
    BY <1>5 DEF Edit, history, Publishable
  <2>3. ~Relies(wk'[w])  BY <1>0, <1>5, Move DEF Edit, Relies, PC, WkType, IdleWorker
  <2>4. ASSUME ~raced PROVE ContentClear' /\ SentClear' /\ LocalsClear'
    <3>1. SentClear /\ LocalsClear  BY <2>4 DEF ClearInv
    <3>2. ContentClear' /\ SentClear'  BY <2>2, <3>1 DEF ContentClear, SentClear
    <3>3. LocalsClear'  BY <2>1, <2>2, <2>3, <3>1 DEF LocalsClear, Relies
    <3> QED  BY <3>2, <3>3
  <2> QED  BY <2>2, <2>4 DEF ClearInv
<1>6. CASE BackItem(w)
  <2>1. \A v \in Workers \ {w} : wk'[v] = wk[v]  BY <1>0, <1>6 DEF BackItem, Goto
  <2>2. UNCHANGED <<status, body, cleared, sent, raced>>
    BY <1>6 DEF BackItem, contentVars, history
  <2>3. ~raced /\ ContentClear /\ LocalsClear /\ Relies(wk'[w]) => wk'[w].bd \in cleared
    BY <1>0, <1>6 DEF BackItem, Relies, Worker, Goto
  <2> QED  BY <2>1, <2>2, <2>3, QuietStep
<1>7. CASE BackItemWrite(w)
  <2>1. \A v \in Workers \ {w} : wk'[v] = wk[v]  BY <1>0, <1>7 DEF BackItemWrite, Goto
  <2>2. UNCHANGED <<status, body, cleared, sent, raced>>
    BY <1>7 DEF BackItemWrite, contentVars, history
  <2>3. ~raced /\ ContentClear /\ LocalsClear /\ Relies(wk'[w]) => wk'[w].bd \in cleared
    BY <1>0, <1>7 DEF BackItemWrite, Relies, Worker, Goto
  <2> QED  BY <2>1, <2>2, <2>3, QuietStep
<1>8. CASE BackCampaign(w)
  <2>1. \A v \in Workers \ {w} : wk'[v] = wk[v]
    BY <1>0, <1>8 DEF BackCampaign, Goto, Finish, IdleWorker
  <2>2. UNCHANGED <<status, body, cleared, sent, raced>>
    BY <1>8 DEF BackCampaign, contentVars, history
  <2>3. ~raced /\ ContentClear /\ LocalsClear /\ Relies(wk'[w]) => wk'[w].bd \in cleared
    BY <1>0, <1>8 DEF BackCampaign, Relies, Worker, Goto, Finish, IdleWorker
  <2> QED  BY <2>1, <2>2, <2>3, QuietStep
<1>9. CASE Reopen(w)
  <2>1. \A v \in Workers \ {w} : wk'[v] = wk[v]  BY <1>0, <1>9 DEF Reopen, Finish, IdleWorker
  <2>2. UNCHANGED <<status, body, cleared, sent, raced>>  BY <1>9 DEF Reopen, contentVars, history
  <2>3. ~raced /\ ContentClear /\ LocalsClear /\ Relies(wk'[w]) => wk'[w].bd \in cleared
    BY <1>0, <1>9 DEF Reopen, Relies, Worker, Finish, IdleWorker
  <2> QED  BY <2>1, <2>2, <2>3, QuietStep
<1> QED  BY <1>1, <1>2, <1>3, <1>4, <1>5, <1>6, <1>7, <1>8, <1>9 DEF EditNext

(* An approval clears the text it governed.                                *)
LEMMA ReviewClear ==
  ASSUME TypeOK, ClearInv, NEW w \in Workers, ReviewNext(w)
  PROVE  ClearInv'
<1>0. wk \in [Workers -> Worker]  BY DEF TypeOK
<1>1. CASE Submit(w)
  <2>1. \A v \in Workers \ {w} : wk'[v] = wk[v]  BY <1>0, <1>1 DEF Submit, Goto
  <2>2. UNCHANGED <<status, body, cleared, sent, raced>>  BY <1>1 DEF Submit, contentVars, history
  <2>3. ~raced /\ ContentClear /\ LocalsClear /\ Relies(wk'[w]) => wk'[w].bd \in cleared
    BY <1>0, <1>1 DEF Submit, Relies, Worker, Goto
  <2> QED  BY <2>1, <2>2, <2>3, QuietStep
<1>2. CASE SubmitWrite(w)
  <2>1. \A v \in Workers \ {w} : wk'[v] = wk[v]  BY <1>0, <1>2 DEF SubmitWrite, Finish, IdleWorker
  <2>2. UNCHANGED <<cleared, sent, raced>> /\ status' \notin {"approved"} \cup Publishable
    BY <1>2 DEF SubmitWrite, history, Publishable
  <2>3. ~Relies(wk'[w])  BY <1>0, <1>2, Move DEF SubmitWrite, Relies, PC, WkType, IdleWorker
  <2>4. ASSUME ~raced PROVE ContentClear' /\ SentClear' /\ LocalsClear'
    <3>1. SentClear /\ LocalsClear  BY <2>4 DEF ClearInv
    <3>2. ContentClear' /\ SentClear'  BY <2>2, <3>1 DEF ContentClear, SentClear
    <3>3. LocalsClear'  BY <2>1, <2>2, <2>3, <3>1 DEF LocalsClear, Relies
    <3> QED  BY <3>2, <3>3
  <2> QED  BY <2>2, <2>4 DEF ClearInv
<1>3. CASE Share(w)
  <2>1. \A v \in Workers \ {w} : wk'[v] = wk[v]  BY <1>0, <1>3 DEF Share, Goto
  <2>2. UNCHANGED <<status, body, cleared, sent, raced>>  BY <1>3 DEF Share, contentVars, history
  <2>3. ~raced /\ ContentClear /\ LocalsClear /\ Relies(wk'[w]) => wk'[w].bd \in cleared
    BY <1>0, <1>3 DEF Share, Relies, Worker, Goto
  <2> QED  BY <2>1, <2>2, <2>3, QuietStep
<1>4. CASE ShareWrite(w)
  <2>1. \A v \in Workers \ {w} : wk'[v] = wk[v]  BY <1>0, <1>4 DEF ShareWrite, Finish, IdleWorker
  <2>2. UNCHANGED <<status, body, cleared, sent, raced>>
    BY <1>4 DEF ShareWrite, contentVars, history
  <2>3. ~raced /\ ContentClear /\ LocalsClear /\ Relies(wk'[w]) => wk'[w].bd \in cleared
    BY <1>0, <1>4 DEF ShareWrite, Relies, Worker, Finish, IdleWorker
  <2> QED  BY <2>1, <2>2, <2>3, QuietStep
<1>5. ASSUME NEW op \in {"staff", "client"}, Decide(w, op)
      PROVE  ClearInv'
  <2>1. \A v \in Workers \ {w} : wk'[v] = wk[v]  BY <1>0, <1>5 DEF Decide
  <2>2. UNCHANGED <<status, body, cleared, sent, raced>>  BY <1>5 DEF Decide, contentVars, history
  <2>3. ~raced /\ ContentClear /\ LocalsClear /\ Relies(wk'[w]) => wk'[w].bd \in cleared
    BY <1>0, <1>5 DEF Decide, Relies, Worker
  <2> QED  BY <2>1, <2>2, <2>3, QuietStep
<1>6. CASE Govern(w)
  <2>1. \A v \in Workers \ {w} : wk'[v] = wk[v]
    BY <1>0, <1>6 DEF Govern, Goto, Finish, IdleWorker
  <2>2. UNCHANGED <<status, body, cleared, sent, raced>>  BY <1>6 DEF Govern, contentVars, history
  <2>3. ~raced /\ ContentClear /\ LocalsClear /\ Relies(wk'[w]) => wk'[w].bd \in cleared
    BY <1>0, <1>6 DEF Govern, Relies, Worker, Goto, Finish, IdleWorker
  <2> QED  BY <2>1, <2>2, <2>3, QuietStep
<1>7. CASE ApproveWrite(w)
  <2>1. \A v \in Workers \ {w} : wk'[v] = wk[v]
    BY <1>0, <1>7 DEF ApproveWrite, Decided, Forget, Finish
  <2>2. /\ body' = body /\ sent' = sent /\ cleared' = cleared \cup {wk[w].bd}
        /\ ~raced' => ~raced /\ body = wk[w].bd
    BY <1>7 DEF ApproveWrite, Promote
  <2>3. ~Relies(wk'[w])
    BY <1>0, <1>7, Move DEF ApproveWrite, Decided, IdleWorker, Relies, PC, WkType
  <2>4. ASSUME ~raced' PROVE ContentClear' /\ SentClear' /\ LocalsClear'
    <3>1. SentClear /\ LocalsClear  BY <2>2, <2>4 DEF ClearInv
    <3>2. ContentClear' /\ SentClear'  BY <2>2, <2>4, <3>1 DEF ContentClear, SentClear
    <3>3. LocalsClear'  BY <2>1, <2>2, <2>3, <3>1 DEF LocalsClear, Relies
    <3> QED  BY <3>2, <3>3
  <2> QED  BY <2>4 DEF ClearInv
<1>8. CASE ApproveItem(w)
  <2>1. \A v \in Workers \ {w} : wk'[v] = wk[v]  BY <1>0, <1>8 DEF ApproveItem, Goto
  <2>2. UNCHANGED <<status, body, cleared, sent, raced>>
    BY <1>8 DEF ApproveItem, contentVars, history
  <2>3. ~raced /\ ContentClear /\ LocalsClear /\ Relies(wk'[w]) => wk'[w].bd \in cleared
    BY <1>0, <1>8 DEF ApproveItem, Relies, Worker, Goto
  <2> QED  BY <2>1, <2>2, <2>3, QuietStep
<1>9. CASE Complete(w)
  <2>1. \A v \in Workers \ {w} : wk'[v] = wk[v]
    BY <1>0, <1>9 DEF Complete, Decided, Forget, Goto, Finish
  <2>2. UNCHANGED <<status, body, cleared, sent, raced>>
    BY <1>9 DEF Complete, contentVars, history
  <2>3. CASE Goto(w, "completeItems")
    <3>1. wk'[w].pc = "completeItems"  BY <1>0, <2>3 DEF Goto, Worker
    <3> QED  BY <2>1, <2>2, <3>1, QuietStep DEF Relies
  <2>4. CASE Decided(w)
    <3>1. ~Relies(wk'[w])  BY <1>0, <2>4, Move DEF Decided, Relies, PC, WkType, IdleWorker
    <3> QED  BY <2>1, <2>2, <3>1, QuietStep
  <2> QED  BY <1>9, <2>3, <2>4 DEF Complete
<1>10. CASE CompleteItems(w)
  <2>1. \A v \in Workers \ {w} : wk'[v] = wk[v]
    BY <1>0, <1>10 DEF CompleteItems, Decided, Forget, Goto, Finish
  <2>2. UNCHANGED <<status, body, cleared, sent, raced>>
    BY <1>10 DEF CompleteItems, contentVars, history
  <2>3. CASE Goto(w, "completeWrite")
    <3>1. wk'[w].pc = "completeWrite"  BY <1>0, <2>3 DEF Goto, Worker
    <3> QED  BY <2>1, <2>2, <3>1, QuietStep DEF Relies
  <2>4. CASE Decided(w)
    <3>1. ~Relies(wk'[w])  BY <1>0, <2>4, Move DEF Decided, Relies, PC, WkType, IdleWorker
    <3> QED  BY <2>1, <2>2, <3>1, QuietStep
  <2> QED  BY <1>10, <2>3, <2>4 DEF CompleteItems
<1>11. CASE CompleteWrite(w)
  <2>1. \A v \in Workers \ {w} : wk'[v] = wk[v]
    BY <1>0, <1>11 DEF CompleteWrite, Decided, Forget, Finish, IdleWorker
  <2>2. UNCHANGED <<status, body, cleared, sent, raced>>
    BY <1>11 DEF CompleteWrite, contentVars, history
  <2>3. ~raced /\ ContentClear /\ LocalsClear /\ Relies(wk'[w]) => wk'[w].bd \in cleared
    BY <1>0, <1>11, Move DEF CompleteWrite, Relies, PC, WkType, Decided, IdleWorker
  <2> QED  BY <2>1, <2>2, <2>3, QuietStep
<1>12. ASSUME NEW op \in {"staff", "client"}, Reject(w, op)
      PROVE  ClearInv'
  <2>1. \A v \in Workers \ {w} : wk'[v] = wk[v]  BY <1>0, <1>12 DEF Reject
  <2>2. UNCHANGED <<status, body, cleared, sent, raced>>
    BY <1>12 DEF Reject, contentVars, history
  <2>3. ~raced /\ ContentClear /\ LocalsClear /\ Relies(wk'[w]) => wk'[w].bd \in cleared
    BY <1>0, <1>12 DEF Reject, Relies, Worker
  <2> QED  BY <2>1, <2>2, <2>3, QuietStep
<1>13. CASE RejectWrite(w)
  <2>1. \A v \in Workers \ {w} : wk'[v] = wk[v]
    BY <1>0, <1>13 DEF RejectWrite, Finish, IdleWorker
  <2>2. UNCHANGED <<cleared, sent, raced>> /\ status' \notin {"approved"} \cup Publishable
    BY <1>13 DEF RejectWrite, history, Publishable
  <2>3. ~Relies(wk'[w])  BY <1>0, <1>13, Move DEF RejectWrite, Relies, PC, WkType, IdleWorker
  <2>4. ASSUME ~raced PROVE ContentClear' /\ SentClear' /\ LocalsClear'
    <3>1. SentClear /\ LocalsClear  BY <2>4 DEF ClearInv
    <3>2. ContentClear' /\ SentClear'  BY <2>2, <3>1 DEF ContentClear, SentClear
    <3>3. LocalsClear'  BY <2>1, <2>2, <2>3, <3>1 DEF LocalsClear, Relies
    <3> QED  BY <3>2, <3>3
  <2> QED  BY <2>2, <2>4 DEF ClearInv
<1> QED
  BY <1>1, <1>2, <1>3, <1>4, <1>5, <1>6, <1>7, <1>8, <1>9, <1>10, <1>11, <1>12,
     <1>13 DEF ReviewNext

(* Scheduling and unscheduling pass on what they read.                     *)
LEMMA ScheduleClear ==
  ASSUME TypeOK, ClearInv, NEW w \in Workers, ScheduleNext(w)
  PROVE  ClearInv'
<1>0. wk \in [Workers -> Worker]  BY DEF TypeOK
<1>1. CASE ScheduleRead(w)
  <2>1. \A v \in Workers \ {w} : wk'[v] = wk[v]  BY <1>0, <1>1 DEF ScheduleRead, Finish
  <2>2. UNCHANGED <<status, body, cleared, sent, raced>>
    BY <1>1 DEF ScheduleRead, contentVars, history
  <2>3. CASE status \in {"approved", "scheduled"}
    <3> DEFINE k == [wk[w] EXCEPT !.pc = "critique", !.bd = body]
    <3>0. wk' = [wk EXCEPT ![w] = k]  BY <1>1, <2>3 DEF ScheduleRead
    <3>1. wk'[w].bd = body  BY <1>0, <3>0 DEF Worker
    <3>2. ContentClear => body \in cleared  BY <2>3 DEF ContentClear, Publishable
    <3> QED  BY <2>1, <2>2, <3>1, <3>2, QuietStep
  <2>4. CASE status \notin {"approved", "scheduled"}
    <3>1. ~Relies(wk'[w])
      BY <1>0, <1>1, <2>4, Move DEF ScheduleRead, Relies, PC, WkType, IdleWorker
    <3> QED  BY <2>1, <2>2, <3>1, QuietStep
  <2> QED  BY <2>3, <2>4
<1>2. CASE Critique(w)
  <2>1. \A v \in Workers \ {w} : wk'[v] = wk[v]
    BY <1>0, <1>2 DEF Critique, Goto, Finish, IdleWorker, At
  <2>2. UNCHANGED <<status, body, cleared, sent, raced>>
    BY <1>2 DEF Critique, contentVars, history
  <2>3. ~raced /\ ContentClear /\ LocalsClear /\ Relies(wk'[w]) => wk'[w].bd \in cleared
    BY <1>0, <1>2 DEF Critique, Relies, Worker, Goto, Finish, IdleWorker, At, LocalsClear
  <2> QED  BY <2>1, <2>2, <2>3, QuietStep
<1>3. ASSUME NEW p \in Posts, CreateRow(w, p)
      PROVE  ClearInv'
  <2>1. \A v \in Workers \ {w} : wk'[v] = wk[v]  BY <1>0, <1>3 DEF CreateRow, At
  <2>2. UNCHANGED <<status, body, cleared, sent, raced>>
    BY <1>3 DEF CreateRow, contentVars, history
  <2>3. ~raced /\ ContentClear /\ LocalsClear /\ Relies(wk'[w]) => wk'[w].bd \in cleared
    BY <1>0, <1>3 DEF CreateRow, Relies, Worker, At, LocalsClear
  <2> QED  BY <2>1, <2>2, <2>3, QuietStep
<1>4. CASE CreateThrows(w)
  <2>1. \A v \in Workers \ {w} : wk'[v] = wk[v]
    BY <1>0, <1>4 DEF CreateThrows, Finish, IdleWorker
  <2>2. UNCHANGED <<status, body, cleared, sent, raced>>
    BY <1>4 DEF CreateThrows, contentVars, history
  <2>3. ~raced /\ ContentClear /\ LocalsClear /\ Relies(wk'[w]) => wk'[w].bd \in cleared
    BY <1>0, <1>4 DEF CreateThrows, Relies, Worker, Finish, IdleWorker
  <2> QED  BY <2>1, <2>2, <2>3, QuietStep
<1>5. CASE ScheduleWrite(w)
  <2>1. \A v \in Workers \ {w} : wk'[v] = wk[v]
    BY <1>0, <1>5 DEF ScheduleWrite, Scheduled, Forget, Finish, IdleWorker
  <2>2. UNCHANGED <<body, cleared, sent>> /\ (~raced' => ~raced /\ body = wk[w].bd)
    BY <1>5 DEF ScheduleWrite, Promote
  <2>3. ~Relies(wk'[w])
    BY <1>0, <1>5, Move DEF ScheduleWrite, Relies, PC, WkType, Scheduled, IdleWorker
  <2>4. ASSUME ~raced' PROVE ContentClear' /\ SentClear' /\ LocalsClear'
    <3>1. ~raced /\ ContentClear /\ SentClear /\ LocalsClear  BY <2>2, <2>4 DEF ClearInv
    <3>2. body \in cleared  BY <1>5, <2>2, <2>4, <3>1 DEF ScheduleWrite, At, LocalsClear, Relies
    <3>3. ContentClear' /\ SentClear'  BY <2>2, <3>1, <3>2 DEF ContentClear, SentClear
    <3>4. LocalsClear'  BY <2>1, <2>2, <2>3, <3>1 DEF LocalsClear, Relies
    <3> QED  BY <3>3, <3>4
  <2> QED  BY <2>4 DEF ClearInv
<1>6. CASE ScheduleItem(w)
  <2>1. \A v \in Workers \ {w} : wk'[v] = wk[v]
    BY <1>0, <1>6 DEF ScheduleItem, Scheduled, Forget, Finish, IdleWorker
  <2>2. UNCHANGED <<status, body, cleared, sent, raced>>
    BY <1>6 DEF ScheduleItem, contentVars, history
  <2>3. ~raced /\ ContentClear /\ LocalsClear /\ Relies(wk'[w]) => wk'[w].bd \in cleared
    BY <1>0, <1>6, Move DEF ScheduleItem, Relies, PC, WkType, Scheduled, IdleWorker
  <2> QED  BY <2>1, <2>2, <2>3, QuietStep
<1>7. ASSUME NEW p \in Posts, CancelRow(w, p)
      PROVE  ClearInv'
  <2>1. \A v \in Workers \ {w} : wk'[v] = wk[v]  BY <1>0, <1>7 DEF CancelRow
  <2>2. UNCHANGED <<status, body, cleared, sent, raced>>
    BY <1>7 DEF CancelRow, contentVars, history
  <2>3. ~raced /\ ContentClear /\ LocalsClear /\ Relies(wk'[w]) => wk'[w].bd \in cleared
    BY <1>0, <1>7 DEF CancelRow, Relies, Worker
  <2> QED  BY <2>1, <2>2, <2>3, QuietStep
<1>8. CASE CancelRead(w)
  <2>1. \A v \in Workers \ {w} : wk'[v] = wk[v]  BY <1>0, <1>8 DEF CancelRead, Fetched
  <2>2. UNCHANGED <<status, body, cleared, sent, raced>>
    BY <1>8 DEF CancelRead, contentVars, history
  <2>3. ~raced /\ ContentClear /\ LocalsClear /\ Relies(wk'[w]) => wk'[w].bd \in cleared
    BY <1>0, <1>8 DEF CancelRead, Relies, Worker, Fetched, ContentClear, Publishable
  <2> QED  BY <2>1, <2>2, <2>3, QuietStep
<1>9. CASE CancelActive(w)
  <2>1. \A v \in Workers \ {w} : wk'[v] = wk[v]
    BY <1>0, <1>9 DEF CancelActive, ItemNext, Forget, Goto, Finish
  <2>2. UNCHANGED <<status, body, cleared, sent, raced>>
    BY <1>9 DEF CancelActive, contentVars, history
  <2>3. CASE wk[w].was /\ Goto(w, "unschedule")
    <3>1. wk'[w].bd = wk[w].bd  BY <1>0, <2>3 DEF Goto, Worker
    <3>2. LocalsClear => wk[w].bd \in cleared
      BY <1>9, <2>3 DEF CancelActive, At, LocalsClear, Relies
    <3> QED  BY <2>1, <2>2, <3>1, <3>2, QuietStep
  <2>4. CASE Finish(w) \/ ItemNext(w)
    <3>1. ~Relies(wk'[w])  BY <1>0, <2>4, Move DEF ItemNext, Relies, PC, WkType, IdleWorker
    <3> QED  BY <2>1, <2>2, <3>1, QuietStep
  <2> QED  BY <1>9, <2>3, <2>4 DEF CancelActive
<1>10. CASE Unschedule(w)
  <2>1. \A v \in Workers \ {w} : wk'[v] = wk[v]
    BY <1>0, <1>10 DEF Unschedule, ItemNext, Forget, Finish, IdleWorker
  <2>2. UNCHANGED <<body, cleared, sent>> /\ (~raced' => ~raced /\ body = wk[w].bd)
    BY <1>10 DEF Unschedule, Promote
  <2>3. ~Relies(wk'[w])
    BY <1>0, <1>10, Move DEF Unschedule, Relies, PC, WkType, ItemNext, IdleWorker
  <2>4. ASSUME ~raced' PROVE ContentClear' /\ SentClear' /\ LocalsClear'
    <3>1. ~raced /\ ContentClear /\ SentClear /\ LocalsClear  BY <2>2, <2>4 DEF ClearInv
    <3>2. body \in cleared  BY <1>10, <2>2, <2>4, <3>1 DEF Unschedule, At, LocalsClear, Relies
    <3>3. ContentClear' /\ SentClear'  BY <2>2, <3>1, <3>2 DEF ContentClear, SentClear
    <3>4. LocalsClear'  BY <2>1, <2>2, <2>3, <3>1 DEF LocalsClear, Relies
    <3> QED  BY <3>3, <3>4
  <2> QED  BY <2>4 DEF ClearInv
<1>11. CASE ItemRead(w)
  <2>1. \A v \in Workers \ {w} : wk'[v] = wk[v]  BY <1>0, <1>11 DEF ItemRead
  <2>2. UNCHANGED <<status, body, cleared, sent, raced>>
    BY <1>11 DEF ItemRead, contentVars, history
  <2>3. ~raced /\ ContentClear /\ LocalsClear /\ Relies(wk'[w]) => wk'[w].bd \in cleared
    BY <1>0, <1>11 DEF ItemRead, Relies, Worker
  <2> QED  BY <2>1, <2>2, <2>3, QuietStep
<1>12. CASE ItemWrite(w)
  <2>1. \A v \in Workers \ {w} : wk'[v] = wk[v]
    BY <1>0, <1>12 DEF ItemWrite, Goto, Finish, IdleWorker
  <2>2. UNCHANGED <<status, body, cleared, sent, raced>>
    BY <1>12 DEF ItemWrite, contentVars, history
  <2>3. ~raced /\ ContentClear /\ LocalsClear /\ Relies(wk'[w]) => wk'[w].bd \in cleared
    BY <1>0, <1>12 DEF ItemWrite, Relies, Worker, Goto, Finish, IdleWorker
  <2> QED  BY <2>1, <2>2, <2>3, QuietStep
<1>13. CASE CancelCampaign(w)
  <2>1. \A v \in Workers \ {w} : wk'[v] = wk[v]  BY <1>0, <1>13 DEF CancelCampaign
  <2>2. UNCHANGED <<status, body, cleared, sent, raced>>
    BY <1>13 DEF CancelCampaign, contentVars, history
  <2>3. ~raced /\ ContentClear /\ LocalsClear /\ Relies(wk'[w]) => wk'[w].bd \in cleared
    BY <1>0, <1>13 DEF CancelCampaign, Relies, Worker
  <2> QED  BY <2>1, <2>2, <2>3, QuietStep
<1>14. CASE CampaignItems(w)
  <2>1. \A v \in Workers \ {w} : wk'[v] = wk[v]  BY <1>0, <1>14 DEF CampaignItems
  <2>2. UNCHANGED <<status, body, cleared, sent, raced>>
    BY <1>14 DEF CampaignItems, contentVars, history
  <2>3. ~raced /\ ContentClear /\ LocalsClear /\ Relies(wk'[w]) => wk'[w].bd \in cleared
    BY <1>0, <1>14 DEF CampaignItems, Relies, Worker
  <2> QED  BY <2>1, <2>2, <2>3, QuietStep
<1>15. CASE CampaignContent(w)
  <2>1. \A v \in Workers \ {w} : wk'[v] = wk[v]  BY <1>0, <1>15 DEF CampaignContent, Fetched
  <2>2. UNCHANGED <<status, body, cleared, sent, raced>>
    BY <1>15 DEF CampaignContent, contentVars, history
  <2>3. ~raced /\ ContentClear /\ LocalsClear /\ Relies(wk'[w]) => wk'[w].bd \in cleared
    BY <1>0, <1>15 DEF CampaignContent, Relies, Worker, Fetched, ContentClear, Publishable
  <2> QED  BY <2>1, <2>2, <2>3, QuietStep
<1>16. CASE CampaignWrite(w)
  <2>1. \A v \in Workers \ {w} : wk'[v] = wk[v]
    BY <1>0, <1>16 DEF CampaignWrite, Finish, IdleWorker
  <2>2. UNCHANGED <<status, body, cleared, sent, raced>>
    BY <1>16 DEF CampaignWrite, contentVars, history
  <2>3. ~raced /\ ContentClear /\ LocalsClear /\ Relies(wk'[w]) => wk'[w].bd \in cleared
    BY <1>0, <1>16 DEF CampaignWrite, Relies, Worker, Finish, IdleWorker
  <2> QED  BY <2>1, <2>2, <2>3, QuietStep
<1> QED
  BY <1>1, <1>2, <1>3, <1>4, <1>5, <1>6, <1>7, <1>8, <1>9, <1>10, <1>11, <1>12, <1>13, <1>14,
     <1>15, <1>16 DEF ScheduleNext

(* An attempt sends what it read of a publishable item.                    *)
LEMMA PublishClear ==
  ASSUME TypeOK, ClearInv, NEW w \in Workers, PublishNext(w) \/ Stop(w)
  PROVE  ClearInv'
<1>0. wk \in [Workers -> Worker]  BY DEF TypeOK
<1>1. ASSUME NEW p \in Posts, Claim(w, p)
      PROVE  ClearInv'
  <2>1. \A v \in Workers \ {w} : wk'[v] = wk[v]  BY <1>0, <1>1 DEF Claim
  <2>2. UNCHANGED <<status, body, cleared, sent, raced>>  BY <1>1 DEF Claim, contentVars, history
  <2>3. ~raced /\ ContentClear /\ LocalsClear /\ Relies(wk'[w]) => wk'[w].bd \in cleared
    BY <1>0, <1>1 DEF Claim, Relies, Worker
  <2> QED  BY <2>1, <2>2, <2>3, QuietStep
<1>2. CASE ClaimLost(w)
  <2>1. \A v \in Workers \ {w} : wk'[v] = wk[v]  BY <1>0, <1>2 DEF ClaimLost, Finish, IdleWorker
  <2>2. UNCHANGED <<status, body, cleared, sent, raced>>
    BY <1>2 DEF ClaimLost, contentVars, history
  <2>3. ~raced /\ ContentClear /\ LocalsClear /\ Relies(wk'[w]) => wk'[w].bd \in cleared
    BY <1>0, <1>2 DEF ClaimLost, Relies, Worker, Finish, IdleWorker
  <2> QED  BY <2>1, <2>2, <2>3, QuietStep
<1>3. CASE ReadContent(w)
  <2>1. \A v \in Workers \ {w} : wk'[v] = wk[v]  BY <1>0, <1>3 DEF ReadContent
  <2>2. UNCHANGED <<status, body, cleared, sent, raced>>
    BY <1>3 DEF ReadContent, contentVars, history
  <2>3. ~raced /\ ContentClear /\ LocalsClear /\ Relies(wk'[w]) => wk'[w].bd \in cleared
    BY <1>0, <1>3 DEF ReadContent, Relies, Worker, ContentClear, Publishable
  <2> QED  BY <2>1, <2>2, <2>3, QuietStep
<1>4. CASE CancelSelf(w)
  <2>1. \A v \in Workers \ {w} : wk'[v] = wk[v]
    BY <1>0, <1>4 DEF CancelSelf, Release, Finish, IdleWorker
  <2>2. UNCHANGED <<status, body, cleared, sent, raced>>
    BY <1>4 DEF CancelSelf, contentVars, history, Release
  <2>3. ~raced /\ ContentClear /\ LocalsClear /\ Relies(wk'[w]) => wk'[w].bd \in cleared
    BY <1>0, <1>4 DEF CancelSelf, Relies, Worker, Release, Finish, IdleWorker
  <2> QED  BY <2>1, <2>2, <2>3, QuietStep
<1>5. CASE Checks(w)
  <2>1. \A v \in Workers \ {w} : wk'[v] = wk[v]  BY <1>0, <1>5 DEF Checks, Goto, At
  <2>2. UNCHANGED <<status, body, cleared, sent, raced>>  BY <1>5 DEF Checks, contentVars, history
  <2>3. ~raced /\ ContentClear /\ LocalsClear /\ Relies(wk'[w]) => wk'[w].bd \in cleared
    BY <1>0, <1>5 DEF Checks, Relies, Worker, Goto, At, LocalsClear
  <2> QED  BY <2>1, <2>2, <2>3, QuietStep
<1>6. CASE Skip(w)
  <2>1. \A v \in Workers \ {w} : wk'[v] = wk[v]
    BY <1>0, <1>6 DEF Skip, Release, Finish, IdleWorker
  <2>2. UNCHANGED <<status, body, cleared, sent, raced>>
    BY <1>6 DEF Skip, contentVars, history, Release
  <2>3. ~raced /\ ContentClear /\ LocalsClear /\ Relies(wk'[w]) => wk'[w].bd \in cleared
    BY <1>0, <1>6 DEF Skip, Relies, Worker, Release, Finish, IdleWorker
  <2> QED  BY <2>1, <2>2, <2>3, QuietStep
<1>7. CASE Send(w)
  <2>1. \A v \in Workers \ {w} : wk'[v] = wk[v]  BY <1>0, <1>7 DEF Send, Goto
  <2>2. UNCHANGED <<status, body, cleared, raced>>  BY <1>7 DEF Send, contentVars
  <2>3. wk'[w].bd = wk[w].bd  BY <1>0, <1>7 DEF Send, Goto, Worker
  <2>4. ASSUME ~raced PROVE ContentClear' /\ SentClear' /\ LocalsClear'
    <3>1. ContentClear /\ SentClear /\ LocalsClear  BY <2>4 DEF ClearInv
    <3>2. wk[w].bd \in cleared  BY <1>7, <3>1 DEF Send, At, LocalsClear, Relies
    <3>3. sent \in [Posts -> SUBSET Bodies]  BY DEF TypeOK
    <3>4. SentClear'  BY <1>7, <2>2, <3>1, <3>2, <3>3 DEF Send, SentClear
    <3>5. ContentClear'  BY <2>2, <3>1 DEF ContentClear
    <3>6. LocalsClear'  BY <2>1, <2>2, <2>3, <3>1, <3>2 DEF LocalsClear, Relies
    <3> QED  BY <3>4, <3>5, <3>6
  <2> QED  BY <2>2, <2>4 DEF ClearInv
<1>8. CASE Settle(w)
  <2>1. \A v \in Workers \ {w} : wk'[v] = wk[v]
    BY <1>0, <1>8 DEF Settle, Release, At, Goto, Finish, IdleWorker
  <2>2. UNCHANGED <<status, body, cleared, sent, raced>>
    BY <1>8 DEF Settle, contentVars, history, Release
  <2>3. ~raced /\ ContentClear /\ LocalsClear /\ Relies(wk'[w]) => wk'[w].bd \in cleared
    BY <1>0, <1>8 DEF Settle, Relies, Worker, Release, At, Goto, Finish, IdleWorker, LocalsClear
  <2> QED  BY <2>1, <2>2, <2>3, QuietStep
<1>9. CASE SettleFail(w)
  <2>1. \A v \in Workers \ {w} : wk'[v] = wk[v]
    BY <1>0, <1>9 DEF SettleFail, Release, Goto, Finish, IdleWorker
  <2>2. UNCHANGED <<status, body, cleared, sent, raced>>
    BY <1>9 DEF SettleFail, contentVars, history, Release
  <2>3. ~raced /\ ContentClear /\ LocalsClear /\ Relies(wk'[w]) => wk'[w].bd \in cleared
    BY <1>0, <1>9 DEF SettleFail, Relies, Worker, Release, Goto, Finish, IdleWorker
  <2> QED  BY <2>1, <2>2, <2>3, QuietStep
<1>10. CASE Exhaust(w)
  <2>1. \A v \in Workers \ {w} : wk'[v] = wk[v]  BY <1>0, <1>10 DEF Exhaust, Finish, IdleWorker
  <2>2. UNCHANGED <<status, body, cleared, sent, raced>>
    BY <1>10 DEF Exhaust, contentVars, history
  <2>3. ~raced /\ ContentClear /\ LocalsClear /\ Relies(wk'[w]) => wk'[w].bd \in cleared
    BY <1>0, <1>10 DEF Exhaust, Relies, Worker, Finish, IdleWorker
  <2> QED  BY <2>1, <2>2, <2>3, QuietStep
<1>11. CASE Fresh(w)
  <2>1. \A v \in Workers \ {w} : wk'[v] = wk[v]
    BY <1>0, <1>11 DEF Fresh, At, Goto, Finish, IdleWorker
  <2>2. UNCHANGED <<status, body, cleared, sent, raced>>  BY <1>11 DEF Fresh, contentVars, history
  <2>3. ~raced /\ ContentClear /\ LocalsClear /\ Relies(wk'[w]) => wk'[w].bd \in cleared
    BY <1>0, <1>11 DEF Fresh, Relies, Worker, At, Goto, Finish, IdleWorker, LocalsClear
  <2> QED  BY <2>1, <2>2, <2>3, QuietStep
<1>12. CASE Advance(w)
  <2>1. \A v \in Workers \ {w} : wk'[v] = wk[v]
    BY <1>0, <1>12 DEF Advance, Forget, Finish, IdleWorker
  <2>2. UNCHANGED <<body, cleared, sent>> /\ (~raced' => ~raced /\ body = wk[w].bd)
    BY <1>12 DEF Advance, Promote
  <2>3. ~Relies(wk'[w])  BY <1>0, <1>12, Move DEF Advance, Relies, PC, WkType, IdleWorker
  <2>4. ASSUME ~raced' PROVE ContentClear' /\ SentClear' /\ LocalsClear'
    <3>1. ~raced /\ ContentClear /\ SentClear /\ LocalsClear  BY <2>2, <2>4 DEF ClearInv
    <3>2. body \in cleared  BY <1>12, <2>2, <2>4, <3>1 DEF Advance, At, LocalsClear, Relies
    <3>3. ContentClear' /\ SentClear'  BY <2>2, <3>1, <3>2 DEF ContentClear, SentClear
    <3>4. LocalsClear'  BY <2>1, <2>2, <2>3, <3>1 DEF LocalsClear, Relies
    <3> QED  BY <3>3, <3>4
  <2> QED  BY <2>4 DEF ClearInv
<1>13. CASE ItemPublished(w)
  <2>1. \A v \in Workers \ {w} : wk'[v] = wk[v]
    BY <1>0, <1>13 DEF ItemPublished, Finish, IdleWorker
  <2>2. UNCHANGED <<status, body, cleared, sent, raced>>
    BY <1>13 DEF ItemPublished, contentVars, history
  <2>3. ~raced /\ ContentClear /\ LocalsClear /\ Relies(wk'[w]) => wk'[w].bd \in cleared
    BY <1>0, <1>13 DEF ItemPublished, Relies, Worker, Finish, IdleWorker
  <2> QED  BY <2>1, <2>2, <2>3, QuietStep
<1>14. CASE Stop(w)
  <2>1. \A v \in Workers \ {w} : wk'[v] = wk[v]  BY <1>0, <1>14 DEF Stop, Finish, IdleWorker
  <2>2. UNCHANGED <<status, body, cleared, sent, raced>>  BY <1>14 DEF Stop, contentVars, history
  <2>3. ~raced /\ ContentClear /\ LocalsClear /\ Relies(wk'[w]) => wk'[w].bd \in cleared
    BY <1>0, <1>14 DEF Stop, Relies, Worker, Finish, IdleWorker
  <2> QED  BY <2>1, <2>2, <2>3, QuietStep
<1> QED
  BY <1>1, <1>2, <1>3, <1>4, <1>5, <1>6, <1>7, <1>8, <1>9, <1>10, <1>11, <1>12, <1>13,
     <1>14 DEF PublishNext

(* Recovery, requeueing and stuttering touch nothing the invariant is about.  *)
LEMMA StepClear == TypeOK /\ ClearInv /\ [Next]_vars => ClearInv'
<1> SUFFICES ASSUME TypeOK, ClearInv, [Next]_vars PROVE ClearInv'
  OBVIOUS
<1>1. ASSUME NEW w \in Workers,
             EditNext(w) \/ ReviewNext(w) \/ ScheduleNext(w) \/ PublishNext(w) \/ Stop(w)
      PROVE  ClearInv'
  BY <1>1, EditClear, ReviewClear, ScheduleClear, PublishClear
<1>2. ASSUME UNCHANGED <<contentVars, history, wk>> PROVE ClearInv'
  BY <1>2 DEF contentVars, history, ClearInv, ContentClear, SentClear, LocalsClear, Relies
<1>3. ASSUME NEW p \in Posts, Recover(p) \/ Requeue(p) PROVE ClearInv'
  BY <1>2, <1>3 DEF Recover, Requeue
<1>4. CASE UNCHANGED vars
  BY <1>2, <1>4 DEF vars
<1> QED  BY <1>1, <1>3, <1>4 DEF Next

(* Whatever interleaves and wherever requests stop: as long as no status was
   written onto another text than it was decided on, every approved, scheduled
   or published text and every text sent passed a governed approval. *)
THEOREM OnlyRacesEscapeApproval == Spec => []ApprovedUnlessRaced
<1>1. Init => ClearInv
  BY DEF Init, ClearInv, ContentClear, SentClear, LocalsClear, Publishable, Relies, IdleWorker
<1>2. TypeOK /\ ClearInv /\ [Next]_vars => ClearInv'  BY StepClear
<1>3. ClearInv => ApprovedUnlessRaced
  BY DEF ClearInv, ContentClear, SentClear, ApprovedUnlessRaced
<1> QED  BY <1>1, <1>2, <1>3, TypeCorrect, PTL DEF Spec

---------------------------------------------------------------------------
(* Cancelled rows.  A worker that is in an attempt holds its row in flight,    *)
(* alone; cancelling spares the rows in flight, so a cancelled row is in       *)
(* nobody's attempt.                                                           *)

InFlight == \A w \in Workers : wk[w].pc \in Attempt =>
              wk[w].post \in Posts /\ post[wk[w].post] = "publishing"
Sole == \A w, v \in Workers : w # v /\ wk[w].pc \in Attempt /\ wk[v].pc \in Attempt
                             => wk[w].post # wk[v].post
FlightInv == InFlight /\ Sole

(* What one step must not do to a cancelled row.                            *)
Silent == \A p \in Posts : post[p] = "cancelled" => sent'[p] = sent[p] /\ post'[p] = "cancelled"

(* A step that leaves rows in flight and cancelled ones alone, and takes no row
   into an attempt. *)
LEMMA GroundStep ==
  ASSUME FlightInv, NEW w \in Workers, UNCHANGED sent,
         \A v \in Workers \ {w} : wk'[v] = wk[v],
         \A q \in Posts : post[q] \in {"publishing", "cancelled"} => post'[q] = post[q],
         wk'[w].pc \in Attempt => wk[w].pc \in Attempt /\ wk'[w].post = wk[w].post
  PROVE  FlightInv' /\ Silent
<1>1. InFlight'  BY DEF FlightInv, InFlight, Attempt
<1>2. Sole'  BY DEF FlightInv, Sole, Attempt
<1>3. Silent  BY DEF Silent
<1> QED  BY <1>1, <1>2, <1>3 DEF FlightInv

(* An attempt settles its row and ends.                                     *)
LEMMA ReleaseStep ==
  ASSUME TypeOK, FlightInv, NEW w \in Workers, UNCHANGED sent, wk[w].pc \in Attempt,
         \A v \in Workers \ {w} : wk'[v] = wk[v], wk'[w].pc \notin Attempt,
         NEW target, Transition(wk[w].post, {"publishing"}, target)
  PROVE  FlightInv' /\ Silent
<1>1. wk[w].post \in Posts /\ post[wk[w].post] = "publishing"  BY DEF FlightInv, InFlight
<1>2. post \in [Posts -> Row]  BY DEF TypeOK
<1>3. post' = [post EXCEPT ![wk[w].post] = target]  BY <1>1 DEF Transition
<1>4. \A q \in Posts \ {wk[w].post} : post'[q] = post[q]  BY <1>2, <1>3
<1>5. \A v \in Workers \ {w} : wk[v].pc \in Attempt => wk[v].post # wk[w].post
  BY DEF FlightInv, Sole
<1>6. InFlight'  BY <1>4, <1>5 DEF FlightInv, InFlight, Attempt
<1>7. Sole'  BY DEF FlightInv, Sole, Attempt
<1>8. Silent  BY <1>1, <1>4 DEF Silent
<1> QED  BY <1>6, <1>7, <1>8 DEF FlightInv

(* An edit sweeps only rows at rest.                                       *)
LEMMA EditFlight ==
  ASSUME TypeOK, FlightInv, NEW w \in Workers, EditNext(w)
  PROVE  FlightInv' /\ Silent
<1>0. wk \in [Workers -> Worker] /\ post \in [Posts -> Row]  BY DEF TypeOK
<1>1. ASSUME NEW b \in Bodies, Save(w, b)
      PROVE  FlightInv' /\ Silent
  <2>1. \A v \in Workers \ {w} : wk'[v] = wk[v]  BY <1>0, <1>1 DEF Save
  <2>2. UNCHANGED <<sent, post>>  BY <1>1 DEF Save, history
  <2>3. wk'[w].pc \notin Attempt  BY <1>0, <1>1 DEF Save, Attempt, Worker, At, IdleWorker
  <2> QED  BY <2>1, <2>2, <2>3, GroundStep
<1>2. CASE SweepList(w)
  <2>1. \A v \in Workers \ {w} : wk'[v] = wk[v]  BY <1>0, <1>2 DEF SweepList
  <2>2. UNCHANGED <<sent, post>>  BY <1>2 DEF SweepList, history
  <2>3. wk'[w].pc \notin Attempt  BY <1>0, <1>2 DEF SweepList, Attempt, Worker, At, IdleWorker
  <2> QED  BY <2>1, <2>2, <2>3, GroundStep
<1>3. ASSUME NEW p \in Posts, SweepRow(w, p)
      PROVE  FlightInv' /\ Silent
  <2>1. \A v \in Workers \ {w} : wk'[v] = wk[v]  BY <1>0, <1>3 DEF SweepRow
  <2>2. UNCHANGED sent /\ \A q \in Posts : post[q] \in {"publishing", "cancelled"} => post'[q] = post[q]
    BY <1>0, <1>3 DEF SweepRow, history, Transition, Resting
  <2>3. wk'[w].pc \notin Attempt  BY <1>0, <1>3 DEF SweepRow, Attempt, Worker, At
  <2> QED  BY <2>1, <2>2, <2>3, GroundStep
<1>4. CASE SweepDone(w)
  <2>1. \A v \in Workers \ {w} : wk'[v] = wk[v]  BY <1>0, <1>4 DEF SweepDone, Goto
  <2>2. UNCHANGED <<sent, post>>  BY <1>4 DEF SweepDone, history
  <2>3. wk'[w].pc \notin Attempt
    BY <1>0, <1>4 DEF SweepDone, Attempt, Worker, At, IdleWorker, Goto
  <2> QED  BY <2>1, <2>2, <2>3, GroundStep
<1>5. CASE Edit(w)
  <2>1. \A v \in Workers \ {w} : wk'[v] = wk[v]  BY <1>0, <1>5 DEF Edit, Forget, Goto, Finish
  <2>2. UNCHANGED <<sent, post>>  BY <1>5 DEF Edit, history
  <2>3. wk'[w].pc \notin Attempt  BY <1>0, <1>5, Move DEF Edit, Attempt, PC, WkType, IdleWorker
  <2> QED  BY <2>1, <2>2, <2>3, GroundStep
<1>6. CASE BackItem(w)
  <2>1. \A v \in Workers \ {w} : wk'[v] = wk[v]  BY <1>0, <1>6 DEF BackItem, Goto
  <2>2. UNCHANGED <<sent, post>>  BY <1>6 DEF BackItem, history
  <2>3. wk'[w].pc \notin Attempt
    BY <1>0, <1>6 DEF BackItem, Attempt, Worker, At, IdleWorker, Goto
  <2> QED  BY <2>1, <2>2, <2>3, GroundStep
<1>7. CASE BackItemWrite(w)
  <2>1. \A v \in Workers \ {w} : wk'[v] = wk[v]  BY <1>0, <1>7 DEF BackItemWrite, Goto
  <2>2. UNCHANGED <<sent, post>>  BY <1>7 DEF BackItemWrite, history
  <2>3. wk'[w].pc \notin Attempt
    BY <1>0, <1>7 DEF BackItemWrite, Attempt, Worker, At, IdleWorker, Goto
  <2> QED  BY <2>1, <2>2, <2>3, GroundStep
<1>8. CASE BackCampaign(w)
  <2>1. \A v \in Workers \ {w} : wk'[v] = wk[v]  BY <1>0, <1>8 DEF BackCampaign, Goto, Finish
  <2>2. UNCHANGED <<sent, post>>  BY <1>8 DEF BackCampaign, history
  <2>3. wk'[w].pc \notin Attempt
    BY <1>0, <1>8 DEF BackCampaign, Attempt, Worker, At, IdleWorker, Goto, Finish
  <2> QED  BY <2>1, <2>2, <2>3, GroundStep
<1>9. CASE Reopen(w)
  <2>1. \A v \in Workers \ {w} : wk'[v] = wk[v]  BY <1>0, <1>9 DEF Reopen, Finish
  <2>2. UNCHANGED <<sent, post>>  BY <1>9 DEF Reopen, history
  <2>3. wk'[w].pc \notin Attempt
    BY <1>0, <1>9 DEF Reopen, Attempt, Worker, At, IdleWorker, Finish
  <2> QED  BY <2>1, <2>2, <2>3, GroundStep
<1> QED  BY <1>1, <1>2, <1>3, <1>4, <1>5, <1>6, <1>7, <1>8, <1>9 DEF EditNext

(* A review touches no row.                                                *)
LEMMA ReviewFlight ==
  ASSUME TypeOK, FlightInv, NEW w \in Workers, ReviewNext(w)
  PROVE  FlightInv' /\ Silent
<1>0. wk \in [Workers -> Worker] /\ post \in [Posts -> Row]  BY DEF TypeOK
<1>1. CASE Submit(w)
  <2>1. \A v \in Workers \ {w} : wk'[v] = wk[v]  BY <1>0, <1>1 DEF Submit, Goto
  <2>2. UNCHANGED <<sent, post>>  BY <1>1 DEF Submit, history
  <2>3. wk'[w].pc \notin Attempt  BY <1>0, <1>1 DEF Submit, Attempt, Worker, At, IdleWorker, Goto
  <2> QED  BY <2>1, <2>2, <2>3, GroundStep
<1>2. CASE SubmitWrite(w)
  <2>1. \A v \in Workers \ {w} : wk'[v] = wk[v]  BY <1>0, <1>2 DEF SubmitWrite, Finish
  <2>2. UNCHANGED <<sent, post>>  BY <1>2 DEF SubmitWrite, history
  <2>3. wk'[w].pc \notin Attempt
    BY <1>0, <1>2 DEF SubmitWrite, Attempt, Worker, At, IdleWorker, Finish
  <2> QED  BY <2>1, <2>2, <2>3, GroundStep
<1>3. CASE Share(w)
  <2>1. \A v \in Workers \ {w} : wk'[v] = wk[v]  BY <1>0, <1>3 DEF Share, Goto
  <2>2. UNCHANGED <<sent, post>>  BY <1>3 DEF Share, history
  <2>3. wk'[w].pc \notin Attempt  BY <1>0, <1>3 DEF Share, Attempt, Worker, At, IdleWorker, Goto
  <2> QED  BY <2>1, <2>2, <2>3, GroundStep
<1>4. CASE ShareWrite(w)
  <2>1. \A v \in Workers \ {w} : wk'[v] = wk[v]  BY <1>0, <1>4 DEF ShareWrite, Finish
  <2>2. UNCHANGED <<sent, post>>  BY <1>4 DEF ShareWrite, history
  <2>3. wk'[w].pc \notin Attempt
    BY <1>0, <1>4 DEF ShareWrite, Attempt, Worker, At, IdleWorker, Finish
  <2> QED  BY <2>1, <2>2, <2>3, GroundStep
<1>5. ASSUME NEW op \in {"staff", "client"}, Decide(w, op)
      PROVE  FlightInv' /\ Silent
  <2>1. \A v \in Workers \ {w} : wk'[v] = wk[v]  BY <1>0, <1>5 DEF Decide
  <2>2. UNCHANGED <<sent, post>>  BY <1>5 DEF Decide, history
  <2>3. wk'[w].pc \notin Attempt  BY <1>0, <1>5 DEF Decide, Attempt, Worker, At, IdleWorker
  <2> QED  BY <2>1, <2>2, <2>3, GroundStep
<1>6. CASE Govern(w)
  <2>1. \A v \in Workers \ {w} : wk'[v] = wk[v]  BY <1>0, <1>6 DEF Govern, Goto, Finish
  <2>2. UNCHANGED <<sent, post>>  BY <1>6 DEF Govern, history
  <2>3. wk'[w].pc \notin Attempt
    BY <1>0, <1>6 DEF Govern, Attempt, Worker, At, IdleWorker, Goto, Finish
  <2> QED  BY <2>1, <2>2, <2>3, GroundStep
<1>7. CASE ApproveWrite(w)
  <2>1. \A v \in Workers \ {w} : wk'[v] = wk[v]
    BY <1>0, <1>7 DEF ApproveWrite, Decided, Forget, Goto, Finish
  <2>2. UNCHANGED <<sent, post>>  BY <1>7 DEF ApproveWrite, history
  <2>3. wk'[w].pc \notin Attempt
    BY <1>0, <1>7, Move DEF ApproveWrite, Attempt, PC, WkType, IdleWorker, Decided
  <2> QED  BY <2>1, <2>2, <2>3, GroundStep
<1>8. CASE ApproveItem(w)
  <2>1. \A v \in Workers \ {w} : wk'[v] = wk[v]  BY <1>0, <1>8 DEF ApproveItem, Goto
  <2>2. UNCHANGED <<sent, post>>  BY <1>8 DEF ApproveItem, history
  <2>3. wk'[w].pc \notin Attempt
    BY <1>0, <1>8 DEF ApproveItem, Attempt, Worker, At, IdleWorker, Goto
  <2> QED  BY <2>1, <2>2, <2>3, GroundStep
<1>9. CASE Complete(w)
  <2>1. \A v \in Workers \ {w} : wk'[v] = wk[v]
    BY <1>0, <1>9 DEF Complete, Decided, Forget, Goto, Finish
  <2>2. UNCHANGED <<sent, post>>  BY <1>9 DEF Complete, history
  <2>3. (Goto(w, "completeItems")) \/ (Decided(w))  BY <1>9 DEF Complete
  <2>4. Goto(w, "completeItems") => wk'[w].pc \notin Attempt  BY <1>0 DEF Goto, Worker, Attempt
  <2>5. Decided(w) => wk'[w].pc \notin Attempt
    BY <1>0, Move DEF Decided, Attempt, PC, WkType, IdleWorker
  <2> QED  BY <2>1, <2>2, <2>3, <2>4, <2>5, GroundStep
<1>10. CASE CompleteItems(w)
  <2>1. \A v \in Workers \ {w} : wk'[v] = wk[v]
    BY <1>0, <1>10 DEF CompleteItems, Decided, Forget, Goto, Finish
  <2>2. UNCHANGED <<sent, post>>  BY <1>10 DEF CompleteItems, history
  <2>3. (Goto(w, "completeWrite")) \/ (Decided(w))  BY <1>10 DEF CompleteItems
  <2>4. Goto(w, "completeWrite") => wk'[w].pc \notin Attempt  BY <1>0 DEF Goto, Worker, Attempt
  <2>5. Decided(w) => wk'[w].pc \notin Attempt
    BY <1>0, Move DEF Decided, Attempt, PC, WkType, IdleWorker
  <2> QED  BY <2>1, <2>2, <2>3, <2>4, <2>5, GroundStep
<1>11. CASE CompleteWrite(w)
  <2>1. \A v \in Workers \ {w} : wk'[v] = wk[v]
    BY <1>0, <1>11 DEF CompleteWrite, Decided, Forget, Goto, Finish
  <2>2. UNCHANGED <<sent, post>>  BY <1>11 DEF CompleteWrite, history
  <2>3. wk'[w].pc \notin Attempt
    BY <1>0, <1>11, Move DEF CompleteWrite, Attempt, PC, WkType, IdleWorker, Decided
  <2> QED  BY <2>1, <2>2, <2>3, GroundStep
<1>12. ASSUME NEW op \in {"staff", "client"}, Reject(w, op)
      PROVE  FlightInv' /\ Silent
  <2>1. \A v \in Workers \ {w} : wk'[v] = wk[v]  BY <1>0, <1>12 DEF Reject
  <2>2. UNCHANGED <<sent, post>>  BY <1>12 DEF Reject, history
  <2>3. wk'[w].pc \notin Attempt  BY <1>0, <1>12 DEF Reject, Attempt, Worker, At, IdleWorker
  <2> QED  BY <2>1, <2>2, <2>3, GroundStep
<1>13. CASE RejectWrite(w)
  <2>1. \A v \in Workers \ {w} : wk'[v] = wk[v]  BY <1>0, <1>13 DEF RejectWrite, Finish
  <2>2. UNCHANGED <<sent, post>>  BY <1>13 DEF RejectWrite, history
  <2>3. wk'[w].pc \notin Attempt
    BY <1>0, <1>13 DEF RejectWrite, Attempt, Worker, At, IdleWorker, Finish
  <2> QED  BY <2>1, <2>2, <2>3, GroundStep
<1> QED
  BY <1>1, <1>2, <1>3, <1>4, <1>5, <1>6, <1>7, <1>8, <1>9, <1>10, <1>11, <1>12,
     <1>13 DEF ReviewNext

(* Scheduling inserts a row, cancelling takes only a row at rest.          *)
LEMMA ScheduleFlight ==
  ASSUME TypeOK, FlightInv, NEW w \in Workers, ScheduleNext(w)
  PROVE  FlightInv' /\ Silent
<1>0. wk \in [Workers -> Worker] /\ post \in [Posts -> Row]  BY DEF TypeOK
<1>1. CASE ScheduleRead(w)
  <2>1. \A v \in Workers \ {w} : wk'[v] = wk[v]  BY <1>0, <1>1 DEF ScheduleRead, Finish
  <2>2. UNCHANGED <<sent, post>>  BY <1>1 DEF ScheduleRead, history
  <2>3. wk'[w].pc \notin Attempt
    <3> DEFINE k == [wk[w] EXCEPT !.pc = "critique", !.bd = body]
    <3>1. wk' = [wk EXCEPT ![w] = k] \/ Finish(w)  BY <1>1 DEF ScheduleRead
    <3>2. k.pc \notin Attempt  BY <1>0 DEF Worker, Attempt
    <3> HIDE DEF k
    <3> QED  BY <1>0, <3>1, <3>2 DEF Finish, IdleWorker, Attempt
  <2> QED  BY <2>1, <2>2, <2>3, GroundStep
<1>2. CASE Critique(w)
  <2>1. \A v \in Workers \ {w} : wk'[v] = wk[v]  BY <1>0, <1>2 DEF Critique, Goto, Finish
  <2>2. UNCHANGED <<sent, post>>  BY <1>2 DEF Critique, history
  <2>3. wk'[w].pc \notin Attempt
    BY <1>0, <1>2 DEF Critique, Attempt, Worker, At, IdleWorker, Goto, Finish
  <2> QED  BY <2>1, <2>2, <2>3, GroundStep
<1>3. ASSUME NEW p \in Posts, CreateRow(w, p)
      PROVE  FlightInv' /\ Silent
  <2>1. \A v \in Workers \ {w} : wk'[v] = wk[v]  BY <1>0, <1>3 DEF CreateRow
  <2>2. UNCHANGED sent /\ \A q \in Posts : post[q] \in {"publishing", "cancelled"} => post'[q] = post[q]
    BY <1>0, <1>3 DEF CreateRow, history
  <2>3. wk'[w].pc \notin Attempt  BY <1>0, <1>3 DEF CreateRow, Attempt, Worker, At, IdleWorker
  <2> QED  BY <2>1, <2>2, <2>3, GroundStep
<1>4. CASE CreateThrows(w)
  <2>1. \A v \in Workers \ {w} : wk'[v] = wk[v]  BY <1>0, <1>4 DEF CreateThrows, Finish
  <2>2. UNCHANGED <<sent, post>>  BY <1>4 DEF CreateThrows, history
  <2>3. wk'[w].pc \notin Attempt
    BY <1>0, <1>4 DEF CreateThrows, Attempt, Worker, At, IdleWorker, Finish
  <2> QED  BY <2>1, <2>2, <2>3, GroundStep
<1>5. CASE ScheduleWrite(w)
  <2>1. \A v \in Workers \ {w} : wk'[v] = wk[v]
    BY <1>0, <1>5 DEF ScheduleWrite, Scheduled, Forget, Goto, Finish
  <2>2. UNCHANGED <<sent, post>>  BY <1>5 DEF ScheduleWrite, history
  <2>3. wk'[w].pc \notin Attempt
    BY <1>0, <1>5, Move DEF ScheduleWrite, Attempt, PC, WkType, IdleWorker, Scheduled
  <2> QED  BY <2>1, <2>2, <2>3, GroundStep
<1>6. CASE ScheduleItem(w)
  <2>1. \A v \in Workers \ {w} : wk'[v] = wk[v]
    BY <1>0, <1>6 DEF ScheduleItem, Scheduled, Forget, Goto, Finish
  <2>2. UNCHANGED <<sent, post>>  BY <1>6 DEF ScheduleItem, history
  <2>3. wk'[w].pc \notin Attempt
    BY <1>0, <1>6, Move DEF ScheduleItem, Attempt, PC, WkType, IdleWorker, Scheduled
  <2> QED  BY <2>1, <2>2, <2>3, GroundStep
<1>7. ASSUME NEW p \in Posts, CancelRow(w, p)
      PROVE  FlightInv' /\ Silent
  <2>1. \A v \in Workers \ {w} : wk'[v] = wk[v]  BY <1>0, <1>7 DEF CancelRow
  <2>2. UNCHANGED sent /\ \A q \in Posts : post[q] \in {"publishing", "cancelled"} => post'[q] = post[q]
    BY <1>0, <1>7 DEF CancelRow, history, Transition, Resting
  <2>3. wk'[w].pc \notin Attempt  BY <1>0, <1>7 DEF CancelRow, Attempt, Worker, At
  <2> QED  BY <2>1, <2>2, <2>3, GroundStep
<1>8. CASE CancelRead(w)
  <2>1. \A v \in Workers \ {w} : wk'[v] = wk[v]  BY <1>0, <1>8 DEF CancelRead
  <2>2. UNCHANGED <<sent, post>>  BY <1>8 DEF CancelRead, history
  <2>3. wk'[w].pc \notin Attempt
    BY <1>0, <1>8 DEF CancelRead, Attempt, Worker, At, IdleWorker, Fetched
  <2> QED  BY <2>1, <2>2, <2>3, GroundStep
<1>9. CASE CancelActive(w)
  <2>1. \A v \in Workers \ {w} : wk'[v] = wk[v]
    BY <1>0, <1>9 DEF CancelActive, ItemNext, Forget, Goto, Finish
  <2>2. UNCHANGED <<sent, post>>  BY <1>9 DEF CancelActive, history
  <2>3. (Goto(w, "unschedule")) \/ (Finish(w) \/ ItemNext(w))  BY <1>9 DEF CancelActive
  <2>4. Goto(w, "unschedule") => wk'[w].pc \notin Attempt  BY <1>0 DEF Goto, Worker, Attempt
  <2>5. (Finish(w) \/ ItemNext(w)) => wk'[w].pc \notin Attempt
    BY <1>0, Move DEF ItemNext, Attempt, PC, WkType, IdleWorker
  <2> QED  BY <2>1, <2>2, <2>3, <2>4, <2>5, GroundStep
<1>10. CASE Unschedule(w)
  <2>1. \A v \in Workers \ {w} : wk'[v] = wk[v]
    BY <1>0, <1>10 DEF Unschedule, ItemNext, Forget, Goto, Finish
  <2>2. UNCHANGED <<sent, post>>  BY <1>10 DEF Unschedule, history
  <2>3. wk'[w].pc \notin Attempt
    BY <1>0, <1>10, Move DEF Unschedule, Attempt, PC, WkType, IdleWorker, ItemNext
  <2> QED  BY <2>1, <2>2, <2>3, GroundStep
<1>11. CASE ItemRead(w)
  <2>1. \A v \in Workers \ {w} : wk'[v] = wk[v]  BY <1>0, <1>11 DEF ItemRead
  <2>2. UNCHANGED <<sent, post>>  BY <1>11 DEF ItemRead, history
  <2>3. wk'[w].pc \notin Attempt  BY <1>0, <1>11 DEF ItemRead, Attempt, Worker, At, IdleWorker
  <2> QED  BY <2>1, <2>2, <2>3, GroundStep
<1>12. CASE ItemWrite(w)
  <2>1. \A v \in Workers \ {w} : wk'[v] = wk[v]  BY <1>0, <1>12 DEF ItemWrite, Goto, Finish
  <2>2. UNCHANGED <<sent, post>>  BY <1>12 DEF ItemWrite, history
  <2>3. wk'[w].pc \notin Attempt
    BY <1>0, <1>12 DEF ItemWrite, Attempt, Worker, At, IdleWorker, Goto, Finish
  <2> QED  BY <2>1, <2>2, <2>3, GroundStep
<1>13. CASE CancelCampaign(w)
  <2>1. \A v \in Workers \ {w} : wk'[v] = wk[v]  BY <1>0, <1>13 DEF CancelCampaign
  <2>2. UNCHANGED <<sent, post>>  BY <1>13 DEF CancelCampaign, history
  <2>3. wk'[w].pc \notin Attempt
    BY <1>0, <1>13 DEF CancelCampaign, Attempt, Worker, At, IdleWorker
  <2> QED  BY <2>1, <2>2, <2>3, GroundStep
<1>14. CASE CampaignItems(w)
  <2>1. \A v \in Workers \ {w} : wk'[v] = wk[v]  BY <1>0, <1>14 DEF CampaignItems
  <2>2. UNCHANGED <<sent, post>>  BY <1>14 DEF CampaignItems, history
  <2>3. wk'[w].pc \notin Attempt
    BY <1>0, <1>14 DEF CampaignItems, Attempt, Worker, At, IdleWorker
  <2> QED  BY <2>1, <2>2, <2>3, GroundStep
<1>15. CASE CampaignContent(w)
  <2>1. \A v \in Workers \ {w} : wk'[v] = wk[v]  BY <1>0, <1>15 DEF CampaignContent
  <2>2. UNCHANGED <<sent, post>>  BY <1>15 DEF CampaignContent, history
  <2>3. wk'[w].pc \notin Attempt
    BY <1>0, <1>15 DEF CampaignContent, Attempt, Worker, At, IdleWorker, Fetched
  <2> QED  BY <2>1, <2>2, <2>3, GroundStep
<1>16. CASE CampaignWrite(w)
  <2>1. \A v \in Workers \ {w} : wk'[v] = wk[v]  BY <1>0, <1>16 DEF CampaignWrite, Finish
  <2>2. UNCHANGED <<sent, post>>  BY <1>16 DEF CampaignWrite, history
  <2>3. wk'[w].pc \notin Attempt
    BY <1>0, <1>16 DEF CampaignWrite, Attempt, Worker, At, IdleWorker, Finish
  <2> QED  BY <2>1, <2>2, <2>3, GroundStep
<1> QED
  BY <1>1, <1>2, <1>3, <1>4, <1>5, <1>6, <1>7, <1>8, <1>9, <1>10, <1>11, <1>12, <1>13, <1>14,
     <1>15, <1>16 DEF ScheduleNext

(* An attempt takes a row at rest and works on it alone until it settles.  *)
LEMMA PublishFlight ==
  ASSUME TypeOK, FlightInv, NEW w \in Workers, PublishNext(w) \/ Stop(w)
  PROVE  FlightInv' /\ Silent
<1>0. wk \in [Workers -> Worker] /\ post \in [Posts -> Row]  BY DEF TypeOK
<1>1. ASSUME NEW p \in Posts, Claim(w, p)
      PROVE  FlightInv' /\ Silent
  <2>1. \A v \in Workers \ {w} : wk'[v] = wk[v]  BY <1>0, <1>1 DEF Claim
  <2>2. wk[w].pc \notin Attempt /\ UNCHANGED sent  BY <1>1 DEF Claim, At, Attempt, history
  <2>3. wk'[w].post = p  BY <1>0, <1>1 DEF Claim, Worker
  <2>4. post'[p] = "publishing" /\ \A q \in Posts \ {p} : post'[q] = post[q]
    BY <1>0, <1>1 DEF Claim
  <2>5. post[p] \in {"scheduled", "failed"}  BY <1>1 DEF Claim
  <2>6. \A v \in Workers \ {w} : wk[v].pc \in Attempt => wk[v].post # p
    BY <2>5 DEF FlightInv, InFlight
  <2>7. InFlight'  BY <2>1, <2>3, <2>4, <2>6 DEF FlightInv, InFlight, Attempt
  <2>8. Sole'  BY <2>1, <2>3, <2>6 DEF FlightInv, Sole, Attempt
  <2>9. Silent  BY <2>2, <2>4, <2>5 DEF Silent
  <2> QED  BY <2>7, <2>8, <2>9 DEF FlightInv
<1>2. CASE ClaimLost(w)
  <2>1. \A v \in Workers \ {w} : wk'[v] = wk[v]  BY <1>0, <1>2 DEF ClaimLost, Finish
  <2>2. UNCHANGED <<sent, post>>  BY <1>2 DEF ClaimLost, history
  <2>3. wk'[w].pc \notin Attempt
    BY <1>0, <1>2 DEF ClaimLost, Attempt, Worker, At, IdleWorker, Finish
  <2> QED  BY <2>1, <2>2, <2>3, GroundStep
<1>3. CASE ReadContent(w)
  <2>1. \A v \in Workers \ {w} : wk'[v] = wk[v]  BY <1>0, <1>3 DEF ReadContent
  <2>2. UNCHANGED <<sent, post>> /\ wk[w].pc \in Attempt
    BY <1>3 DEF ReadContent, history, At, Attempt
  <2>3. wk'[w].post = wk[w].post
    <3> DEFINE k == [wk[w] EXCEPT !.bd = body,
                        !.pc = IF status \in Publishable THEN "checks" ELSE "cancelSelf"]
    <3>1. wk' = [wk EXCEPT ![w] = k]  BY <1>3 DEF ReadContent
    <3>2. k.post = wk[w].post  BY <1>0 DEF Worker
    <3> HIDE DEF k
    <3> QED  BY <1>0, <3>1, <3>2
  <2> QED  BY <2>1, <2>2, <2>3, GroundStep
<1>4. CASE CancelSelf(w)
  <2>1. \A v \in Workers \ {w} : wk'[v] = wk[v]  BY <1>0, <1>4 DEF CancelSelf, Finish
  <2>2. UNCHANGED sent /\ wk[w].pc \in Attempt /\ Transition(wk[w].post, {"publishing"}, "cancelled")
    BY <1>4 DEF CancelSelf, Release, history, At, Attempt
  <2>3. wk'[w].pc \notin Attempt
    BY <1>0, <1>4 DEF CancelSelf, Attempt, Worker, IdleWorker, Finish
  <2> QED  BY <2>1, <2>2, <2>3, ReleaseStep
<1>5. CASE Checks(w)
  <2>1. \A v \in Workers \ {w} : wk'[v] = wk[v]  BY <1>0, <1>5 DEF Checks, Goto
  <2>2. UNCHANGED <<sent, post>>  BY <1>5 DEF Checks, history
  <2>3. wk'[w].pc \in Attempt => wk[w].pc \in Attempt /\ wk'[w].post = wk[w].post
    BY <1>0, <1>5 DEF Checks, Attempt, Worker, At, Goto
  <2> QED  BY <2>1, <2>2, <2>3, GroundStep
<1>6. CASE Skip(w)
  <2>1. \A v \in Workers \ {w} : wk'[v] = wk[v]  BY <1>0, <1>6 DEF Skip, Finish
  <2>2. UNCHANGED sent /\ wk[w].pc \in Attempt /\ Transition(wk[w].post, {"publishing"}, wk[w].prior)
    BY <1>6 DEF Skip, Release, history, At, Attempt
  <2>3. wk'[w].pc \notin Attempt  BY <1>0, <1>6 DEF Skip, Attempt, Worker, IdleWorker, Finish
  <2> QED  BY <2>1, <2>2, <2>3, ReleaseStep
<1>7. CASE Send(w)
  <2>1. \A v \in Workers \ {w} : wk'[v] = wk[v]  BY <1>0, <1>7 DEF Send, Goto
  <2>2. UNCHANGED post /\ wk[w].pc \in Attempt /\ wk'[w].pc \in Attempt /\ wk'[w].post = wk[w].post
    BY <1>0, <1>7 DEF Send, Goto, At, Attempt, Worker
  <2>3. post[wk[w].post] = "publishing"  BY <2>2 DEF FlightInv, InFlight
  <2>4. sent \in [Posts -> SUBSET Bodies]  BY DEF TypeOK
  <2>5. \A q \in Posts : q # wk[w].post => sent'[q] = sent[q]  BY <1>7, <2>4 DEF Send
  <2>6. Silent  BY <2>2, <2>3, <2>5 DEF Silent
  <2>7. InFlight'  BY <2>1, <2>2 DEF FlightInv, InFlight, Attempt
  <2>8. Sole'  BY <2>1, <2>2 DEF FlightInv, Sole, Attempt
  <2> QED  BY <2>6, <2>7, <2>8 DEF FlightInv
<1>8. CASE Settle(w)
  <2>1. \A v \in Workers \ {w} : wk'[v] = wk[v]  BY <1>0, <1>8 DEF Settle, Goto, Finish
  <2>2. UNCHANGED sent /\ wk[w].pc \in Attempt /\ Transition(wk[w].post, {"publishing"}, "published")
    BY <1>8 DEF Settle, Release, history, At, Attempt
  <2>3. wk'[w].pc \notin Attempt
    BY <1>0, <1>8 DEF Settle, Attempt, Worker, IdleWorker, Goto, Finish
  <2> QED  BY <2>1, <2>2, <2>3, ReleaseStep
<1>9. CASE SettleFail(w)
  <2>1. \A v \in Workers \ {w} : wk'[v] = wk[v]  BY <1>0, <1>9 DEF SettleFail, Goto, Finish
  <2>2. UNCHANGED sent /\ wk[w].pc \in Attempt /\ Transition(wk[w].post, {"publishing"}, "failed")
    BY <1>9 DEF SettleFail, Release, history, At, Attempt
  <2>3. wk'[w].pc \notin Attempt
    BY <1>0, <1>9 DEF SettleFail, Attempt, Worker, IdleWorker, Goto, Finish
  <2> QED  BY <2>1, <2>2, <2>3, ReleaseStep
<1>10. CASE Exhaust(w)
  <2>1. \A v \in Workers \ {w} : wk'[v] = wk[v]  BY <1>0, <1>10 DEF Exhaust, Finish
  <2>2. UNCHANGED sent /\ \A q \in Posts : post[q] \in {"publishing", "cancelled"} => post'[q] = post[q]
    BY <1>0, <1>10 DEF Exhaust, history, Transition, Resting
  <2>3. wk'[w].pc \notin Attempt
    BY <1>0, <1>10 DEF Exhaust, Attempt, Worker, At, IdleWorker, Finish
  <2> QED  BY <2>1, <2>2, <2>3, GroundStep
<1>11. CASE Fresh(w)
  <2>1. \A v \in Workers \ {w} : wk'[v] = wk[v]  BY <1>0, <1>11 DEF Fresh, Goto, Finish
  <2>2. UNCHANGED <<sent, post>>  BY <1>11 DEF Fresh, history
  <2>3. wk'[w].pc \notin Attempt
    BY <1>0, <1>11 DEF Fresh, Attempt, Worker, At, IdleWorker, Goto, Finish
  <2> QED  BY <2>1, <2>2, <2>3, GroundStep
<1>12. CASE Advance(w)
  <2>1. \A v \in Workers \ {w} : wk'[v] = wk[v]  BY <1>0, <1>12 DEF Advance, Forget, Goto, Finish
  <2>2. UNCHANGED <<sent, post>>  BY <1>12 DEF Advance, history
  <2>3. wk'[w].pc \notin Attempt
    BY <1>0, <1>12, Move DEF Advance, Attempt, PC, WkType, IdleWorker
  <2> QED  BY <2>1, <2>2, <2>3, GroundStep
<1>13. CASE ItemPublished(w)
  <2>1. \A v \in Workers \ {w} : wk'[v] = wk[v]  BY <1>0, <1>13 DEF ItemPublished, Finish
  <2>2. UNCHANGED <<sent, post>>  BY <1>13 DEF ItemPublished, history
  <2>3. wk'[w].pc \notin Attempt
    BY <1>0, <1>13 DEF ItemPublished, Attempt, Worker, At, IdleWorker, Finish
  <2> QED  BY <2>1, <2>2, <2>3, GroundStep
<1>14. CASE Stop(w)
  <2>1. \A v \in Workers \ {w} : wk'[v] = wk[v]  BY <1>0, <1>14 DEF Stop, Finish
  <2>2. UNCHANGED <<sent, post>>  BY <1>14 DEF Stop, history
  <2>3. wk'[w].pc \notin Attempt  BY <1>0, <1>14 DEF Stop, Attempt, Worker, At, IdleWorker, Finish
  <2> QED  BY <2>1, <2>2, <2>3, GroundStep
<1> QED
  BY <1>1, <1>2, <1>3, <1>4, <1>5, <1>6, <1>7, <1>8, <1>9, <1>10, <1>11, <1>12, <1>13,
     <1>14 DEF PublishNext

(* Recovery takes only rows nobody works on; requeueing only dead ones.       *)
LEMMA StepFlight == TypeOK /\ FlightInv /\ [Next]_vars => FlightInv' /\ Silent
<1> SUFFICES ASSUME TypeOK, FlightInv, [Next]_vars PROVE FlightInv' /\ Silent
  OBVIOUS
<1>0. post \in [Posts -> Row]  BY DEF TypeOK
<1>1. ASSUME NEW w \in Workers,
             EditNext(w) \/ ReviewNext(w) \/ ScheduleNext(w) \/ PublishNext(w) \/ Stop(w)
      PROVE  FlightInv' /\ Silent
  BY <1>1, EditFlight, ReviewFlight, ScheduleFlight, PublishFlight
<1>2. ASSUME NEW p \in Posts, Recover(p) \/ Requeue(p) PROVE FlightInv' /\ Silent
  <2>1. UNCHANGED <<wk, sent>> /\ \A q \in Posts \ {p} : post'[q] = post[q]
    BY <1>0, <1>2 DEF Recover, Requeue, history
  <2>2. post[p] \in {"publishing", "dead"}  BY <1>2 DEF Recover, Requeue
  <2>3. \A w \in Workers : wk[w].pc \in Attempt => wk[w].post # p
    BY <1>2 DEF Recover, Requeue, FlightInv, InFlight
  <2>4. InFlight' /\ Sole'  BY <2>1, <2>3 DEF FlightInv, InFlight, Sole, Attempt
  <2>5. Silent  BY <2>1, <2>2 DEF Silent
  <2> QED  BY <2>4, <2>5 DEF FlightInv
<1>3. CASE UNCHANGED vars
  <2>1. UNCHANGED <<wk, sent, post>>  BY <1>3 DEF vars, history
  <2> QED  BY <2>1 DEF FlightInv, InFlight, Sole, Attempt, Silent
<1> QED  BY <1>1, <1>2, <1>3 DEF Next

(* A row that was cancelled is never sent afterwards and stays cancelled,
   whoever cancelled it and wherever requests stop. *)
THEOREM CancelledIsSilent == Spec => CancelledStaysSilent
<1>1. Init => FlightInv
  BY DEF Init, FlightInv, InFlight, Sole, Attempt, IdleWorker
<1>2. TypeOK /\ FlightInv /\ [Next]_vars => FlightInv'  BY StepFlight
<1>3. TypeOK /\ FlightInv /\ [Next]_vars =>
        [\A p \in Posts : post[p] = "cancelled" => sent'[p] = sent[p] /\ post'[p] = "cancelled"]_vars
  BY StepFlight DEF Silent
<1> QED  BY <1>1, <1>2, <1>3, TypeCorrect, PTL DEF Spec, CancelledStaysSilent

-----------------------------------------------------------------------------
(* Requests that do not overlap: one at most is under way.                 *)
OneAtATime == \A v, w \in Workers : ~At(v, "idle") /\ ~At(w, "idle") => v = w

(* The campaign item tells how far the content is, and the campaign whether the
   item is done. *)
ItemFollows == \A s \in Done : item = s <=> status = s
CampaignFollowsItem == campaign # "cancelled" => (campaign = "completed" <=> item \in Done)
InStep == ItemFollows /\ CampaignFollowsItem

(* Between these points of a request nothing is out of step.               *)
Calm == {"idle", "share", "schedule", "cancelRead", "claim", "content", "cancelSelf", "checks", "skip",
         "send", "settleFail", "exhaust", "settle", "fresh", "campaignWrite"}
OfCampaign == {"campaignItems", "campaignContent", "sweepList", "sweep", "itemWrite", "campaignWrite"}

(* What a request relies on at each of its points, and what it has left to do. *)
FollowAt(k) ==
  /\ k.pc \in Calm => InStep
  /\ k.pc \in {"sweepList", "sweep"} =>
       /\ InStep
       /\ \/ k.op = "edit" /\ k.was /\ status = "scheduled"
          \/ k.op = "campaign" /\ ~k.was /\ status \notin Done /\ k.it = item
  /\ k.pc = "edit" =>
       InStep /\ (k.was <=> status \in {"approved", "scheduled"}) /\ status # "published"
  /\ k.pc \in {"backItem", "backItemWrite"} =>
       CampaignFollowsItem /\ status = "pending_approval" /\ item \in {"approved", "scheduled"}
  /\ k.pc = "backCampaign" => status = "pending_approval" /\ item = "drafted"
  /\ k.pc = "reopen" => status = "pending_approval" /\ item = "drafted" /\ campaign = "completed"
  /\ k.pc \in {"submit", "govern", "approve", "reject"} => InStep /\ status \notin Done
  /\ k.pc = "approveItem" => CampaignFollowsItem /\ status = "approved" /\ item = "drafted"
  /\ k.pc \in {"complete", "completeItems", "completeWrite"} =>
       /\ status = "approved" /\ item = "approved" /\ campaign # "completed"
       /\ k.pc # "complete" => campaign = "approved"
  /\ k.pc \in {"critique", "createRow", "scheduleWrite"} => InStep /\ status \in {"approved", "scheduled"}
  /\ k.pc = "scheduleItem" =>
       CampaignFollowsItem /\ status = "scheduled" /\ item \in {"approved", "scheduled"}
  /\ k.pc = "cancelActive" => InStep /\ (k.was <=> status = "scheduled")
  /\ k.pc = "unschedule" => InStep /\ status = "scheduled"
  /\ k.pc \in {"itemRead", "itemWrite"} =>
       /\ CampaignFollowsItem
       /\ \/ InStep /\ status # "scheduled"
          \/ status = "approved" /\ item = "scheduled"
       /\ k.pc = "itemWrite" => k.it = item
  /\ k.pc \in {"campaignItems", "campaignContent"} =>
       InStep /\ campaign = "approved" /\ k.op = "campaign" /\ (k.pc = "campaignContent" => k.it = item)
  /\ k.pc = "advance" => InStep /\ status \in Publishable
  /\ k.pc = "itemPublished" => CampaignFollowsItem /\ status = "published" /\ item \in {"scheduled", "published"}
  /\ k.op = "campaign" => k.pc \in OfCampaign

FollowInv ==
  /\ \A w \in Workers : At(w, "idle") => wk[w] = IdleWorker
  /\ \A w \in Workers : ~At(w, "idle") => FollowAt(wk[w])
  /\ (\A w \in Workers : At(w, "idle")) => InStep

LEMMA Lands ==
  ASSUME WkType, NEW w \in Workers, NEW l \in PC
  PROVE  /\ Goto(w, l) => /\ wk'[w].pc = l /\ wk'[w].op = wk[w].op /\ wk'[w].was = wk[w].was /\ wk'[w].it = wk[w].it
                          /\ \A v \in Workers \ {w} : wk'[v] = wk[v]
         /\ Forget(w, l) => /\ wk'[w].pc = l /\ wk'[w].op = wk[w].op /\ wk'[w].it = wk[w].it
                            /\ \A v \in Workers \ {w} : wk'[v] = wk[v]
         /\ Finish(w) => wk'[w] = IdleWorker /\ \A v \in Workers \ {w} : wk'[v] = wk[v]
<1>1. wk \in [Workers -> Worker] /\ wk[w] \in Worker  BY DEF WkType
<1>2. ASSUME NEW k \in Worker, wk' = [wk EXCEPT ![w] = k]
      PROVE  wk'[w] = k /\ \A v \in Workers \ {w} : wk'[v] = wk[v]
  BY <1>1, <1>2
<1>3. ASSUME Goto(w, l)
      PROVE  /\ wk'[w].pc = l /\ wk'[w].op = wk[w].op /\ wk'[w].was = wk[w].was /\ wk'[w].it = wk[w].it
             /\ \A v \in Workers \ {w} : wk'[v] = wk[v]
  BY <1>1, <1>3 DEF Goto, Worker
<1>4. ASSUME Forget(w, l)
      PROVE  /\ wk'[w].pc = l /\ wk'[w].op = wk[w].op /\ wk'[w].it = wk[w].it
             /\ \A v \in Workers \ {w} : wk'[v] = wk[v]
  <2> DEFINE k == [wk[w] EXCEPT !.pc = l, !.was = FALSE, !.bd = FirstBody]
  <2>1. k \in Worker /\ k.pc = l /\ k.op = wk[w].op /\ k.it = wk[w].it
    BY <1>1, BodiesAssumption DEF Worker
  <2>2. wk' = [wk EXCEPT ![w] = k]  BY <1>4 DEF Forget
  <2> HIDE DEF k
  <2> QED  BY <1>2, <2>1, <2>2
<1>5. ASSUME Finish(w)  PROVE wk'[w] = IdleWorker /\ \A v \in Workers \ {w} : wk'[v] = wk[v]
  BY <1>1, <1>5 DEF Finish
<1> QED  BY <1>3, <1>4, <1>5

(* The one request under way relies on its point, or on everything being in
   step when it begins. *)
LEMMA Alone ==
  ASSUME FollowInv, OneAtATime, OneAtATime', NEW w \in Workers, \A v \in Workers \ {w} : wk'[v] = wk[v],
         wk[w].pc # "idle" \/ wk'[w].pc # "idle"
  PROVE  /\ wk[w].pc = "idle" => InStep /\ wk[w] = IdleWorker
         /\ wk[w].pc # "idle" => FollowAt(wk[w])
         /\ \A v \in Workers \ {w} : At(v, "idle") /\ wk[v] = IdleWorker
<1>1. \A v \in Workers \ {w} : At(v, "idle")  BY DEF OneAtATime, At
<1> QED  BY <1>1 DEF FollowInv, At

(* It leaves what its next point relies on, or, when it ends, everything in step. *)
LEMMA Turn ==
  ASSUME FollowInv, OneAtATime, OneAtATime', NEW w \in Workers, \A v \in Workers \ {w} : wk'[v] = wk[v],
         \/ wk'[w].pc # "idle" /\ FollowAt(wk[w])'
         \/ wk'[w] = IdleWorker /\ wk[w].pc # "idle" /\ InStep'
  PROVE  FollowInv'
<1>0. IdleWorker.pc = "idle"  BY DEF IdleWorker
<1>1. wk[w].pc # "idle" \/ wk'[w].pc # "idle"  OBVIOUS
<1>2. \A v \in Workers \ {w} : At(v, "idle") /\ wk[v] = IdleWorker  BY <1>1, Alone
<1>3. \A v \in Workers \ {w} : At(v, "idle")' /\ wk'[v] = IdleWorker  BY <1>0, <1>2 DEF At
<1>4. CASE wk'[w].pc # "idle" /\ FollowAt(wk[w])'
  <2>1. \A v \in Workers : At(v, "idle")' => v # w  BY <1>4 DEF At
  <2>2. \A v \in Workers : ~At(v, "idle")' => v = w  BY <1>3
  <2> QED  BY <1>3, <1>4, <2>1, <2>2 DEF FollowInv
<1>5. CASE wk'[w] = IdleWorker /\ wk[w].pc # "idle" /\ InStep'
  <2>1. \A v \in Workers : At(v, "idle")' /\ wk'[v] = IdleWorker  BY <1>0, <1>3, <1>5 DEF At
  <2> QED  BY <1>5, <2>1 DEF FollowInv
<1> QED  BY <1>4, <1>5

(* A request that only moves between calm points.                          *)
LEMMA CalmTurn ==
  ASSUME FollowInv, OneAtATime, OneAtATime', NEW w \in Workers, \A v \in Workers \ {w} : wk'[v] = wk[v],
         UNCHANGED <<status, item, campaign>>, wk[w].pc \in Calm \ {"idle"},
         wk'[w] = IdleWorker \/ (wk'[w].pc \in Calm \ {"idle", "campaignWrite"} /\ wk'[w].op # "campaign")
  PROVE  FollowInv'
<1>1. FollowAt(wk[w])  BY Alone
<1>2. InStep'  BY <1>1 DEF FollowAt, Calm, InStep, ItemFollows, CampaignFollowsItem
<1>3. CASE wk'[w] = IdleWorker  BY <1>2, <1>3, Turn
<1>4. CASE wk'[w].pc \in Calm \ {"idle", "campaignWrite"} /\ wk'[w].op # "campaign"
  <2>1. FollowAt(wk[w])'  BY <1>2, <1>4 DEF FollowAt, Calm
  <2> QED  BY <1>4, <2>1, Turn
<1> QED  BY <1>3, <1>4

(* An edit of scheduled or approved content puts the item back and reopens its
   campaign before it ends. *)
LEMMA EditFollows ==
  ASSUME Linked, TypeOK, FollowInv, OneAtATime, OneAtATime', NEW w \in Workers, EditNext(w)
  PROVE  FollowInv'
<1>0. WkType /\ wk \in [Workers -> Worker] /\ wk[w] \in Worker  BY TypeParts DEF WkType
<1> USE DEF InStep, ItemFollows, CampaignFollowsItem, Done
<1>1. ASSUME NEW b \in Bodies, Save(w, b)  PROVE FollowInv'
  <2>1. /\ wk'[w].op = "edit" /\ (wk'[w].was <=> status \in {"approved", "scheduled"})
        /\ wk'[w].pc = IF status = "scheduled" THEN "sweepList" ELSE "edit"
        /\ \A v \in Workers \ {w} : wk'[v] = wk[v]
    BY <1>0, <1>1 DEF Save, Worker
  <2>2. wk[w].pc = "idle" /\ status # "published" /\ UNCHANGED <<status, item, campaign>>
    BY <1>1 DEF Save, Idle, At, contentVars, linkedVars
  <2>3. wk'[w].pc # "idle"  BY <2>1
  <2>4. InStep  BY <2>1, <2>2, <2>3, Alone
  <2>5. FollowAt(wk[w])'
    <3>1. CASE status = "scheduled"
      <4>1. wk'[w].pc = "sweepList" /\ wk'[w].was  BY <2>1, <3>1
      <4> QED  BY <2>1, <2>2, <2>4, <3>1, <4>1 DEF FollowAt, Calm
    <3>2. CASE status # "scheduled"
      <4>1. wk'[w].pc = "edit"  BY <2>1, <3>2
      <4> QED  BY <2>1, <2>2, <2>4, <4>1 DEF FollowAt, Calm
    <3> QED  BY <3>1, <3>2
  <2> QED  BY <2>1, <2>3, <2>5, Turn
<1>2. CASE SweepList(w)
  <2>1. /\ wk[w].pc = "sweepList" /\ wk'[w].pc = "sweep" /\ wk'[w].op = wk[w].op /\ wk'[w].was = wk[w].was
        /\ wk'[w].it = wk[w].it /\ \A v \in Workers \ {w} : wk'[v] = wk[v]
    BY <1>0, <1>2 DEF SweepList, At, Worker
  <2>2. UNCHANGED <<status, item, campaign>>  BY <1>2 DEF SweepList, contentVars, linkedVars
  <2>3. FollowAt(wk[w])  BY <2>1, Alone
  <2>4. FollowAt(wk[w])'  BY <2>1, <2>2, <2>3 DEF FollowAt, Calm, OfCampaign
  <2> QED  BY <2>1, <2>4, Turn
<1>3. ASSUME NEW p \in Posts, SweepRow(w, p)  PROVE FollowInv'
  <2>1. /\ wk[w].pc = "sweep" /\ wk'[w].pc = "sweep" /\ wk'[w].op = wk[w].op /\ wk'[w].was = wk[w].was
        /\ wk'[w].it = wk[w].it /\ \A v \in Workers \ {w} : wk'[v] = wk[v]
    BY <1>0, <1>3 DEF SweepRow, At, Worker
  <2>2. UNCHANGED <<status, item, campaign>>  BY <1>3 DEF SweepRow, contentVars, linkedVars
  <2>3. FollowAt(wk[w])  BY <2>1, Alone
  <2>4. FollowAt(wk[w])'  BY <2>1, <2>2, <2>3 DEF FollowAt, Calm, OfCampaign
  <2> QED  BY <2>1, <2>4, Turn
<1>4. CASE SweepDone(w)
  <2>1. wk[w].pc = "sweep" /\ UNCHANGED <<status, item, campaign>>
    BY <1>4 DEF SweepDone, At, contentVars, linkedVars
  <2>2. \A v \in Workers \ {w} : wk'[v] = wk[v]  BY <1>0, <1>4 DEF SweepDone, Goto
  <2>3. FollowAt(wk[w])  BY <2>1, <2>2, Alone
  <2>4. CASE wk[w].op = "edit" /\ wk[w].was /\ status = "scheduled" /\ InStep
    <3>1. Goto(w, "edit")  BY <1>4, <2>4 DEF SweepDone
    <3>2. wk'[w].pc = "edit" /\ wk'[w].op = wk[w].op /\ wk'[w].was = wk[w].was
      BY <1>0, <3>1, Lands DEF PC
    <3>3. FollowAt(wk[w])'  BY <2>1, <2>4, <3>2 DEF FollowAt, Calm
    <3> QED  BY <2>2, <3>2, <3>3, Turn
  <2>5. CASE wk[w].op = "campaign" /\ ~wk[w].was /\ status \notin Done /\ wk[w].it = item /\ InStep
    <3>1. Goto(w, "itemWrite")  BY <1>4, <2>5 DEF SweepDone
    <3>2. wk'[w].pc = "itemWrite" /\ wk'[w].op = wk[w].op /\ wk'[w].it = wk[w].it
      BY <1>0, <3>1, Lands DEF PC
    <3>3. FollowAt(wk[w])'  BY <2>1, <2>5, <3>2 DEF FollowAt, Calm, OfCampaign
    <3> QED  BY <2>2, <3>2, <3>3, Turn
  <2> QED  BY <2>1, <2>3, <2>4, <2>5 DEF FollowAt
<1>5. CASE Edit(w)
  <2>1. wk[w].pc = "edit" /\ UNCHANGED <<item, campaign>>  BY <1>5 DEF Edit, At, linkedVars
  <2>2. \A v \in Workers \ {w} : wk'[v] = wk[v]  BY <1>0, <1>5 DEF Edit, Forget, Finish
  <2>3. FollowAt(wk[w])  BY <2>1, <2>2, Alone
  <2>4. /\ InStep /\ (wk[w].was <=> status \in {"approved", "scheduled"}) /\ status # "published"
        /\ wk[w].op # "campaign"
    BY <2>1, <2>3 DEF FollowAt, OfCampaign
  <2>5. CASE wk[w].was
    <3>1. status' = "pending_approval" /\ Forget(w, "backItem")  BY <1>5, <2>5 DEF Edit
    <3>2. wk'[w].pc = "backItem" /\ wk'[w].op = wk[w].op  BY <1>0, <3>1, Lands DEF PC
    <3>3. FollowAt(wk[w])'  BY <2>1, <2>4, <2>5, <3>1, <3>2 DEF FollowAt, Calm
    <3> QED  BY <2>2, <3>2, <3>3, Turn
  <2>6. CASE ~wk[w].was
    <3>1. status' = "user_edited" /\ Finish(w)  BY <1>5, <2>6 DEF Edit
    <3>2. wk'[w] = IdleWorker  BY <1>0, <3>1 DEF Finish
    <3>3. InStep'  BY <2>1, <2>4, <2>6, <3>1
    <3> QED  BY <2>1, <2>2, <3>2, <3>3, Turn
  <2> QED  BY <2>5, <2>6
<1>6. CASE BackItem(w)
  <2>1. wk[w].pc = "backItem" /\ UNCHANGED <<status, item, campaign>>
    BY <1>6 DEF BackItem, At, contentVars, linkedVars
  <2>2. \A v \in Workers \ {w} : wk'[v] = wk[v]  BY <1>0, <1>6 DEF BackItem, Goto
  <2>3. FollowAt(wk[w])  BY <2>1, <2>2, Alone
  <2>4. Goto(w, "backItemWrite")  BY <1>6, <2>1, <2>3 DEF BackItem, FollowAt
  <2>5. wk'[w].pc = "backItemWrite" /\ wk'[w].op = wk[w].op  BY <1>0, <2>4, Lands DEF PC
  <2>6. FollowAt(wk[w])'  BY <2>1, <2>3, <2>5 DEF FollowAt, Calm, OfCampaign
  <2> QED  BY <2>2, <2>5, <2>6, Turn
<1>7. CASE BackItemWrite(w)
  <2>1. wk[w].pc = "backItemWrite" /\ status' = status /\ item' = "drafted" /\ Goto(w, "backCampaign")
    BY <1>7 DEF BackItemWrite, At, contentVars
  <2>2. wk'[w].pc = "backCampaign" /\ wk'[w].op = wk[w].op /\ \A v \in Workers \ {w} : wk'[v] = wk[v]
    BY <1>0, <2>1, Lands DEF PC
  <2>3. FollowAt(wk[w])  BY <2>1, <2>2, Alone
  <2>4. FollowAt(wk[w])'  BY <2>1, <2>2, <2>3 DEF FollowAt, Calm, OfCampaign
  <2> QED  BY <2>2, <2>4, Turn
<1>8. CASE BackCampaign(w)
  <2>1. wk[w].pc = "backCampaign" /\ UNCHANGED <<status, item, campaign>>
    BY <1>8 DEF BackCampaign, At, contentVars, linkedVars
  <2>2. \A v \in Workers \ {w} : wk'[v] = wk[v]  BY <1>0, <1>8 DEF BackCampaign, Goto, Finish
  <2>3. FollowAt(wk[w])  BY <2>1, <2>2, Alone
  <2>4. CASE campaign = "completed"
    <3>1. wk'[w].pc = "reopen" /\ wk'[w].op = wk[w].op  BY <1>0, <1>8, <2>4, Lands DEF BackCampaign, PC
    <3>2. FollowAt(wk[w])'  BY <2>1, <2>3, <2>4, <3>1 DEF FollowAt, Calm, OfCampaign
    <3> QED  BY <2>2, <3>1, <3>2, Turn
  <2>5. CASE campaign # "completed"
    <3>1. wk'[w] = IdleWorker  BY <1>0, <1>8, <2>5 DEF BackCampaign, Finish
    <3>2. InStep'  BY <2>1, <2>3, <2>5 DEF FollowAt
    <3> QED  BY <2>1, <2>2, <3>1, <3>2, Turn
  <2> QED  BY <2>4, <2>5
<1>9. CASE Reopen(w)
  <2>1. wk[w].pc = "reopen" /\ UNCHANGED <<status, item>> /\ campaign' = "approved" /\ Finish(w)
    BY <1>9 DEF Reopen, At, contentVars
  <2>2. wk'[w] = IdleWorker /\ \A v \in Workers \ {w} : wk'[v] = wk[v]  BY <1>0, <2>1 DEF Finish
  <2>3. FollowAt(wk[w])  BY <2>1, <2>2, Alone
  <2>4. InStep'  BY <2>1, <2>3 DEF FollowAt
  <2> QED  BY <2>1, <2>2, <2>4, Turn
<1> QED  BY <1>1, <1>2, <1>3, <1>4, <1>5, <1>6, <1>7, <1>8, <1>9 DEF EditNext

(* A decision that ends, or is followed by the client's schedule.          *)
LEMMA DecidedTurn ==
  ASSUME FollowInv, OneAtATime, OneAtATime', NEW w \in Workers, WkType, Decided(w),
         wk[w].pc # "idle", wk[w].op # "campaign", InStep'
  PROVE  FollowInv'
<1>0. wk \in [Workers -> Worker]  BY DEF WkType
<1>1. CASE Finish(w)
  <2>1. wk'[w] = IdleWorker /\ \A v \in Workers \ {w} : wk'[v] = wk[v]  BY <1>0, <1>1 DEF Finish
  <2> QED  BY <2>1, Turn
<1>2. CASE Forget(w, "schedule")
  <2>1. /\ wk'[w].pc = "schedule" /\ wk'[w].op = wk[w].op
        /\ \A v \in Workers \ {w} : wk'[v] = wk[v]
    BY <1>2, Lands DEF PC
  <2>2. FollowAt(wk[w])'  BY <2>1 DEF FollowAt, Calm
  <2> QED  BY <2>1, <2>2, Turn
<1> QED  BY <1>1, <1>2 DEF Decided

(* An approval takes the item along and completes the campaign.            *)
LEMMA ReviewFollows ==
  ASSUME Linked, TypeOK, FollowInv, OneAtATime, OneAtATime', NEW w \in Workers, ReviewNext(w)
  PROVE  FollowInv'
<1>0. WkType /\ wk \in [Workers -> Worker] /\ wk[w] \in Worker  BY TypeParts DEF WkType
<1> USE DEF InStep, ItemFollows, CampaignFollowsItem, Done
<1>a. ASSUME NEW l \in {"submit", "share", "govern", "reject"}, wk[w].pc = "idle", wk'[w].pc = l,
             wk'[w].op # "campaign", \A v \in Workers \ {w} : wk'[v] = wk[v],
             UNCHANGED <<status, item, campaign>>, status \in Drafts \cup {"pending_approval"}
      PROVE  FollowInv'
  <2>1. InStep  BY <1>a, Alone
  <2>2. FollowAt(wk[w])'  BY <1>a, <2>1 DEF FollowAt, Calm, Drafts
  <2> QED  BY <1>a, <2>2, Turn
<1>b. wk[w].pc = "idle" => wk[w].op = "staff"  BY DEF FollowInv, At, IdleWorker
<1>1. CASE Submit(w)
  <2>1. wk[w].pc = "idle" /\ status \in Drafts /\ Goto(w, "submit") /\ UNCHANGED <<status, item, campaign>>
    BY <1>1 DEF Submit, Idle, At, contentVars, linkedVars
  <2>2. wk'[w].pc = "submit" /\ wk'[w].op = "staff" /\ \A v \in Workers \ {w} : wk'[v] = wk[v]
    BY <1>0, <1>b, <2>1, Lands DEF PC
  <2> QED  BY <1>a, <2>1, <2>2
<1>2. CASE SubmitWrite(w)
  <2>1. wk[w].pc = "submit" /\ status' = "pending_approval" /\ UNCHANGED <<item, campaign>> /\ Finish(w)
    BY <1>2 DEF SubmitWrite, At, linkedVars
  <2>2. wk'[w] = IdleWorker /\ \A v \in Workers \ {w} : wk'[v] = wk[v]  BY <1>0, <2>1 DEF Finish
  <2>3. FollowAt(wk[w])  BY <2>1, <2>2, Alone
  <2>4. InStep'  BY <2>1, <2>3 DEF FollowAt
  <2> QED  BY <2>1, <2>2, <2>4, Turn
<1>3. CASE Share(w)
  <2>1. wk[w].pc = "idle" /\ status = "pending_approval" /\ Goto(w, "share") /\ UNCHANGED <<status, item, campaign>>
    BY <1>3 DEF Share, Idle, At, contentVars, linkedVars
  <2>2. wk'[w].pc = "share" /\ wk'[w].op = "staff" /\ \A v \in Workers \ {w} : wk'[v] = wk[v]
    BY <1>0, <1>b, <2>1, Lands DEF PC
  <2> QED  BY <1>a, <2>1, <2>2
<1>4. CASE ShareWrite(w)
  <2>1. wk[w].pc = "share" /\ UNCHANGED <<status, item, campaign>> /\ Finish(w)
    BY <1>4 DEF ShareWrite, At, linkedVars
  <2>2. wk'[w] = IdleWorker /\ \A v \in Workers \ {w} : wk'[v] = wk[v]  BY <1>0, <2>1 DEF Finish
  <2> QED  BY <2>1, <2>2, CalmTurn DEF Calm
<1>5. ASSUME NEW op \in {"staff", "client"}, Decide(w, op)  PROVE FollowInv'
  <2>1. wk[w].pc = "idle" /\ status = "pending_approval" /\ UNCHANGED <<status, item, campaign>>
    BY <1>5 DEF Decide, Idle, At, contentVars, linkedVars
  <2>2. wk'[w].pc = "govern" /\ wk'[w].op = op /\ \A v \in Workers \ {w} : wk'[v] = wk[v]
    BY <1>0, <1>5 DEF Decide, Worker
  <2> QED  BY <1>a, <2>1, <2>2
<1>6. ASSUME NEW op \in {"staff", "client"}, Reject(w, op)  PROVE FollowInv'
  <2>1. wk[w].pc = "idle" /\ status = "pending_approval" /\ UNCHANGED <<status, item, campaign>>
    BY <1>6 DEF Reject, Idle, At, contentVars, linkedVars
  <2>2. wk'[w].pc = "reject" /\ wk'[w].op = op /\ \A v \in Workers \ {w} : wk'[v] = wk[v]
    BY <1>0, <1>6 DEF Reject, Worker
  <2> QED  BY <1>a, <2>1, <2>2
<1>7. CASE Govern(w)
  <2>1. wk[w].pc = "govern" /\ UNCHANGED <<status, item, campaign>>
    BY <1>7 DEF Govern, At, contentVars, linkedVars
  <2>2. \A v \in Workers \ {w} : wk'[v] = wk[v]  BY <1>0, <1>7 DEF Govern, Goto, Finish
  <2>3. FollowAt(wk[w])  BY <2>1, <2>2, Alone
  <2>4. CASE Goto(w, "approve")
    <3>1. wk'[w].pc = "approve" /\ wk'[w].op = wk[w].op  BY <1>0, <2>4, Lands DEF PC
    <3>2. FollowAt(wk[w])'  BY <2>1, <2>3, <3>1 DEF FollowAt, Calm, OfCampaign
    <3> QED  BY <2>2, <3>1, <3>2, Turn
  <2>5. CASE Finish(w)
    <3>1. wk'[w] = IdleWorker  BY <1>0, <2>5 DEF Finish
    <3>2. InStep'  BY <2>1, <2>3 DEF FollowAt
    <3> QED  BY <2>1, <2>2, <3>1, <3>2, Turn
  <2> QED  BY <1>7, <2>4, <2>5 DEF Govern
<1>8. CASE ApproveWrite(w)
  <2>1. wk[w].pc = "approve" /\ status' = "approved" /\ UNCHANGED <<item, campaign>> /\ Forget(w, "approveItem")
    BY <1>8 DEF ApproveWrite, Promote, At, linkedVars
  <2>2. wk'[w].pc = "approveItem" /\ wk'[w].op = wk[w].op /\ \A v \in Workers \ {w} : wk'[v] = wk[v]
    BY <1>0, <2>1, Lands DEF PC
  <2>3. FollowAt(wk[w])  BY <2>1, <2>2, Alone
  <2>4. item = "drafted"  BY <2>1, <2>3, TypeParts DEF FollowAt, LinkedType, Item
  <2>5. FollowAt(wk[w])'  BY <2>1, <2>2, <2>3, <2>4 DEF FollowAt, Calm, OfCampaign
  <2> QED  BY <2>2, <2>5, Turn
<1>9. CASE ApproveItem(w)
  <2>1. wk[w].pc = "approveItem" /\ UNCHANGED <<status, campaign>> /\ item' = "approved" /\ Goto(w, "complete")
    BY <1>9 DEF ApproveItem, At, contentVars
  <2>2. wk'[w].pc = "complete" /\ wk'[w].op = wk[w].op /\ \A v \in Workers \ {w} : wk'[v] = wk[v]
    BY <1>0, <2>1, Lands DEF PC
  <2>3. FollowAt(wk[w])  BY <2>1, <2>2, Alone
  <2>4. FollowAt(wk[w])'  BY <2>1, <2>2, <2>3 DEF FollowAt, Calm, OfCampaign
  <2> QED  BY <2>2, <2>4, Turn
<1>10. CASE RejectWrite(w)
  <2>1. /\ wk[w].pc = "reject" /\ status' \in {"changes_required", "rejected"}
        /\ UNCHANGED <<item, campaign>> /\ Finish(w)
    BY <1>10 DEF RejectWrite, At, linkedVars
  <2>2. wk'[w] = IdleWorker /\ \A v \in Workers \ {w} : wk'[v] = wk[v]  BY <1>0, <2>1 DEF Finish
  <2>3. FollowAt(wk[w])  BY <2>1, <2>2, Alone
  <2>4. InStep'  BY <2>1, <2>3 DEF FollowAt
  <2> QED  BY <2>1, <2>2, <2>4, Turn
<1>11. CASE Complete(w)
  <2>1. wk[w].pc = "complete" /\ UNCHANGED <<status, item, campaign>>
    BY <1>11 DEF Complete, At, contentVars, linkedVars
  <2>2. \A v \in Workers \ {w} : wk'[v] = wk[v]
    BY <1>0, <1>11 DEF Complete, Goto, Decided, Forget, Finish
  <2>3. FollowAt(wk[w])  BY <2>1, <2>2, Alone
  <2>4. /\ status = "approved" /\ item = "approved" /\ campaign # "completed" /\ wk[w].op # "campaign"
    BY <2>1, <2>3 DEF FollowAt, OfCampaign
  <2>5. CASE campaign = "approved"
    <3>1. wk'[w].pc = "completeItems" /\ wk'[w].op = wk[w].op
      BY <1>0, <1>11, <2>5, Lands DEF Complete, PC
    <3>2. FollowAt(wk[w])'  BY <2>1, <2>4, <2>5, <3>1 DEF FollowAt, Calm, OfCampaign
    <3> QED  BY <2>2, <3>1, <3>2, Turn
  <2>6. CASE campaign # "approved"
    <3>1. campaign = "cancelled"  BY <2>4, <2>6, TypeParts DEF LinkedType
    <3>2. InStep'  BY <2>1, <2>4, <3>1
    <3>3. Decided(w)  BY <1>11, <2>6 DEF Complete
    <3> QED  BY <1>0, <2>1, <2>4, <3>2, <3>3, DecidedTurn
  <2> QED  BY <2>5, <2>6
<1>12. CASE CompleteItems(w)
  <2>1. wk[w].pc = "completeItems" /\ UNCHANGED <<status, item, campaign>>
    BY <1>12 DEF CompleteItems, At, contentVars, linkedVars
  <2>2. \A v \in Workers \ {w} : wk'[v] = wk[v]
    BY <1>0, <1>12 DEF CompleteItems, Goto, Decided, Forget, Finish
  <2>3. FollowAt(wk[w])  BY <2>1, <2>2, Alone
  <2>4. Goto(w, "completeWrite")  BY <1>12, <2>1, <2>3 DEF CompleteItems, FollowAt
  <2>5. wk'[w].pc = "completeWrite" /\ wk'[w].op = wk[w].op  BY <1>0, <2>4, Lands DEF PC
  <2>6. FollowAt(wk[w])'  BY <2>1, <2>3, <2>5 DEF FollowAt, Calm, OfCampaign
  <2> QED  BY <2>2, <2>5, <2>6, Turn
<1>13. CASE CompleteWrite(w)
  <2>1. wk[w].pc = "completeWrite" /\ UNCHANGED <<status, item>> /\ campaign' = "completed" /\ Decided(w)
    BY <1>13 DEF CompleteWrite, At, contentVars
  <2>2. \A v \in Workers \ {w} : wk'[v] = wk[v]  BY <1>0, <2>1 DEF Decided, Forget, Finish
  <2>3. FollowAt(wk[w])  BY <2>1, <2>2, Alone
  <2>4. InStep' /\ wk[w].op # "campaign"  BY <2>1, <2>3 DEF FollowAt, OfCampaign
  <2> QED  BY <1>0, <2>1, <2>4, DecidedTurn
<1> QED
  BY <1>1, <1>2, <1>3, <1>4, <1>5, <1>6, <1>7, <1>8, <1>9, <1>10, <1>11, <1>12, <1>13 DEF ReviewNext

(* Scheduling takes the item along; a cancellation brings it back as the content
   stands; a campaign is cancelled only before its item is done. *)
LEMMA ScheduleFollows ==
  ASSUME Linked, TypeOK, FollowInv, OneAtATime, OneAtATime', NEW w \in Workers, ScheduleNext(w)
  PROVE  FollowInv'
<1>0. WkType /\ wk \in [Workers -> Worker] /\ wk[w] \in Worker  BY TypeParts DEF WkType
<1> USE DEF InStep, ItemFollows, CampaignFollowsItem, Done
<1>a. wk[w].pc = "idle" => wk[w] = IdleWorker  BY DEF FollowInv, At
<1>b. IdleWorker.op = "staff" /\ IdleWorker.pc = "idle"  BY DEF IdleWorker
<1>1. CASE ScheduleRead(w)
  <2>1. wk[w].pc \in {"idle", "schedule"} /\ UNCHANGED <<status, item, campaign>>
    BY <1>1 DEF ScheduleRead, Idle, At, contentVars, linkedVars
  <2>2. CASE status \in {"approved", "scheduled"}
    <3>1. wk' = [wk EXCEPT ![w] = [@ EXCEPT !.pc = "critique", !.bd = body]]
      BY <1>1, <2>2 DEF ScheduleRead
    <3>2. wk'[w].pc = "critique" /\ wk'[w].op = wk[w].op /\ \A v \in Workers \ {w} : wk'[v] = wk[v]
      BY <1>0, <3>1 DEF Worker
    <3>3. /\ wk[w].pc = "idle" => InStep /\ wk[w] = IdleWorker
          /\ wk[w].pc # "idle" => FollowAt(wk[w])
      BY <3>2, Alone
    <3>4. InStep /\ wk[w].op # "campaign"
      BY <1>b, <2>1, <3>3 DEF FollowAt, Calm, OfCampaign
    <3>5. FollowAt(wk[w])'  BY <2>1, <2>2, <3>2, <3>4 DEF FollowAt, Calm
    <3> QED  BY <3>2, <3>5, Turn
  <2>3. CASE status \notin {"approved", "scheduled"}
    <3>1. wk' = [wk EXCEPT ![w] = IdleWorker]  BY <1>1, <2>3 DEF ScheduleRead, Finish
    <3>2. wk'[w] = IdleWorker /\ \A v \in Workers \ {w} : wk'[v] = wk[v]  BY <1>0, <3>1
    <3>3. CASE wk[w].pc = "schedule"
      BY <2>1, <3>2, <3>3, CalmTurn DEF Calm
    <3>4. CASE wk[w].pc = "idle"
      <4>1. wk'[w] = wk[w]  BY <1>a, <3>2, <3>4
      <4>2. wk' = wk  BY <1>0, <3>1, <4>1
      <4> QED  BY <2>1, <4>2 DEF FollowInv, FollowAt, At
    <3> QED  BY <2>1, <3>3, <3>4
  <2> QED  BY <2>2, <2>3
<1>2. CASE Critique(w)
  <2>1. wk[w].pc = "critique" /\ UNCHANGED <<status, item, campaign>>
    BY <1>2 DEF Critique, At, contentVars, linkedVars
  <2>2. \A v \in Workers \ {w} : wk'[v] = wk[v]  BY <1>0, <1>2 DEF Critique, Goto, Finish
  <2>3. FollowAt(wk[w])  BY <2>1, <2>2, Alone
  <2>4. CASE Goto(w, "createRow")
    <3>1. wk'[w].pc = "createRow" /\ wk'[w].op = wk[w].op  BY <1>0, <2>4, Lands DEF PC
    <3>2. FollowAt(wk[w])'  BY <2>1, <2>3, <3>1 DEF FollowAt, Calm, OfCampaign
    <3> QED  BY <2>2, <3>1, <3>2, Turn
  <2>5. CASE Finish(w)
    <3>1. wk'[w] = IdleWorker  BY <1>0, <2>5 DEF Finish
    <3>2. InStep'  BY <2>1, <2>3 DEF FollowAt
    <3> QED  BY <2>1, <2>2, <3>1, <3>2, Turn
  <2> QED  BY <1>2, <2>4, <2>5 DEF Critique
<1>3. CASE CreateThrows(w)
  <2>1. wk[w].pc = "createRow" /\ UNCHANGED <<status, item, campaign>> /\ Finish(w)
    BY <1>3 DEF CreateThrows, At, contentVars, linkedVars
  <2>2. wk'[w] = IdleWorker /\ \A v \in Workers \ {w} : wk'[v] = wk[v]  BY <1>0, <2>1 DEF Finish
  <2>3. FollowAt(wk[w])  BY <2>1, <2>2, Alone
  <2>4. InStep'  BY <2>1, <2>3 DEF FollowAt
  <2> QED  BY <2>1, <2>2, <2>4, Turn
<1>s. ASSUME Scheduled(w), wk[w].pc # "idle", wk[w].op # "campaign", InStep'  PROVE FollowInv'
  <2>1. CASE Finish(w)
    <3>1. wk'[w] = IdleWorker /\ \A v \in Workers \ {w} : wk'[v] = wk[v]  BY <1>0, <2>1 DEF Finish
    <3> QED  BY <1>s, <3>1, Turn
  <2>2. CASE Forget(w, "claim")
    <3>1. /\ wk'[w].pc = "claim" /\ wk'[w].op = wk[w].op
          /\ \A v \in Workers \ {w} : wk'[v] = wk[v]
      BY <1>0, <2>2, Lands DEF PC
    <3>2. FollowAt(wk[w])'  BY <1>s, <3>1 DEF FollowAt, Calm
    <3> QED  BY <3>1, <3>2, Turn
  <2> QED  BY <1>s, <2>1, <2>2 DEF Scheduled
<1>4. CASE ScheduleWrite(w)
  <2>1. /\ wk[w].pc = "scheduleWrite" /\ status' = "scheduled" /\ UNCHANGED <<item, campaign>>
        /\ Forget(w, "scheduleItem")
    BY <1>4 DEF ScheduleWrite, Promote, At, linkedVars
  <2>2. wk'[w].pc = "scheduleItem" /\ wk'[w].op = wk[w].op /\ \A v \in Workers \ {w} : wk'[v] = wk[v]
    BY <1>0, <2>1, Lands DEF PC
  <2>3. FollowAt(wk[w])  BY <2>1, <2>2, Alone
  <2>4. FollowAt(wk[w])'  BY <2>1, <2>2, <2>3 DEF FollowAt, Calm, OfCampaign
  <2> QED  BY <2>2, <2>4, Turn
<1>5. CASE ScheduleItem(w)
  <2>1. wk[w].pc = "scheduleItem" /\ UNCHANGED <<status, campaign>> /\ item' = "scheduled" /\ Scheduled(w)
    BY <1>5 DEF ScheduleItem, At, contentVars
  <2>2. \A v \in Workers \ {w} : wk'[v] = wk[v]  BY <1>0, <2>1 DEF Scheduled, Forget, Finish
  <2>3. FollowAt(wk[w])  BY <2>1, <2>2, Alone
  <2>4. InStep' /\ wk[w].op # "campaign"  BY <2>1, <2>3 DEF FollowAt, OfCampaign
  <2> QED  BY <1>s, <2>1, <2>4
<1>6. ASSUME NEW p \in Posts, CreateRow(w, p)  PROVE FollowInv'
  <2>1. /\ wk[w].pc = "createRow" /\ wk'[w].pc = "scheduleWrite" /\ wk'[w].op = wk[w].op
        /\ \A v \in Workers \ {w} : wk'[v] = wk[v]
    BY <1>0, <1>6 DEF CreateRow, At, Worker
  <2>2. UNCHANGED <<status, item, campaign>>  BY <1>6 DEF CreateRow, contentVars, linkedVars
  <2>3. FollowAt(wk[w])  BY <2>1, Alone
  <2>4. FollowAt(wk[w])'  BY <2>1, <2>2, <2>3 DEF FollowAt, Calm, OfCampaign
  <2> QED  BY <2>1, <2>4, Turn
<1>7. ASSUME NEW p \in Posts, CancelRow(w, p)  PROVE FollowInv'
  <2>1. /\ wk[w].pc = "idle" /\ wk'[w].pc = "cancelRead" /\ wk'[w].op = wk[w].op
        /\ \A v \in Workers \ {w} : wk'[v] = wk[v]
    BY <1>0, <1>7 DEF CancelRow, Idle, At, Worker
  <2>2. UNCHANGED <<status, item, campaign>>  BY <1>7 DEF CancelRow, contentVars, linkedVars
  <2>3. InStep /\ wk[w].op = "staff"  BY <1>a, <1>b, <2>1, Alone
  <2>4. FollowAt(wk[w])'  BY <2>1, <2>2, <2>3 DEF FollowAt, Calm
  <2> QED  BY <2>1, <2>4, Turn
<1>8. CASE CancelRead(w)
  <2>1. /\ wk[w].pc = "cancelRead" /\ wk'[w].pc = "cancelActive" /\ wk'[w].op = wk[w].op
        /\ (wk'[w].was <=> status = "scheduled") /\ \A v \in Workers \ {w} : wk'[v] = wk[v]
    BY <1>0, <1>8 DEF CancelRead, Fetched, At, Worker
  <2>2. UNCHANGED <<status, item, campaign>>  BY <1>8 DEF CancelRead, contentVars, linkedVars
  <2>3. FollowAt(wk[w])  BY <2>1, Alone
  <2>4. FollowAt(wk[w])'  BY <2>1, <2>2, <2>3 DEF FollowAt, Calm, OfCampaign
  <2> QED  BY <2>1, <2>4, Turn
<1>9. CASE CancelActive(w)
  <2>1. wk[w].pc = "cancelActive" /\ UNCHANGED <<status, item, campaign>>
    BY <1>9 DEF CancelActive, At, contentVars, linkedVars
  <2>2. \/ Finish(w)
        \/ wk[w].was /\ Goto(w, "unschedule")
        \/ ~wk[w].was /\ Forget(w, "itemRead")
    BY <1>9 DEF CancelActive, ItemNext
  <2>3. \A v \in Workers \ {w} : wk'[v] = wk[v]  BY <1>0, <2>2 DEF Goto, Forget, Finish
  <2>4. FollowAt(wk[w])  BY <2>1, <2>3, Alone
  <2>5. InStep /\ (wk[w].was <=> status = "scheduled") /\ wk[w].op # "campaign"
    BY <2>1, <2>4 DEF FollowAt, OfCampaign
  <2>6. CASE Finish(w)
    <3>1. wk'[w] = IdleWorker  BY <1>0, <2>6 DEF Finish
    <3>2. InStep'  BY <2>1, <2>5
    <3> QED  BY <2>1, <2>3, <3>1, <3>2, Turn
  <2>7. CASE wk[w].was /\ Goto(w, "unschedule")
    <3>1. wk'[w].pc = "unschedule" /\ wk'[w].op = wk[w].op  BY <1>0, <2>7, Lands DEF PC
    <3>2. FollowAt(wk[w])'  BY <2>1, <2>5, <2>7, <3>1 DEF FollowAt, Calm
    <3> QED  BY <2>3, <3>1, <3>2, Turn
  <2>8. CASE ~wk[w].was /\ Forget(w, "itemRead")
    <3>1. wk'[w].pc = "itemRead" /\ wk'[w].op = wk[w].op  BY <1>0, <2>8, Lands DEF PC
    <3>2. FollowAt(wk[w])'  BY <2>1, <2>5, <2>8, <3>1 DEF FollowAt, Calm
    <3> QED  BY <2>3, <3>1, <3>2, Turn
  <2> QED  BY <2>2, <2>6, <2>7, <2>8
<1>10. CASE Unschedule(w)
  <2>1. wk[w].pc = "unschedule" /\ status' = "approved" /\ UNCHANGED <<item, campaign>>
    BY <1>10 DEF Unschedule, Promote, At, linkedVars
  <2>2. \A v \in Workers \ {w} : wk'[v] = wk[v]
    BY <1>0, <1>10 DEF Unschedule, ItemNext, Forget, Finish
  <2>3. FollowAt(wk[w])  BY <2>1, <2>2, Alone
  <2>4. InStep /\ status = "scheduled" /\ wk[w].op # "campaign"  BY <2>1, <2>3 DEF FollowAt, OfCampaign
  <2>5. Forget(w, "itemRead")  BY <1>10, <2>4 DEF Unschedule, ItemNext
  <2>6. wk'[w].pc = "itemRead" /\ wk'[w].op = wk[w].op  BY <1>0, <2>5, Lands DEF PC
  <2>7. FollowAt(wk[w])'  BY <2>1, <2>4, <2>6 DEF FollowAt, Calm
  <2> QED  BY <2>2, <2>6, <2>7, Turn
<1>11. CASE ItemRead(w)
  <2>1. /\ wk[w].pc = "itemRead" /\ wk'[w].pc = "itemWrite" /\ wk'[w].op = wk[w].op /\ wk'[w].it = item
        /\ \A v \in Workers \ {w} : wk'[v] = wk[v]
    BY <1>0, <1>11 DEF ItemRead, At, Worker
  <2>2. UNCHANGED <<status, item, campaign>>  BY <1>11 DEF ItemRead, contentVars, linkedVars
  <2>3. FollowAt(wk[w])  BY <2>1, Alone
  <2>4. FollowAt(wk[w])'  BY <2>1, <2>2, <2>3 DEF FollowAt, Calm, OfCampaign
  <2> QED  BY <2>1, <2>4, Turn
<1>12. CASE ItemWrite(w)
  <2>1. /\ wk[w].pc = "itemWrite" /\ UNCHANGED <<status, campaign>>
        /\ item' = IF wk[w].it = "scheduled" THEN "approved" ELSE item
        /\ Goto(w, "campaignWrite") \/ Finish(w)
    BY <1>12 DEF ItemWrite, At, contentVars
  <2>2. \A v \in Workers \ {w} : wk'[v] = wk[v]  BY <1>0, <2>1 DEF Goto, Finish
  <2>3. FollowAt(wk[w])  BY <2>1, <2>2, Alone
  <2>4. /\ CampaignFollowsItem /\ wk[w].it = item
        /\ (InStep /\ status # "scheduled") \/ (status = "approved" /\ item = "scheduled")
    BY <2>1, <2>3 DEF FollowAt
  <2>5. InStep'
    <3>1. CASE InStep /\ status # "scheduled"
      <4>1. item # "scheduled"  BY <3>1
      <4> QED  BY <2>1, <2>4, <3>1, <4>1
    <3>2. CASE status = "approved" /\ item = "scheduled"
      <4>1. item' = "approved"  BY <2>1, <2>4, <3>2
      <4> QED  BY <2>1, <2>4, <3>2, <4>1
    <3> QED  BY <2>4, <3>1, <3>2
  <2>6. CASE Goto(w, "campaignWrite")
    <3>1. wk'[w].pc = "campaignWrite"  BY <1>0, <2>6, Lands DEF PC
    <3>2. FollowAt(wk[w])'  BY <2>5, <3>1 DEF FollowAt, Calm, OfCampaign
    <3> QED  BY <2>2, <3>1, <3>2, Turn
  <2>7. CASE Finish(w)
    <3>1. wk'[w] = IdleWorker  BY <1>0, <2>7 DEF Finish
    <3> QED  BY <2>1, <2>2, <2>5, <3>1, Turn
  <2> QED  BY <2>1, <2>6, <2>7
<1>13. CASE CancelCampaign(w)
  <2>1. /\ wk[w].pc = "idle" /\ campaign = "approved" /\ wk'[w].pc = "campaignItems" /\ wk'[w].op = "campaign"
        /\ \A v \in Workers \ {w} : wk'[v] = wk[v]
    BY <1>0, <1>13 DEF CancelCampaign, Idle, At, Worker
  <2>2. UNCHANGED <<status, item, campaign>>  BY <1>13 DEF CancelCampaign, contentVars, linkedVars
  <2>3. InStep  BY <2>1, Alone
  <2>4. FollowAt(wk[w])'  BY <2>1, <2>2, <2>3 DEF FollowAt, Calm, OfCampaign
  <2> QED  BY <2>1, <2>4, Turn
<1>14. CASE CampaignItems(w)
  <2>1. /\ wk[w].pc = "campaignItems" /\ wk'[w].pc = "campaignContent" /\ wk'[w].op = wk[w].op
        /\ wk'[w].it = item /\ \A v \in Workers \ {w} : wk'[v] = wk[v]
    BY <1>0, <1>14 DEF CampaignItems, At, Worker
  <2>2. UNCHANGED <<status, item, campaign>>  BY <1>14 DEF CampaignItems, contentVars, linkedVars
  <2>3. FollowAt(wk[w])  BY <2>1, Alone
  <2>4. FollowAt(wk[w])'  BY <2>1, <2>2, <2>3 DEF FollowAt, Calm, OfCampaign
  <2> QED  BY <2>1, <2>4, Turn
<1>15. CASE CampaignContent(w)
  <2>1. /\ wk[w].pc = "campaignContent" /\ wk'[w].pc = "sweepList" /\ wk'[w].op = wk[w].op
        /\ wk'[w].it = wk[w].it /\ (wk'[w].was <=> status = "scheduled")
        /\ \A v \in Workers \ {w} : wk'[v] = wk[v]
    BY <1>0, <1>15 DEF CampaignContent, Fetched, At, Worker
  <2>2. UNCHANGED <<status, item, campaign>>  BY <1>15 DEF CampaignContent, contentVars, linkedVars
  <2>3. FollowAt(wk[w])  BY <2>1, Alone
  <2>4. InStep /\ campaign = "approved" /\ wk[w].op = "campaign" /\ wk[w].it = item
    BY <2>1, <2>3 DEF FollowAt
  <2>5. status \notin Done  BY <2>4
  <2>6. FollowAt(wk[w])'  BY <2>1, <2>2, <2>4, <2>5 DEF FollowAt, Calm, OfCampaign
  <2> QED  BY <2>1, <2>6, Turn
<1>16. CASE CampaignWrite(w)
  <2>1. wk[w].pc = "campaignWrite" /\ UNCHANGED <<status, item>> /\ campaign' = "cancelled" /\ Finish(w)
    BY <1>16 DEF CampaignWrite, At, contentVars
  <2>2. wk'[w] = IdleWorker /\ \A v \in Workers \ {w} : wk'[v] = wk[v]  BY <1>0, <2>1 DEF Finish
  <2>3. FollowAt(wk[w])  BY <2>1, <2>2, Alone
  <2>4. InStep'  BY <2>1, <2>3 DEF FollowAt, Calm
  <2> QED  BY <2>1, <2>2, <2>4, Turn
<1> QED
  BY <1>1, <1>2, <1>3, <1>4, <1>5, <1>6, <1>7, <1>8, <1>9, <1>10, <1>11, <1>12, <1>13, <1>14, <1>15, <1>16
  DEF ScheduleNext

(* An attempt advances the item with its content.                          *)
LEMMA PublishFollows ==
  ASSUME Linked, TypeOK, FollowInv, OneAtATime, OneAtATime', NEW w \in Workers, PublishNext(w)
  PROVE  FollowInv'
<1>0. WkType /\ wk \in [Workers -> Worker] /\ wk[w] \in Worker  BY TypeParts DEF WkType
<1> USE DEF InStep, ItemFollows, CampaignFollowsItem, Done
<1>a. wk[w].pc = "idle" => wk[w] = IdleWorker  BY DEF FollowInv, At
<1>b. IdleWorker.op = "staff" /\ IdleWorker.pc = "idle"  BY DEF IdleWorker
(* A step of an attempt that leaves the item, its content and the campaign alone. *)
<1>c. ASSUME UNCHANGED <<status, item, campaign>>, wk[w].pc \in Calm \ {"idle", "campaignWrite"}, Finish(w)
      PROVE  FollowInv'
  <2>1. wk'[w] = IdleWorker /\ \A v \in Workers \ {w} : wk'[v] = wk[v]  BY <1>0, <1>c DEF Finish
  <2> QED  BY <1>c, <2>1, CalmTurn
<1>d. ASSUME UNCHANGED <<status, item, campaign>>, wk[w].pc \in Calm \ {"idle", "campaignWrite"},
             NEW l \in {"skip", "settleFail", "send", "settle", "fresh", "exhaust"}, Goto(w, l)
      PROVE  FollowInv'
  <2>1. wk'[w].pc = l /\ wk'[w].op = wk[w].op /\ \A v \in Workers \ {w} : wk'[v] = wk[v]
    BY <1>0, <1>d, Lands DEF PC
  <2>2. FollowAt(wk[w])  BY <1>d, <2>1, Alone
  <2>3. wk[w].op # "campaign"  BY <1>d, <2>2 DEF FollowAt, Calm, OfCampaign
  <2> QED  BY <1>d, <2>1, <2>3, CalmTurn DEF Calm
<1>1. ASSUME NEW p \in Posts, Claim(w, p)  PROVE FollowInv'
  <2>1. /\ wk[w].pc \in {"idle", "claim"} /\ wk'[w].pc = "content" /\ wk'[w].op = wk[w].op
        /\ \A v \in Workers \ {w} : wk'[v] = wk[v]
    BY <1>0, <1>1 DEF Claim, At, Worker
  <2>2. UNCHANGED <<status, item, campaign>>  BY <1>1 DEF Claim, contentVars, linkedVars
  <2>3. /\ wk[w].pc = "idle" => InStep /\ wk[w] = IdleWorker
        /\ wk[w].pc # "idle" => FollowAt(wk[w])
    BY <2>1, Alone
  <2>4. InStep /\ wk[w].op # "campaign"  BY <1>b, <2>1, <2>3 DEF FollowAt, Calm, OfCampaign
  <2>5. FollowAt(wk[w])'  BY <2>1, <2>2, <2>4 DEF FollowAt, Calm
  <2> QED  BY <2>1, <2>5, Turn
<1>2. CASE ClaimLost(w)
  <2>1. wk[w].pc = "claim" /\ Finish(w) /\ UNCHANGED <<status, item, campaign>>
    BY <1>2 DEF ClaimLost, At, contentVars, linkedVars
  <2> QED  BY <1>c, <2>1 DEF Calm
<1>3. CASE ReadContent(w)
  <2>1. /\ wk[w].pc = "content" /\ wk'[w].pc \in {"checks", "cancelSelf"} /\ wk'[w].op = wk[w].op
        /\ \A v \in Workers \ {w} : wk'[v] = wk[v]
    BY <1>0, <1>3 DEF ReadContent, At, Worker
  <2>2. UNCHANGED <<status, item, campaign>>  BY <1>3 DEF ReadContent, contentVars, linkedVars
  <2>3. FollowAt(wk[w])  BY <2>1, Alone
  <2>4. wk[w].op # "campaign"  BY <2>1, <2>3 DEF FollowAt, OfCampaign
  <2> QED  BY <2>1, <2>2, <2>4, CalmTurn DEF Calm
<1>4. CASE CancelSelf(w)
  <2>1. wk[w].pc = "cancelSelf" /\ Finish(w) /\ UNCHANGED <<status, item, campaign>>
    BY <1>4 DEF CancelSelf, Release, At, contentVars, linkedVars
  <2> QED  BY <1>c, <2>1 DEF Calm
<1>5. CASE Checks(w)
  <2>1. /\ wk[w].pc = "checks" /\ UNCHANGED <<status, item, campaign>>
        /\ \E l \in {"skip", "settleFail", "send"} : Goto(w, l)
    BY <1>5 DEF Checks, At, contentVars, linkedVars
  <2> QED  BY <1>d, <2>1 DEF Calm
<1>6. CASE Skip(w)
  <2>1. wk[w].pc = "skip" /\ Finish(w) /\ UNCHANGED <<status, item, campaign>>
    BY <1>6 DEF Skip, Release, At, contentVars, linkedVars
  <2> QED  BY <1>c, <2>1 DEF Calm
<1>7. CASE Send(w)
  <2>1. wk[w].pc = "send" /\ UNCHANGED <<status, item, campaign>>
        /\ \E l \in {"settle", "settleFail"} : Goto(w, l)
    BY <1>7 DEF Send, At, contentVars, linkedVars
  <2> QED  BY <1>d, <2>1 DEF Calm
<1>8. CASE Settle(w)
  <2>1. wk[w].pc = "settle" /\ UNCHANGED <<status, item, campaign>> /\ (Goto(w, "fresh") \/ Finish(w))
    BY <1>8 DEF Settle, Release, At, contentVars, linkedVars
  <2> QED  BY <1>c, <1>d, <2>1 DEF Calm
<1>9. CASE SettleFail(w)
  <2>1. wk[w].pc = "settleFail" /\ UNCHANGED <<status, item, campaign>> /\ (Goto(w, "exhaust") \/ Finish(w))
    BY <1>9 DEF SettleFail, Release, At, contentVars, linkedVars
  <2> QED  BY <1>c, <1>d, <2>1 DEF Calm
<1>10. CASE Exhaust(w)
  <2>1. wk[w].pc = "exhaust" /\ Finish(w) /\ UNCHANGED <<status, item, campaign>>
    BY <1>10 DEF Exhaust, At, contentVars, linkedVars
  <2> QED  BY <1>c, <2>1 DEF Calm
<1>11. CASE Fresh(w)
  <2>1. wk[w].pc = "fresh" /\ UNCHANGED <<status, item, campaign>>
    BY <1>11 DEF Fresh, At, contentVars, linkedVars
  <2>2. CASE status \in Publishable
    <3>1. Goto(w, "advance")  BY <1>11, <2>2 DEF Fresh
    <3>2. wk'[w].pc = "advance" /\ wk'[w].op = wk[w].op /\ \A v \in Workers \ {w} : wk'[v] = wk[v]
      BY <1>0, <3>1, Lands DEF PC
    <3>3. FollowAt(wk[w])  BY <2>1, <3>2, Alone
    <3>4. FollowAt(wk[w])'  BY <2>1, <2>2, <3>2, <3>3 DEF FollowAt, Calm, OfCampaign
    <3> QED  BY <3>2, <3>4, Turn
  <2>3. CASE status \notin Publishable
    BY <1>11, <1>c, <2>1, <2>3 DEF Fresh, Calm
  <2> QED  BY <2>2, <2>3
<1>12. CASE Advance(w)
  <2>1. /\ wk[w].pc = "advance" /\ status' = "published" /\ UNCHANGED <<item, campaign>>
        /\ Forget(w, "itemPublished")
    BY <1>12 DEF Advance, Promote, At, linkedVars
  <2>2. wk'[w].pc = "itemPublished" /\ wk'[w].op = wk[w].op /\ \A v \in Workers \ {w} : wk'[v] = wk[v]
    BY <1>0, <2>1, Lands DEF PC
  <2>3. FollowAt(wk[w])  BY <2>1, <2>2, Alone
  <2>4. InStep /\ status \in {"scheduled", "published"} /\ wk[w].op # "campaign"
    BY <2>1, <2>3 DEF FollowAt, Publishable, OfCampaign
  <2>5. item \in {"scheduled", "published"}  BY <2>4
  <2>6. FollowAt(wk[w])'  BY <2>1, <2>2, <2>4, <2>5 DEF FollowAt, Calm
  <2> QED  BY <2>2, <2>6, Turn
<1>13. CASE ItemPublished(w)
  <2>1. wk[w].pc = "itemPublished" /\ UNCHANGED <<status, campaign>> /\ item' = "published" /\ Finish(w)
    BY <1>13 DEF ItemPublished, At, contentVars
  <2>2. wk'[w] = IdleWorker /\ \A v \in Workers \ {w} : wk'[v] = wk[v]  BY <1>0, <2>1 DEF Finish
  <2>3. FollowAt(wk[w])  BY <2>1, <2>2, Alone
  <2>4. InStep'  BY <2>1, <2>3 DEF FollowAt
  <2> QED  BY <2>1, <2>2, <2>4, Turn
<1> QED
  BY <1>1, <1>2, <1>3, <1>4, <1>5, <1>6, <1>7, <1>8, <1>9, <1>10, <1>11, <1>12, <1>13 DEF PublishNext

LEMMA StepFollows ==
  ASSUME Linked, ~Crashes, TypeOK, FollowInv, OneAtATime, OneAtATime', [Next]_vars
  PROVE  FollowInv'
<1>1. ASSUME NEW w \in Workers, EditNext(w) \/ ReviewNext(w) \/ ScheduleNext(w) \/ PublishNext(w)
      PROVE  FollowInv'
  BY <1>1, EditFollows, ReviewFollows, ScheduleFollows, PublishFollows
<1>2. ASSUME NEW w \in Workers, Stop(w)  PROVE FollowInv'
  BY <1>2 DEF Stop
<1>3. ASSUME UNCHANGED <<status, item, campaign, wk>>  PROVE FollowInv'
  BY <1>3 DEF FollowInv, FollowAt, At, InStep, ItemFollows, CampaignFollowsItem
<1>4. ASSUME NEW p \in Posts, Recover(p) \/ Requeue(p)  PROVE FollowInv'
  BY <1>3, <1>4 DEF Recover, Requeue, contentVars, linkedVars
<1>5. CASE UNCHANGED vars
  BY <1>3, <1>5 DEF vars, contentVars, linkedVars
<1> QED  BY <1>1, <1>2, <1>4, <1>5 DEF Next

(* Whatever requests edit, approve, schedule, cancel and publish the item of a
   campaign one after the other, none of them killed, between any two of them
   the item tells how far its content is and the campaign follows the item
   (maybeCompleteCampaign, revertCampaignItemAfterDemotion). *)
THEOREM CampaignKeepsUp ==
  ASSUME ~Crashes
  PROVE  Spec /\ []OneAtATime => []CampaignFollows
<1>1. CASE Linked
  <2>1. Init => FollowInv
    BY DEF Init, FollowInv, At, InStep, ItemFollows, CampaignFollowsItem, Done, IdleWorker
  <2>2. TypeOK /\ FollowInv /\ OneAtATime /\ OneAtATime' /\ [Next]_vars => FollowInv'
    BY <1>1, StepFollows
  <2>3. FollowInv => CampaignFollows
    BY DEF FollowInv, CampaignFollows, At, InStep, ItemFollows, CampaignFollowsItem
  <2> QED  BY <2>1, <2>2, <2>3, TypeCorrect, PTL DEF Spec
<1>2. CASE ~Linked
  <2>1. CampaignFollows  BY <1>2 DEF CampaignFollows
  <2> QED  BY <2>1, PTL
<1> QED  BY <1>1, <1>2
=============================================================================
