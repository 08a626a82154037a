--------------------------- MODULE Workflow_proofs --------------------------
(***************************************************************************)
(* What holds of workflow-service for any number of tasks, people and      *)
(* request threads, however their requests overlap.                        *)
(*                                                                         *)
(* The argument is one inductive invariant, IInv of Workflow.tla.  Its     *)
(* heart is HandlerArgs: what a handler read before it was overtaken is     *)
(* stale, but some of it cannot become false (a task that existed was       *)
(* created, a requester never changes, a task once approved was approved).  *)
(* One lemma per action says that the action keeps IInv.                    *)
(*                                                                         *)
(* Two more invariants are built on it: RaceInv, for what the check of a    *)
(* request still guarantees until another request overtakes it, and         *)
(* KeptInv, for what no list of a clean-up can hold.                        *)
(***************************************************************************)
EXTENDS Workflow, FiniteSetTheorems, TLAPS

(* The look-up remembers the payload only.                                  *)
LEMMA CreateFindKeeps ==
    ASSUME IInv, NEW h \in Threads, CreateFind(h)
    PROVE  IInv'
<1>0. TypeOK /\ HandlerArgs /\ ApprovedIsRemembered
      /\ ApprovalsOfTasks /\ SegregationOfDuties
    BY DEF IInv
<1>1. TypeOK'
    BY <1>0
    DEF CreateFind, TypeOK, Ready, HandlerPC, TaskStatus, Decision, rows, history
<1>2. HandlerArgs'
    BY <1>0, NobodyAssumption
    DEF CreateFind, HandlerArgs, TypeOK, ApprovedIsRemembered, Ready,
        Created, TaskStatus, Decision, rows, history
<1>3. (ApprovedIsRemembered /\ ApprovalsOfTasks /\ SegregationOfDuties)'
    BY <1>0
    DEF CreateFind, ApprovedIsRemembered, ApprovalsOfTasks,
        SegregationOfDuties, Created, rows, history
<1> QED
    BY <1>1, <1>2, <1>3 DEF IInv

(* A fresh id: nobody's arguments and no approval name it, so its requester *)
(* may be set.                                                              *)
LEMMA CreateInsertKeeps ==
    ASSUME IInv, NEW h \in Threads, NEW t \in Tasks, CreateInsert(h, t)
    PROVE  IInv'
<1>0. TypeOK /\ HandlerArgs /\ ApprovedIsRemembered
      /\ ApprovalsOfTasks /\ SegregationOfDuties
    BY DEF IInv
<1>1. TypeOK'
    BY <1>0
    DEF CreateInsert, TypeOK, HandlerArgs, Created, Answer, EndsOvertaking,
        NoLongerWaits, HandlerPC, TaskStatus, Decision
<1>2. HandlerArgs'
    BY <1>0
    DEF CreateInsert, HandlerArgs, TypeOK, ApprovedIsRemembered, Answer,
        Created, TaskStatus, Decision
<1>3. ApprovedIsRemembered'
    BY <1>0
    DEF CreateInsert, ApprovedIsRemembered, TypeOK, HandlerArgs,
        Created, Answer, TaskStatus
<1>4. ApprovalsOfTasks'
    BY <1>0
    DEF CreateInsert, ApprovalsOfTasks, TypeOK, HandlerArgs, Answer,
        Created
<1>5. SegregationOfDuties'
    BY <1>0
    DEF CreateInsert, SegregationOfDuties, TypeOK, HandlerArgs,
        ApprovalsOfTasks, Answer, Created
<1> QED
    BY <1>1, <1>2, <1>3, <1>4, <1>5 DEF IInv

(* The bound answers the request.                                           *)
LEMMA CreateOutOfBoundKeeps ==
    ASSUME IInv, NEW h \in Threads, CreateOutOfBound(h)
    PROVE  IInv'
<1>0. TypeOK /\ HandlerArgs /\ ApprovedIsRemembered
      /\ ApprovalsOfTasks /\ SegregationOfDuties
    BY DEF IInv
<1>1. TypeOK'
    BY <1>0
    DEF CreateOutOfBound, TypeOK, Answer, EndsOvertaking, NoLongerWaits, HandlerPC, TaskStatus,
        Decision, rows, history
<1>2. HandlerArgs'
    BY <1>0
    DEF CreateOutOfBound, HandlerArgs, TypeOK, ApprovedIsRemembered,
        Answer, Created, TaskStatus, Decision, rows, history
<1>3. (ApprovedIsRemembered /\ ApprovalsOfTasks /\ SegregationOfDuties)'
    BY <1>0
    DEF CreateOutOfBound, ApprovedIsRemembered, ApprovalsOfTasks,
        SegregationOfDuties, Created, rows, history
<1> QED
    BY <1>1, <1>2, <1>3 DEF IInv

(* The check reads a live task; from a started task only "completed" is     *)
(* allowed, and that task was approved.                                     *)
LEMMA StatusCheckKeeps ==
    ASSUME IInv, NEW h \in Threads, StatusCheck(h)
    PROVE  IInv'
<1>0. TypeOK /\ HandlerArgs /\ ApprovedIsRemembered
      /\ ApprovalsOfTasks /\ SegregationOfDuties
    BY DEF IInv
<1>1. TypeOK'
    BY <1>0
    DEF StatusCheck, TypeOK, Ready, IsValidStatusTransition,
        AllowedTransitions, Live, HandlerPC, TaskStatus, Decision, rows, history
<1>2. HandlerArgs'
    BY <1>0
    DEF StatusCheck, HandlerArgs, TypeOK, ApprovedIsRemembered, Ready,
        IsValidStatusTransition, AllowedTransitions, Live, Created,
        TaskStatus, Decision, rows, history
<1>3. (ApprovedIsRemembered /\ ApprovalsOfTasks /\ SegregationOfDuties)'
    BY <1>0
    DEF StatusCheck, ApprovedIsRemembered, ApprovalsOfTasks,
        SegregationOfDuties, Created, rows, history
<1> QED
    BY <1>1, <1>2, <1>3 DEF IInv

(* The stale write: it may undo a later status, but the task exists and, if *)
(* work is written, was approved.                                           *)
LEMMA StatusUpdateKeeps ==
    ASSUME IInv, NEW h \in Threads, StatusUpdate(h)
    PROVE  IInv'
<1>0. TypeOK /\ HandlerArgs /\ ApprovedIsRemembered
      /\ ApprovalsOfTasks /\ SegregationOfDuties
    BY DEF IInv
<1>1. TypeOK'
  <2>1. task[h] \in Tasks /\ to[h] \in TaskStatus
    BY <1>0 DEF StatusUpdate, HandlerArgs, Created
  <2>2. status' \in [Tasks -> TaskStatus \union {"absent", "deleted"}]
    BY <1>0, <2>1 DEF StatusUpdate, TypeOK
  <2>3. approved_once' \in SUBSET Tasks
    BY <1>0, <2>1 DEF StatusUpdate, TypeOK
  <2> QED
    BY <1>0, <2>2, <2>3
    DEF StatusUpdate, TypeOK, Answer, EndsOvertaking, NoLongerWaits, HandlerPC,
        rows, history
<1>2. HandlerArgs'
  <2>1. task[h] \in Tasks /\ to[h] \in TaskStatus
    BY <1>0 DEF StatusUpdate, HandlerArgs, Created
  <2>2. \A t : Created(t) => Created(t)'
    BY <1>0, <2>1 DEF StatusUpdate, Created, Live, TypeOK, TaskStatus
  <2>3. approved_once \subseteq approved_once'
    BY DEF StatusUpdate
  <2>4. \A g \in Threads : /\ g # h => /\ pc'[g] = pc[g] /\ task'[g] = task[g]
                                       /\ person'[g] = person[g] /\ to'[g] = to[g]
                                       /\ delete_ids'[g] = delete_ids[g]
                           /\ g = h => pc'[g] = "idle" /\ delete_ids'[g] = {}
    BY <1>0 DEF StatusUpdate, Answer, TypeOK
  <2> QED
    BY <1>0, <2>2, <2>3, <2>4 DEF StatusUpdate, HandlerArgs, rows, history
<1>3. ApprovedIsRemembered'
    BY <1>0
    DEF StatusUpdate, ApprovedIsRemembered, TypeOK, HandlerArgs,
        Created, Answer, Live, TaskStatus, rows, history
<1>4. ApprovalsOfTasks'
  <2>1. task[h] \in Tasks /\ to[h] \in TaskStatus
    BY <1>0 DEF StatusUpdate, HandlerArgs, Created
  <2>2. \A t : Created(t) => Created(t)'
    BY <1>0, <2>1 DEF StatusUpdate, Created, Live, TypeOK, TaskStatus
  <2> QED
    BY <1>0, <2>2 DEF StatusUpdate, ApprovalsOfTasks
<1>5. SegregationOfDuties'
    BY <1>0
    DEF StatusUpdate, SegregationOfDuties, TypeOK, HandlerArgs,
        ApprovalsOfTasks, Answer, Live, Created, rows, history
<1> QED
    BY <1>1, <1>2, <1>3, <1>4, <1>5 DEF IInv

(* The approver is compared with a requester that never changes.            *)
LEMMA DecideCheckKeeps ==
    ASSUME IInv, NEW h \in Threads, DecideCheck(h)
    PROVE  IInv'
<1>0. TypeOK /\ HandlerArgs /\ ApprovedIsRemembered
      /\ ApprovalsOfTasks /\ SegregationOfDuties
    BY DEF IInv
<1>1. TypeOK'
    BY <1>0
    DEF DecideCheck, TypeOK, Ready, AwaitsDecision, IsDecision,
        MayDecide, Live, HandlerPC, TaskStatus, Decision, rows, history
<1>2. HandlerArgs'
    BY <1>0
    DEF DecideCheck, HandlerArgs, TypeOK, ApprovedIsRemembered, Ready,
        AwaitsDecision, IsDecision, MayDecide, Live, Created,
        TaskStatus, Decision, rows, history
<1>3. (ApprovedIsRemembered /\ ApprovalsOfTasks /\ SegregationOfDuties)'
    BY <1>0
    DEF DecideCheck, ApprovedIsRemembered, ApprovalsOfTasks,
        SegregationOfDuties, Created, rows, history
<1> QED
    BY <1>1, <1>2, <1>3 DEF IInv

(* The row that is recorded was checked against the requester.              *)
LEMMA DecideRecordKeeps ==
    ASSUME IInv, NEW h \in Threads, DecideRecord(h)
    PROVE  IInv'
<1>0. TypeOK /\ HandlerArgs /\ ApprovedIsRemembered
      /\ ApprovalsOfTasks /\ SegregationOfDuties
    BY DEF IInv
<1>1. TypeOK'
    BY <1>0
    DEF DecideRecord, TypeOK, HandlerArgs, Created, HandlerPC,
        TaskStatus, Decision, rows, history, args
<1>2. HandlerArgs'
    BY <1>0
    DEF DecideRecord, HandlerArgs, TypeOK, ApprovedIsRemembered,
        Created, TaskStatus, Decision, rows, history, args
<1>3. ApprovalsOfTasks'
    BY <1>0
    DEF DecideRecord, ApprovalsOfTasks, TypeOK, HandlerArgs, Created,
        rows, history, args
<1>4. SegregationOfDuties'
    BY <1>0
    DEF DecideRecord, SegregationOfDuties, TypeOK, HandlerArgs,
        ApprovalsOfTasks, Created, rows, history, args
<1>5. ApprovedIsRemembered'
    BY <1>0
    DEF DecideRecord, ApprovedIsRemembered, rows, history, args
<1> QED
    BY <1>1, <1>2, <1>3, <1>4, <1>5 DEF IInv

(* The decision goes on, or is answered.                                    *)
LEMMA DecideRecheckKeeps ==
    ASSUME IInv, NEW h \in Threads, DecideRecheck(h)
    PROVE  IInv'
<1>0. TypeOK /\ HandlerArgs /\ ApprovedIsRemembered
      /\ ApprovalsOfTasks /\ SegregationOfDuties
    BY DEF IInv
<1>1. TypeOK'
  <2>1. CASE pc' = [pc EXCEPT ![h] = "update"] /\ UNCHANGED <<args, overtaken>>
    BY <1>0, <2>1 DEF DecideRecheck, TypeOK, HandlerPC, rows, history, args
  <2>2. CASE Answer(h)
    BY <1>0, <2>2 DEF DecideRecheck, TypeOK, Answer, EndsOvertaking, HandlerPC, rows, history
  <2> QED
    BY <2>1, <2>2 DEF DecideRecheck
<1>2. HandlerArgs'
  <2>1. UNCHANGED <<status, requested_by, approved_once>>
    BY DEF DecideRecheck, rows, history
  <2>2. CASE pc' = [pc EXCEPT ![h] = "update"] /\ UNCHANGED <<args, overtaken>>
    BY <1>0, <2>1, <2>2
    DEF DecideRecheck, HandlerArgs, Created, TypeOK, args, TaskStatus, Decision
  <2>3. CASE Answer(h)
    BY <1>0, <2>1, <2>3 DEF HandlerArgs, Created, TypeOK, Answer
  <2> QED
    BY <2>2, <2>3 DEF DecideRecheck
<1>3. (ApprovedIsRemembered /\ ApprovalsOfTasks /\ SegregationOfDuties)'
    BY <1>0
    DEF DecideRecheck, ApprovedIsRemembered, ApprovalsOfTasks,
        SegregationOfDuties, Created, rows, history, args
<1> QED
    BY <1>1, <1>2, <1>3 DEF IInv

(* What will be deleted exists.                                             *)
LEMMA CleanupReadKeeps ==
    ASSUME IInv, NEW h \in Threads, CleanupRead(h)
    PROVE  IInv'
<1>0. TypeOK /\ HandlerArgs /\ ApprovedIsRemembered
      /\ ApprovalsOfTasks /\ SegregationOfDuties
    BY DEF IInv
<1>1. TypeOK'
    BY <1>0
    DEF CleanupRead, TypeOK, Ready, Live, HandlerPC, TaskStatus,
        Decision, rows, history
<1>2. HandlerArgs'
    BY <1>0
    DEF CleanupRead, HandlerArgs, TypeOK, ApprovedIsRemembered, Ready,
        Live, Created, TaskStatus, Decision, rows, history
<1>3. (ApprovedIsRemembered /\ ApprovalsOfTasks /\ SegregationOfDuties)'
    BY <1>0
    DEF CleanupRead, ApprovedIsRemembered, ApprovalsOfTasks,
        SegregationOfDuties, Created, rows, history
<1> QED
    BY <1>1, <1>2, <1>3 DEF IInv

(* Deleted tasks stay known, and their approvals go.                        *)
LEMMA CleanupDeleteKeeps ==
    ASSUME IInv, NEW h \in Threads, CleanupDelete(h)
    PROVE  IInv'
<1>0. TypeOK /\ HandlerArgs /\ ApprovedIsRemembered
      /\ ApprovalsOfTasks /\ SegregationOfDuties
    BY DEF IInv
<1>1. TypeOK'
    BY <1>0
    DEF CleanupDelete, TypeOK, Answer, EndsOvertaking, NoLongerWaits, HandlerPC,
        TaskStatus, Decision, rows, history
<1>2. HandlerArgs'
    BY <1>0
    DEF CleanupDelete, HandlerArgs, TypeOK, ApprovedIsRemembered,
        Answer, Created, TaskStatus, Decision, rows, history
<1>3. ApprovedIsRemembered'
    BY <1>0
    DEF CleanupDelete, ApprovedIsRemembered, TypeOK, HandlerArgs,
        Created, Answer, TaskStatus, rows, history
<1>4. ApprovalsOfTasks'
    BY <1>0
    DEF CleanupDelete, ApprovalsOfTasks, TypeOK, HandlerArgs, Answer,
        Created, rows, history
<1>5. SegregationOfDuties'
    BY <1>0
    DEF CleanupDelete, SegregationOfDuties, TypeOK, HandlerArgs,
        ApprovalsOfTasks, Answer, Created, rows, history
<1> QED
    BY <1>1, <1>2, <1>3, <1>4, <1>5 DEF IInv

(* An interrupted request leaves the rows as they are.                      *)
LEMMA InterruptedKeeps ==
    ASSUME IInv, NEW h \in Threads, Interrupted(h)
    PROVE  IInv'
<1>0. TypeOK /\ HandlerArgs /\ ApprovedIsRemembered
      /\ ApprovalsOfTasks /\ SegregationOfDuties
    BY DEF IInv
<1>1. TypeOK'
    BY <1>0
    DEF Interrupted, TypeOK, Answer, EndsOvertaking,
        NoLongerWaits, HandlerPC, TaskStatus, Decision, rows
<1>2. HandlerArgs'
    BY <1>0
    DEF Interrupted, HandlerArgs, TypeOK, ApprovedIsRemembered, Answer,
        Created, TaskStatus, Decision, rows
<1>3. (ApprovedIsRemembered /\ ApprovalsOfTasks /\ SegregationOfDuties)'
    BY <1>0
    DEF Interrupted, ApprovedIsRemembered, ApprovalsOfTasks,
        SegregationOfDuties, Created, rows
<1> QED
    BY <1>1, <1>2, <1>3 DEF IInv

(* A stuttering step keeps the invariant.                                   *)
LEMMA StutterKeeps ==
    ASSUME IInv, UNCHANGED vars
    PROVE  IInv'
BY DEF IInv, TypeOK, HandlerArgs, ApprovedIsRemembered, ApprovalsOfTasks,
       SegregationOfDuties, Created, vars, rows, history, args

-----------------------------------------------------------------------------
(* The three facts of the induction                                         *)

(* It holds of the empty tables, with every thread idle.                    *)
LEMMA InitInv == Init => IInv
BY NobodyAssumption
DEF Init, IInv, TypeOK, HandlerArgs, ApprovedIsRemembered, ApprovalsOfTasks,
    SegregationOfDuties, Created, HandlerPC, TaskStatus, Decision

(* Every step of every handler keeps it.                                    *)
LEMMA StepInv == IInv /\ [Next]_vars => IInv'
<1> SUFFICES ASSUME IInv, [Next]_vars PROVE IInv'
    OBVIOUS
<1>1. CASE UNCHANGED vars
    BY <1>1, StutterKeeps
<1>2. ASSUME NEW h \in Threads, Handler(h) PROVE IInv'
    BY <1>2, CreateFindKeeps, CreateInsertKeeps, CreateOutOfBoundKeeps,
       StatusCheckKeeps, StatusUpdateKeeps, DecideCheckKeeps, DecideRecordKeeps,
       DecideRecheckKeeps, CleanupReadKeeps, CleanupDeleteKeeps,
       InterruptedKeeps
    DEF Handler
<1> QED
    BY <1>1, <1>2 DEF Next

(* The inductive invariant is an invariant: what the locals of an           *)
(* overtaken handler still say about its task is true in every state.       *)
THEOREM Invariance == Spec => []IInv
BY InitInv, StepInv, PTL DEF Spec

-----------------------------------------------------------------------------
(* Type correctness of the tables and of every handler's locals.            *)
THEOREM TypeCorrect == Spec => []TypeOK
<1>1. IInv => TypeOK
    BY DEF IInv
<1> QED
    BY <1>1, Invariance, PTL

(* create_approval: nobody decides on a task they requested, however the    *)
(* decision was overtaken by other decisions, clean-ups or creations.       *)
THEOREM DutiesAreSegregated == Spec => []SegregationOfDuties
<1>1. IInv => SegregationOfDuties
    BY DEF IInv
<1> QED
    BY <1>1, Invariance, PTL

(* update_task_status: although its UPDATE is unconditional, work only      *)
(* starts or ends on a task that was approved some time before.             *)
THEOREM WorkIsApproved == Spec => []WorkWasApproved
<1>1. IInv => WorkWasApproved
    BY DEF IInv, ApprovedIsRemembered, WorkWasApproved
<1> QED
    BY <1>1, Invariance, PTL

-----------------------------------------------------------------------------
(* Overlapping clean-ups                                                    *)
(*                                                                         *)
(* What a clean-up has read is stale when it deletes.  Still the newest     *)
(* task of a kind, among those that were ever created, is in nobody's       *)
(* delete_ids: whatever is in one has a newer task of its kind.             *)

Newest(u) == \A v \in Tasks : status[v] # "absent" /\ Duplicates(v, u) =>
                                 created_at[v] <= created_at[u]

OlderThanSome(t) == \E v \in Tasks : /\ status[v] # "absent" /\ Duplicates(t, v)
                                     /\ created_at[t] < created_at[v]

Kept(t) == \E u \in Live : Duplicates(t, u) /\ Newest(u)

KeptInv == /\ \A t \in Tasks : status[t] # "absent" => created_at[t] < clock /\ Kept(t)
           /\ \A h \in Threads : \A t \in delete_ids[h] : OlderThanSome(t)

(* Steps that create and delete nothing.                                    *)
LEMMA SameRowsKeep ==
    ASSUME IInv, KeptInv, UNCHANGED rows, Live' = Live,
           \A t \in Tasks : status'[t] = "absent" <=> status[t] = "absent",
           \A h \in Threads : delete_ids'[h] \subseteq delete_ids[h]
    PROVE  KeptInv'
<1>1. \A t, u : Duplicates(t, u)' <=> Duplicates(t, u)
    BY DEF Duplicates, Coalesce, rows
<1>2. \A u : Newest(u)' <=> Newest(u)
    BY <1>1 DEF Newest, rows
<1>3. \A t : Kept(t)' <=> Kept(t)
    BY <1>1, <1>2 DEF Kept
<1>4. \A t : OlderThanSome(t)' <=> OlderThanSome(t)
    BY <1>1 DEF OlderThanSome, rows
<1>5. clock' = clock /\ created_at' = created_at
    BY DEF rows
<1>6. (\A t \in Tasks : status[t] # "absent" => created_at[t] < clock /\ Kept(t))'
    BY <1>3, <1>5 DEF KeptInv
<1>7. (\A h \in Threads : \A t \in delete_ids[h] : OlderThanSome(t))'
    BY <1>4 DEF KeptInv
<1> QED
    BY <1>6, <1>7 DEF KeptInv

(* A created task is the newest of its kind, and of another kind for all    *)
(* others nothing changes.                                                  *)
LEMMA InsertKeepsNewest ==
    ASSUME IInv, KeptInv, NEW h \in Threads, NEW n \in Tasks, CreateInsert(h, n)
    PROVE  KeptInv'
<1>1. TypeOK /\ HandlerArgs
    BY DEF IInv
<1>2. /\ status[n] = "absent" /\ status'[n] = "draft"
      /\ created_at'[n] = clock /\ clock \in Nat /\ clock' = clock + 1
    BY <1>1 DEF CreateInsert, TypeOK
<1>3. \A t \in Tasks \ {n} : /\ status'[t] = status[t] /\ created_at'[t] = created_at[t]
                             /\ asset'[t] = asset[t] /\ action'[t] = action[t]
    BY <1>1 DEF CreateInsert, TypeOK
<1>4. created_at \in [Tasks -> Nat]
    BY <1>1 DEF TypeOK
<1>5. n \in Live'
    BY <1>2 DEF Live, TaskStatus
<1>6. \A t, u \in Tasks \ {n} : Duplicates(t, u)' <=> Duplicates(t, u)
    BY <1>3 DEF Duplicates
<1>7. \A v \in Tasks \ {n} : status[v] # "absent" => created_at[v] < clock
    BY DEF KeptInv
<1>8. Newest(n)'
    BY <1>2, <1>3, <1>4, <1>7 DEF Newest
<1>9. ASSUME NEW t \in Tasks, status'[t] # "absent"
      PROVE  created_at'[t] < clock' /\ Kept(t)'
  <2>1. CASE t = n
    <3>1. Duplicates(n, n)'
        BY DEF Duplicates
    <3> QED
        BY <1>2, <1>5, <1>8, <2>1, <3>1 DEF Kept
  <2>2. CASE t # n /\ Duplicates(t, n)'
      BY <1>2, <1>3, <1>4, <1>5, <1>7, <1>8, <1>9, <2>2 DEF Kept
  <2>3. CASE t # n /\ ~ Duplicates(t, n)'
    <3>1. status[t] # "absent"
        BY <1>3, <1>9, <2>3
    <3>2. PICK u \in Live : Duplicates(t, u) /\ Newest(u)
        BY <3>1 DEF KeptInv, Kept
    <3>3. u \in Tasks \ {n}
        BY <1>2, <3>2 DEF Live, TaskStatus
    <3>4. u \in Live'
        BY <1>3, <3>3 DEF Live
    <3>5. Duplicates(t, u)'
        BY <1>6, <2>3, <3>2, <3>3
    <3>6. ~ Duplicates(n, u)'
        BY <2>3, <3>5 DEF Duplicates
    <3>7. Newest(u)'
        BY <1>3, <1>6, <3>2, <3>3, <3>6 DEF Newest
    <3>8. created_at'[t] < clock'
        BY <1>2, <1>3, <1>4, <1>7, <2>3, <3>1
    <3> QED
        BY <3>4, <3>5, <3>7, <3>8 DEF Kept
  <2> QED
      BY <2>1, <2>2, <2>3
<1>10. ASSUME NEW g \in Threads, NEW t \in delete_ids'[g]
       PROVE  OlderThanSome(t)'
  <2>1. t \in delete_ids[g]
      BY <1>1, <1>10 DEF CreateInsert, Answer, TypeOK
  <2>2. t \in Tasks \ {n}
      BY <1>1, <1>2, <2>1 DEF HandlerArgs, Created
  <2>3. PICK v \in Tasks : /\ status[v] # "absent" /\ Duplicates(t, v)
                           /\ created_at[t] < created_at[v]
      BY <2>1 DEF KeptInv, OlderThanSome
  <2>4. v # n
      BY <1>2, <2>3
  <2> QED
      BY <1>3, <1>6, <2>2, <2>3, <2>4 DEF OlderThanSome
<1> QED
    BY <1>9, <1>10 DEF KeptInv

(* A clean-up takes down what is older than a live task.                    *)
LEMMA ReadKeepsNewest ==
    ASSUME IInv, KeptInv, NEW h \in Threads, CleanupRead(h)
    PROVE  KeptInv'
<1>1. TypeOK
    BY DEF IInv
<1>2. UNCHANGED <<status, rows>>
    BY DEF CleanupRead
<1>3. \A t, u : Duplicates(t, u)' <=> Duplicates(t, u)
    BY <1>2 DEF Duplicates, Coalesce, rows
<1>4. \A t : OlderThanSome(t)' <=> OlderThanSome(t)
    BY <1>2, <1>3 DEF OlderThanSome, rows
<1>5. \A t : Kept(t)' <=> Kept(t)
    BY <1>2, <1>3 DEF Kept, Newest, Live, rows
<1>6. ASSUME NEW g \in Threads, NEW t \in delete_ids'[g]
      PROVE  OlderThanSome(t)
  <2>1. CASE g = h
    <3>1. PICK u \in Live : Duplicates(t, u) /\ IsOlder(t, u)
        BY <1>1, <1>6, <2>1 DEF CleanupRead, TypeOK
    <3> QED
        BY <3>1 DEF OlderThanSome, IsOlder, Live, TaskStatus
  <2>2. CASE g # h
      BY <1>1, <1>6, <2>2 DEF CleanupRead, TypeOK, KeptInv
  <2> QED
      BY <2>1, <2>2
<1>7. (\A t \in Tasks : status[t] # "absent" => created_at[t] < clock /\ Kept(t))'
    BY <1>2, <1>5 DEF KeptInv, rows
<1> QED
    BY <1>4, <1>6, <1>7 DEF KeptInv

(* What it deletes is not the newest.                                       *)
LEMMA DeleteKeepsNewest ==
    ASSUME IInv, KeptInv, NEW h \in Threads, CleanupDelete(h)
    PROVE  KeptInv'
<1>1. TypeOK /\ HandlerArgs
    BY DEF IInv
<1>2. \A t \in Tasks : status'[t] = IF t \in delete_ids[h] THEN "deleted" ELSE status[t]
    BY DEF CleanupDelete
<1>3. UNCHANGED rows /\ created_at \in [Tasks -> Nat]
    BY <1>1 DEF CleanupDelete, TypeOK
<1>4. \A t \in delete_ids[h] : t \in Tasks /\ status[t] # "absent"
    BY <1>1 DEF HandlerArgs, Created
<1>5. \A t \in Tasks : status'[t] = "absent" <=> status[t] = "absent"
    BY <1>2, <1>4
<1>6. \A t, u : Duplicates(t, u)' <=> Duplicates(t, u)
    BY <1>3 DEF Duplicates, Coalesce, rows
<1>7. \A u : Newest(u)' <=> Newest(u)
    BY <1>3, <1>5, <1>6 DEF Newest, rows
<1>8. \A t : OlderThanSome(t)' <=> OlderThanSome(t)
    BY <1>3, <1>5, <1>6 DEF OlderThanSome, rows
<1>9. ASSUME NEW u \in Live, Newest(u)
      PROVE  u \in Live'
  <2>1. u \in Tasks
      BY DEF Live
  <2>2. u \notin delete_ids[h]
    <3>1. SUFFICES ASSUME u \in delete_ids[h] PROVE FALSE
        OBVIOUS
    <3>2. PICK v \in Tasks : /\ status[v] # "absent" /\ Duplicates(u, v)
                             /\ created_at[u] < created_at[v]
        BY <3>1 DEF KeptInv, OlderThanSome
    <3>3. created_at[v] <= created_at[u]
        BY <1>9, <3>2 DEF Newest, Duplicates
    <3> QED
        BY <1>3, <2>1, <3>2, <3>3
  <2> QED
      BY <1>2, <2>1, <2>2 DEF Live
<1>10. (\A t \in Tasks : status[t] # "absent" => created_at[t] < clock /\ Kept(t))'
    BY <1>3, <1>5, <1>6, <1>7, <1>9 DEF KeptInv, Kept, rows
<1>11. (\A g \in Threads : \A t \in delete_ids[g] : OlderThanSome(t))'
    BY <1>1, <1>8 DEF KeptInv, CleanupDelete, Answer, TypeOK
<1> QED
    BY <1>10, <1>11 DEF KeptInv

(* Every step keeps the newest task of each kind.                           *)
LEMMA StepKeepsNewest == IInv /\ KeptInv /\ [Next]_vars => KeptInv'
<1> SUFFICES ASSUME IInv, KeptInv, [Next]_vars PROVE KeptInv'
    OBVIOUS
<1>0. TypeOK /\ HandlerArgs
    BY DEF IInv
<1>1. CASE UNCHANGED vars
    BY <1>1, SameRowsKeep DEF vars, args, Live
<1>2. ASSUME NEW h \in Threads, Handler(h) PROVE KeptInv'
  <2>1. CASE CreateFind(h) \/ StatusCheck(h) \/ DecideCheck(h) \/ DecideRecord(h)
      BY <2>1, SameRowsKeep
      DEF CreateFind, StatusCheck, DecideCheck, DecideRecord, Live, args
  <2>2. CASE CreateOutOfBound(h) \/ DecideRecheck(h) \/ Interrupted(h)
    <3>1. \A g \in Threads : delete_ids'[g] \subseteq delete_ids[g]
        BY <1>0, <2>2 DEF CreateOutOfBound, DecideRecheck, Interrupted, Answer, TypeOK, args
    <3>2. UNCHANGED <<status, rows>>
        BY <2>2 DEF CreateOutOfBound, DecideRecheck, Interrupted
    <3> QED
        BY <3>1, <3>2, SameRowsKeep DEF Live
  <2>3. CASE StatusUpdate(h)
    <3>1. to[h] \in TaskStatus /\ task[h] \in Tasks
        BY <1>0, <2>3 DEF StatusUpdate, HandlerArgs, Created
    <3>2. \A g \in Threads : delete_ids'[g] \subseteq delete_ids[g]
        BY <1>0, <2>3 DEF StatusUpdate, Answer, TypeOK
    <3>3. /\ \A t \in Tasks : status'[t] = "absent" <=> status[t] = "absent"
          /\ \A t \in Tasks : status'[t] \in TaskStatus <=> status[t] \in TaskStatus
        BY <1>0, <2>3, <3>1 DEF StatusUpdate, TypeOK, Live, TaskStatus
    <3>4. Live' = Live
        BY <3>3 DEF Live
    <3>5. UNCHANGED rows
        BY <2>3 DEF StatusUpdate
    <3> QED
        BY <3>2, <3>3, <3>4, <3>5, SameRowsKeep
  <2> QED
      BY <1>2, <2>1, <2>2, <2>3, InsertKeepsNewest, ReadKeepsNewest, DeleteKeepsNewest
      DEF Handler
<1> QED
    BY <1>1, <1>2 DEF Next

(* cleanup_duplicate_tasks: however many clean-ups and creations overlap,   *)
(* what was deleted has a live task of its kind left.                       *)
THEOREM CleanupKeepsOne == Spec => []OneIsKept
<1>1. Init => KeptInv
    BY DEF Init, KeptInv
<1>2. KeptInv => OneIsKept
    BY DEF KeptInv, Kept, OneIsKept
<1> QED
    BY <1>1, <1>2, StepKeepsNewest, Invariance, PTL DEF Spec
-----------------------------------------------------------------------------
(* Requests that were not overtaken                                         *)
(*                                                                         *)
(* What a handler has checked is still so when it writes, unless another    *)
(* request has changed it since, and then the handler is in overtaken.      *)

Fresh(h) == /\ pc[h] = "insert" => \A t \in Live : ~ SameTask(t, wanted[h][1], wanted[h][2])
            /\ pc[h] \in {"record", "recheck"} =>
                  task[h] \in Live /\ status[task[h]] = "pending_approval"
            /\ pc[h] = "update" =>
                  task[h] \in Live /\ <<status[task[h]], to[h]>> \in AllowedTransitions

RaceInv == /\ \A h \in Threads \ overtaken : Fresh(h)
           /\ DecisionsAreApplied
           /\ OnlyRacesDuplicate

(* What the handler of the step has checked itself.                         *)
LEMMA StaysFresh ==
    ASSUME IInv, NEW h \in Threads, Handler(h), h \notin overtaken => Fresh(h)
    PROVE  h \notin overtaken' => Fresh(h)'
<1>1. TypeOK
    BY DEF IInv
<1>2. CASE CreateFind(h)
    BY <1>1, <1>2 DEF CreateFind, Fresh, TypeOK, Live, SameTask, rows
<1>3. CASE StatusCheck(h)
    BY <1>1, <1>3 DEF StatusCheck, Fresh, TypeOK, Live, IsValidStatusTransition
<1>4. CASE DecideCheck(h)
    BY <1>1, <1>4 DEF DecideCheck, Fresh, TypeOK, Live, AwaitsDecision
<1>5. CASE DecideRecord(h)
    BY <1>1, <1>5 DEF DecideRecord, Fresh, TypeOK, Live, args
<1>6. CASE DecideRecheck(h) /\ pc'[h] = "update"
    BY <1>1, <1>6 DEF DecideRecheck, Answer, Fresh, TypeOK, Live, args,
                      IsValidStatusTransition
<1>7. CASE CleanupRead(h)
    BY <1>1, <1>7 DEF CleanupRead, Fresh, TypeOK
<1>8. CASE pc'[h] = "idle"
    BY <1>8 DEF Fresh
<1> QED
    BY <1>1, <1>2, <1>3, <1>4, <1>5, <1>6, <1>7, <1>8
    DEF Handler, CreateInsert, CreateOutOfBound, StatusUpdate, DecideRecheck, CleanupDelete,
        Interrupted, Answer, TypeOK

(* A handler leaves the locals of the others alone.                         *)
LEMMA OthersKeepLocals ==
    ASSUME IInv, NEW h \in Threads, Handler(h), NEW g \in Threads \ {h}
    PROVE  /\ pc'[g] = pc[g] /\ task'[g] = task[g] /\ wanted'[g] = wanted[g]
           /\ person'[g] = person[g] /\ to'[g] = to[g]
           /\ g \in overtaken => g \in overtaken'
           /\ g \in unapplied' => g \in unapplied
<1>1. TypeOK
    BY DEF IInv
<1>2. CASE CreateFind(h) \/ StatusCheck(h) \/ DecideCheck(h) \/ CleanupRead(h)
    BY <1>1, <1>2 DEF TypeOK, CreateFind, StatusCheck, DecideCheck, CleanupRead, history
<1>3. CASE DecideRecord(h)
    BY <1>1, <1>3 DEF TypeOK, DecideRecord, args
<1>4. CASE DecideRecheck(h)
  <2>1. CASE pc' = [pc EXCEPT ![h] = "update"] /\ UNCHANGED <<args, overtaken>>
      BY <1>1, <1>4, <2>1 DEF TypeOK, DecideRecheck, args
  <2>2. CASE Answer(h) /\ EndsOvertaking(h, {})
      BY <1>1, <1>4, <2>2 DEF TypeOK, DecideRecheck, Answer, EndsOvertaking
  <2> QED
      BY <1>4, <2>1, <2>2 DEF DecideRecheck
<1>5. CASE (\E t \in Tasks : CreateInsert(h, t)) \/ CreateOutOfBound(h)
    BY <1>1, <1>5 DEF TypeOK, CreateInsert, CreateOutOfBound, Answer, EndsOvertaking
<1>6. CASE StatusUpdate(h)
    BY <1>1, <1>6 DEF TypeOK, StatusUpdate, Answer, EndsOvertaking, NoLongerWaits
<1>7. CASE CleanupDelete(h) \/ Interrupted(h)
    BY <1>1, <1>7 DEF TypeOK, CleanupDelete, Interrupted, Answer, EndsOvertaking,
                      NoLongerWaits
<1> QED
    BY <1>2, <1>3, <1>4, <1>5, <1>6, <1>7 DEF Handler

(* A step that writes nothing another handler could have checked.           *)
LEMMA SameTablesKeepFresh ==
    ASSUME NEW g \in Threads, Fresh(g), UNCHANGED <<status, rows>>,
           pc'[g] = pc[g], task'[g] = task[g], wanted'[g] = wanted[g], to'[g] = to[g]
    PROVE  Fresh(g)'
BY DEF Fresh, SameTask, Live, rows

(* What the others have checked: a write that changes it overtakes them.    *)
LEMMA OthersStayFresh ==
    ASSUME IInv, NEW h \in Threads, Handler(h), NEW g \in Threads \ {h},
           Fresh(g), g \notin overtaken'
    PROVE  Fresh(g)'
<1>1. TypeOK /\ HandlerArgs
    BY DEF IInv
<1>2. /\ pc'[g] = pc[g] /\ task'[g] = task[g] /\ wanted'[g] = wanted[g] /\ to'[g] = to[g]
    BY OthersKeepLocals
<1>3. CASE UNCHANGED <<status, rows>>
    BY <1>2, <1>3, SameTablesKeepFresh
<1>4. ASSUME NEW n \in Tasks, CreateInsert(h, n)
      PROVE  Fresh(g)'
  <2>1. Live' = Live \union {n} /\ n \notin Live
      BY <1>1, <1>4 DEF CreateInsert, TypeOK, Live, TaskStatus
  <2>2. \A t \in Live : /\ asset'[t] = asset[t] /\ action'[t] = action[t]
                        /\ status'[t] = status[t]
      BY <1>1, <1>4, <2>1 DEF CreateInsert, TypeOK, Live
  <2>3. asset'[n] = wanted[h][1] /\ action'[n] = wanted[h][2]
      BY <1>1, <1>4 DEF CreateInsert, TypeOK
  <2>4. pc[g] = "insert" => wanted[g] # wanted[h]
      BY <1>4 DEF CreateInsert, EndsOvertaking
  <2>5. pc[g] = "insert" => ~ (wanted[g][1] = wanted[h][1] /\ wanted[g][2] = wanted[h][2])
      BY <1>1, <2>4 DEF TypeOK
  <2>6. pc[g] = "insert" => \A t \in Live' : ~ SameTask(t, wanted[g][1], wanted[g][2])'
      BY <1>2, <2>1, <2>2, <2>3, <2>5 DEF Fresh, SameTask
  <2> QED
      BY <1>2, <2>1, <2>2, <2>6 DEF Fresh
<1>5. CASE StatusUpdate(h) /\ task[h] \in Live
  <2>1. task[h] \in Tasks /\ to[h] \in TaskStatus
      BY <1>1, <1>5 DEF StatusUpdate, HandlerArgs, Created
  <2>2. Live' = Live /\ UNCHANGED rows
      BY <1>1, <1>5, <2>1 DEF StatusUpdate, TypeOK, Live
  <2>3. pc[g] # "idle" => task[g] # task[h]
      BY <1>5 DEF StatusUpdate, EndsOvertaking
  <2>4. \A t \in Tasks \ {task[h]} : status'[t] = status[t]
      BY <1>1, <1>5 DEF StatusUpdate, TypeOK
  <2>5. \A t : SameTask(t, wanted[g][1], wanted[g][2])' <=> SameTask(t, wanted[g][1], wanted[g][2])
      BY <1>2, <2>2 DEF SameTask, rows
  <2> QED
      BY <1>2, <2>2, <2>3, <2>4, <2>5 DEF Fresh, Live
<1>6. CASE CleanupDelete(h)
  <2>1. pc[g] # "idle" => task[g] \notin delete_ids[h]
      BY <1>6 DEF CleanupDelete, EndsOvertaking
  <2>2. \A t \in Tasks : t \notin delete_ids[h] => status'[t] = status[t]
      BY <1>6 DEF CleanupDelete
  <2>3. Live' \subseteq Live /\ UNCHANGED rows
      BY <1>6 DEF CleanupDelete, Live, TaskStatus
  <2>4. \A t : SameTask(t, wanted[g][1], wanted[g][2])' <=> SameTask(t, wanted[g][1], wanted[g][2])
      BY <1>2, <2>3 DEF SameTask, rows
  <2> QED
      BY <1>2, <2>1, <2>2, <2>3, <2>4 DEF Fresh, Live
<1> QED
    BY <1>3, <1>4, <1>5, <1>6
    DEF Handler, CreateFind, CreateOutOfBound, StatusCheck, StatusUpdate, DecideCheck,
        DecideRecord, DecideRecheck, CleanupRead, Interrupted

(* Only an insertion adds a live task: it has just found none like it, or   *)
(* it was overtaken and the new task is in raced.                           *)
LEMMA RacesStayKnown ==
    ASSUME IInv, OnlyRacesDuplicate, NEW h \in Threads, Handler(h),
           h \notin overtaken => Fresh(h)
    PROVE  OnlyRacesDuplicate'
<1>1. TypeOK /\ HandlerArgs
    BY DEF IInv
<1>2. ASSUME NEW n \in Tasks, CreateInsert(h, n)
      PROVE  OnlyRacesDuplicate'
  <2>1. Live' = Live \union {n} /\ n \notin Live
      BY <1>1, <1>2 DEF CreateInsert, TypeOK, Live, TaskStatus
  <2>2. asset'[n] = wanted[h][1] /\ action'[n] = wanted[h][2]
      BY <1>1, <1>2 DEF CreateInsert, TypeOK
  <2>3. \A t \in Live : asset'[t] = asset[t] /\ action'[t] = action[t]
      BY <1>1, <1>2, <2>1 DEF CreateInsert, TypeOK, Live
  <2>4. raced \subseteq raced' /\ (h \in overtaken => n \in raced')
      BY <1>2 DEF CreateInsert
  <2>5. h \notin overtaken =>
           \A t \in Live : ~ (asset[t] = wanted[h][1] /\ action[t] = wanted[h][2])
      BY <1>2 DEF Fresh, CreateInsert, SameTask
  <2> QED
      BY <2>1, <2>2, <2>3, <2>4, <2>5 DEF OnlyRacesDuplicate
<1>3. CASE Live' \subseteq Live /\ UNCHANGED <<asset, action, raced>>
    BY <1>3 DEF OnlyRacesDuplicate
<1>4. CASE StatusUpdate(h)
  <2>1. to[h] \in TaskStatus
      BY <1>1, <1>4 DEF StatusUpdate, HandlerArgs
  <2> QED
      BY <1>1, <1>3, <1>4, <2>1 DEF StatusUpdate, Live, TypeOK, TaskStatus, rows
<1>5. CASE CleanupDelete(h)
    BY <1>1, <1>3, <1>5 DEF CleanupDelete, Live, TaskStatus, TypeOK, rows
<1>6. CASE UNCHANGED <<status, rows, raced>>
    BY <1>3, <1>6 DEF Live, rows
<1> QED
    BY <1>2, <1>4, <1>5, <1>6
    DEF Handler, CreateFind, CreateOutOfBound, StatusCheck, DecideCheck, DecideRecord,
        DecideRecheck, CleanupRead, Interrupted, history

(* The handler of the step: a record it has just made finds the task        *)
(* waiting, the recheck lets it through, and the UPDATE ends the wait.      *)
LEMMA OwnDecisionApplies ==
    ASSUME IInv, DecisionsAreApplied, NEW h \in Threads, Handler(h),
           h \notin overtaken => Fresh(h), h \in unapplied'
    PROVE  /\ pc'[h] \in {"recheck", "update"}
           /\ <<task'[h], person'[h], to'[h]>> \in approvals'
           /\ status'[task'[h]] = "pending_approval"
<1>1. TypeOK /\ HandlerArgs
    BY DEF IInv
<1>2. CASE DecideRecord(h)
  <2>1. pc'[h] = "recheck" /\ <<task'[h], person'[h], to'[h]>> \in approvals'
      BY <1>1, <1>2 DEF DecideRecord, TypeOK, args
  <2>2. h \notin overtaken
      BY <1>2 DEF DecideRecord, DecisionsAreApplied
  <2> QED
      BY <1>2, <2>1, <2>2 DEF DecideRecord, Fresh, args
<1>3. CASE DecideRecheck(h)
  <2>1. h \in unapplied /\ pc[h] = "recheck"
      BY <1>3 DEF DecideRecheck
  <2>2. /\ task[h] \in Tasks /\ status[task[h]] = "pending_approval" /\ to[h] \in Decision
        /\ <<task[h], person[h], to[h]>> \in approvals
      BY <1>1, <2>1 DEF DecisionsAreApplied, HandlerArgs, Created
  <2>3. task[h] \in Live /\ IsValidStatusTransition(status[task[h]], to[h])
      BY <2>2 DEF Live, TaskStatus, Decision, IsValidStatusTransition, AllowedTransitions
  <2>4. pc' = [pc EXCEPT ![h] = "update"] /\ UNCHANGED <<args, status, approvals>>
      BY <1>3, <2>3 DEF DecideRecheck
  <2> QED
      BY <1>1, <2>2, <2>4 DEF TypeOK, args
<1>4. CASE h \in unapplied /\ ((\E t \in Tasks : CreateInsert(h, t)) \/ CreateOutOfBound(h))
    BY <1>4 DEF CreateInsert, CreateOutOfBound, DecisionsAreApplied
<1>5. CASE StatusUpdate(h)
  <2>1. h \in unapplied => task[h] \in Live
      BY <1>1, <1>5 DEF StatusUpdate, DecisionsAreApplied, HandlerArgs, Created, Live, TaskStatus
  <2> QED
      BY <1>5, <2>1 DEF StatusUpdate, NoLongerWaits
<1>6. CASE Interrupted(h)
    BY <1>6 DEF Interrupted, NoLongerWaits
<1> QED
    BY <1>2, <1>3, <1>4, <1>5, <1>6
    DEF Handler, CreateFind, CreateInsert, CreateOutOfBound, StatusCheck, DecideCheck,
        CleanupRead, CleanupDelete, NoLongerWaits, DecisionsAreApplied, Ready, history

(* The others: who changes their task takes them out of unapplied.          *)
LEMMA OtherDecisionsApply ==
    ASSUME IInv, DecisionsAreApplied, NEW h \in Threads, Handler(h),
           NEW g \in Threads \ {h}, g \in unapplied'
    PROVE  /\ pc'[g] \in {"recheck", "update"}
           /\ <<task'[g], person'[g], to'[g]>> \in approvals'
           /\ status'[task'[g]] = "pending_approval"
<1>1. TypeOK /\ HandlerArgs
    BY DEF IInv
<1>2. /\ pc'[g] = pc[g] /\ task'[g] = task[g] /\ person'[g] = person[g] /\ to'[g] = to[g]
      /\ g \in unapplied
    BY OthersKeepLocals
<1>3. /\ pc[g] \in {"recheck", "update"}
      /\ <<task[g], person[g], to[g]>> \in approvals
      /\ task[g] \in Tasks /\ status[task[g]] = "pending_approval"
    BY <1>1, <1>2 DEF DecisionsAreApplied, HandlerArgs, Created
<1>4. CASE UNCHANGED status /\ approvals \subseteq approvals'
    BY <1>2, <1>3, <1>4
<1>5. ASSUME NEW n \in Tasks, CreateInsert(h, n)
      PROVE  status'[task[g]] = status[task[g]] /\ UNCHANGED approvals
    BY <1>1, <1>3, <1>5 DEF CreateInsert, TypeOK
<1>6. CASE StatusUpdate(h) /\ task[h] \in Live
  <2>1. task[g] # task[h]
      BY <1>6 DEF StatusUpdate, NoLongerWaits
  <2> QED
      BY <1>1, <1>2, <1>3, <1>6, <2>1 DEF StatusUpdate, TypeOK
<1>7. CASE CleanupDelete(h)
  <2>1. task[g] \notin delete_ids[h]
      BY <1>7 DEF CleanupDelete, NoLongerWaits
  <2>2. <<task[g], person[g], to[g]>> \in approvals'
      BY <1>3, <1>7, <2>1 DEF CleanupDelete
  <2>3. status'[task[g]] = status[task[g]]
      BY <1>3, <1>7, <2>1 DEF CleanupDelete
  <2> QED
      BY <1>2, <1>3, <2>2, <2>3
<1> QED
    BY <1>2, <1>3, <1>4, <1>5, <1>6, <1>7
    DEF Handler, CreateFind, CreateOutOfBound, StatusCheck, StatusUpdate, DecideCheck,
        DecideRecord, DecideRecheck, CleanupRead, Interrupted

(* The three facts of the induction.                                        *)
LEMMA StepKeepsRaces == IInv /\ RaceInv /\ [Next]_vars => RaceInv'
<1> SUFFICES ASSUME IInv, RaceInv, [Next]_vars PROVE RaceInv'
    OBVIOUS
<1>1. CASE UNCHANGED vars
    BY <1>1 DEF RaceInv, DecisionsAreApplied, OnlyRacesDuplicate, Fresh, SameTask, Live,
                vars, rows, args, history
<1>2. ASSUME NEW h \in Threads, Handler(h) PROVE RaceInv'
  <2>0. h \notin overtaken => Fresh(h)
      BY DEF RaceInv
  <2>1. ASSUME NEW g \in Threads \ overtaken' PROVE Fresh(g)'
    <3>1. CASE g = h
        BY <1>2, <2>0, <2>1, <3>1, StaysFresh
    <3>2. CASE g # h
      <4>1. g \notin overtaken
          BY <1>2, <2>1, <3>2, OthersKeepLocals
      <4> QED
          BY <1>2, <2>1, <3>2, <4>1, OthersStayFresh DEF RaceInv
    <3> QED
        BY <3>1, <3>2
  <2>2. DecisionsAreApplied'
    <3>1. DecisionsAreApplied
        BY DEF RaceInv
    <3>2. ASSUME NEW g \in unapplied'
          PROVE  /\ pc'[g] \in {"recheck", "update"}
                 /\ <<task'[g], person'[g], to'[g]>> \in approvals'
                 /\ status'[task'[g]] = "pending_approval"
      <4>1. g \in Threads
          BY <1>2, StepInv DEF IInv, TypeOK, Next
      <4>2. CASE g = h
          BY <1>2, <2>0, <3>1, <3>2, <4>2, OwnDecisionApplies
      <4>3. CASE g # h
          BY <1>2, <3>1, <3>2, <4>1, <4>3, OtherDecisionsApply
      <4> QED
          BY <4>2, <4>3
    <3> QED
        BY <3>2 DEF DecisionsAreApplied
  <2>3. OnlyRacesDuplicate'
      BY <1>2, <2>0, RacesStayKnown DEF RaceInv
  <2> QED
      BY <2>1, <2>2, <2>3 DEF RaceInv
<1> QED
    BY <1>1, <1>2 DEF Next

LEMMA Races == Spec => []RaceInv
<1>1. Init => RaceInv
    BY DEF Init, RaceInv, DecisionsAreApplied, OnlyRacesDuplicate, Fresh, Live, TaskStatus
<1> QED
    BY <1>1, StepKeepsRaces, Invariance, PTL DEF Spec

(* create_approval: however requests overlap and wherever they fail, a      *)
(* recorded decision that was neither overtaken nor interrupted takes       *)
(* effect: its task is still waiting, and its handler is about to write.    *)
THEOREM RecordsTakeEffect == Spec => []DecisionsAreApplied
<1>1. RaceInv => DecisionsAreApplied
    BY DEF RaceInv
<1> QED
    BY <1>1, Races, PTL

(* create_task: whatever overlaps, a duplicate comes from a creation whose  *)
(* look-up another creation has overtaken, and from nothing else.           *)
THEOREM DuplicatesAreRaces == Spec => []OnlyRacesDuplicate
<1>1. RaceInv => OnlyRacesDuplicate
    BY DEF RaceInv
<1> QED
    BY <1>1, Races, PTL

-----------------------------------------------------------------------------
(* One request at a time                                                    *)
(*                                                                         *)
(* When no two requests are open together, none is overtaken.               *)

OneAtATime == MaxOpen = 1 /\ IsFiniteSet(Threads)

Alone == /\ \A g, h \in Threads : pc[g] # "idle" /\ pc[h] # "idle" => g = h
         /\ overtaken = {}

(* A request is taken when every thread is idle.                            *)
LEMMA ReadyIsAlone ==
    ASSUME OneAtATime, TypeOK, NEW h \in Threads, Ready(h)
    PROVE  \A g \in Threads : pc[g] = "idle"
<1> DEFINE Busy == {g \in Threads : pc[g] # "idle"}
<1>1. IsFiniteSet(Busy)
    BY FS_Subset, Busy \in SUBSET Threads DEF OneAtATime
<1>2. Cardinality(Busy) = 0
  <2>1. Cardinality(Busy) \in Nat
      BY <1>1, FS_CardinalityType
  <2> QED
      BY <2>1 DEF Ready, OneAtATime
<1> QED
    BY <1>1, <1>2, FS_EmptySet

(* During a step of one handler the others are idle, before and after.      *)
LEMMA OthersAreIdle ==
    ASSUME OneAtATime, IInv, Alone, NEW h \in Threads, Handler(h)
    PROVE  \A g \in Threads \ {h} : pc[g] = "idle" /\ pc'[g] = "idle"
<1>1. TypeOK
    BY DEF IInv
<1>2. Ready(h) \/ pc[h] # "idle"
    BY DEF Handler, CreateFind, CreateInsert, CreateOutOfBound, StatusCheck, StatusUpdate,
           DecideCheck, DecideRecord, DecideRecheck, CleanupRead, CleanupDelete,
           Interrupted
<1>3. \A g \in Threads \ {h} : pc[g] = "idle"
    BY <1>1, <1>2, ReadyIsAlone DEF Alone
<1>4. \A g \in Threads \ {h} : pc'[g] = pc[g]
    BY <1>1 DEF TypeOK, Handler, CreateFind, CreateInsert, CreateOutOfBound, StatusCheck,
                StatusUpdate, DecideCheck, DecideRecord, DecideRecheck, CleanupRead,
                CleanupDelete, Interrupted, Answer, args
<1> QED
    BY <1>3, <1>4

(* So nobody is there to be overtaken.                                      *)
LEMMA StaysAlone ==
    ASSUME OneAtATime
    PROVE  IInv /\ Alone /\ [Next]_vars => Alone'
<1> SUFFICES ASSUME IInv, Alone, [Next]_vars PROVE Alone'
    OBVIOUS
<1>1. CASE UNCHANGED vars
    BY <1>1 DEF Alone, vars, history
<1>2. ASSUME NEW h \in Threads, Handler(h) PROVE Alone'
  <2>1. \A g \in Threads \ {h} : pc[g] = "idle" /\ pc'[g] = "idle"
      BY <1>2, OthersAreIdle
  <2>2. ASSUME NEW gs \in SUBSET Threads, EndsOvertaking(h, gs)
        PROVE  overtaken' = {}
      BY <2>1, <2>2 DEF EndsOvertaking, Alone
  <2>3. overtaken' = {}
    <3>1. CASE UNCHANGED overtaken
        BY <3>1 DEF Alone
    <3>2. CASE EndsOvertaking(h, {})
        BY <2>2, <3>2
    <3>3. CASE EndsOvertaking(h, {g \in Threads : wanted[g] = wanted[h]})
        BY <2>2, <3>3
    <3>4. CASE EndsOvertaking(h, {g \in Threads : task[g] = task[h]})
        BY <2>2, <3>4
    <3>5. CASE EndsOvertaking(h, {g \in Threads : task[g] \in delete_ids[h]})
        BY <2>2, <3>5
    <3> QED
        BY <1>2, <3>1, <3>2, <3>3, <3>4, <3>5
        DEF Handler, CreateFind, CreateInsert, CreateOutOfBound, StatusCheck, StatusUpdate,
            DecideCheck, DecideRecord, DecideRecheck, CleanupRead, CleanupDelete,
            Interrupted, history
  <2> QED
      BY <2>1, <2>3 DEF Alone
<1> QED
    BY <1>1, <1>2 DEF Next

LEMMA Order == ASSUME OneAtATime PROVE Spec => []Alone
<1>1. Init => Alone
    BY DEF Init, Alone
<1> QED
    BY <1>1, StaysAlone, Invariance, PTL DEF Spec

-----------------------------------------------------------------------------
(* The whole promise, for one request at a time                             *)

(* A single transition of the table.                                        *)
LEMMA AdvanceStep ==
    ASSUME NEW t \in Tasks, NEW s, <<status[t], s>> \in AllowedTransitions,
           status' = [status EXCEPT ![t] = s], UNCHANGED <<requested_by, approvals>>
    PROVE  Lifecycle!Next
<1>1. <<status[t], s>> \in Lifecycle!Allowed
    BY DEF AllowedTransitions, Lifecycle!Allowed
<1>2. s \in {a[2] : a \in Lifecycle!Allowed}
    BY <1>1
<1>3. Lifecycle!Advance(t)
    BY <1>1, <1>2 DEF Lifecycle!Advance
<1> QED
    BY <1>3 DEF Lifecycle!Next

(* Every step of a handler is a step of the lifecycle, or invisible to it.  *)
LEMMA StepRefines ==
    ASSUME IInv, NEW h \in Threads, Fresh(h), Handler(h)
    PROVE  Lifecycle!Next \/ UNCHANGED Lifecycle!vars
<1>1. TypeOK /\ HandlerArgs
    BY DEF IInv
<1>2. ASSUME NEW t \in Tasks, CreateInsert(h, t) PROVE Lifecycle!Next
  <2>1. person[h] \in People \union {Nobody}
      BY <1>1, <1>2 DEF CreateInsert, HandlerArgs
  <2>2. Lifecycle!Propose(t)
      BY <1>2, <2>1 DEF CreateInsert, Lifecycle!Propose
  <2> QED
      BY <2>2 DEF Lifecycle!Next
<1>3. CASE StatusUpdate(h)
  <2>1. /\ task[h] \in Tasks /\ task[h] \in Live
        /\ <<status[task[h]], to[h]>> \in AllowedTransitions
      BY <1>3 DEF StatusUpdate, Fresh, Live
  <2>2. status' = [status EXCEPT ![task[h]] = to[h]] /\ UNCHANGED <<requested_by, approvals>>
      BY <1>3, <2>1 DEF StatusUpdate, rows
  <2> QED
      BY <2>1, <2>2, AdvanceStep
<1>4. CASE DecideRecord(h)
  <2>1. task[h] \in Tasks /\ status[task[h]] = "pending_approval"
      BY <1>1, <1>4 DEF DecideRecord, Fresh, HandlerArgs, Created
  <2>2. person[h] \in (People \union {Nobody}) \ {requested_by[task[h]]} /\ to[h] \in Decision
      BY <1>1, <1>4 DEF DecideRecord, HandlerArgs
  <2>3. Lifecycle!Decide(task[h])
      BY <1>4, <2>1, <2>2 DEF DecideRecord, Lifecycle!Decide, Decision, rows
  <2> QED
      BY <2>1, <2>3 DEF Lifecycle!Next
<1>5. CASE CleanupDelete(h)
  <2>1. delete_ids[h] \in SUBSET {t \in Tasks : status[t] # "absent"}
      BY <1>1 DEF HandlerArgs, Created
  <2>2. Lifecycle!Remove(delete_ids[h])
      BY <1>5 DEF CleanupDelete, Lifecycle!Remove, rows
  <2> QED
      BY <2>1, <2>2 DEF Lifecycle!Next
<1>6. CASE UNCHANGED <<status, rows, approvals>>
    BY <1>6 DEF Lifecycle!vars, rows
<1> QED
    BY <1>2, <1>3, <1>4, <1>5, <1>6
    DEF Handler, CreateFind, CreateOutOfBound, StatusCheck, DecideCheck, DecideRecheck,
        CleanupRead, Interrupted

(* workflow-service keeps what TaskLifecycle promises when its requests do  *)
(* not overlap: statuses move along the table only, and a decision is       *)
(* recorded by somebody else while the task waits for it.                   *)
THEOREM KeepsLifecycle == ASSUME OneAtATime PROVE Spec => ImplementsLifecycle
<1>1. Init => Lifecycle!Init
    BY DEF Init, Lifecycle!Init
<1>2. IInv /\ RaceInv /\ Alone /\ [Next]_vars => [Lifecycle!Next]_(Lifecycle!vars)
  <2> SUFFICES ASSUME IInv, RaceInv, Alone, [Next]_vars
               PROVE  Lifecycle!Next \/ UNCHANGED Lifecycle!vars
      OBVIOUS
  <2>1. CASE UNCHANGED vars
      BY <2>1 DEF vars, rows, Lifecycle!vars
  <2>2. ASSUME NEW h \in Threads, Handler(h)
        PROVE  Lifecycle!Next \/ UNCHANGED Lifecycle!vars
      BY <2>2, StepRefines DEF RaceInv, Alone
  <2> QED
      BY <2>1, <2>2 DEF Next
<1> QED
    BY <1>1, <1>2, Order, Races, Invariance, PTL DEF Spec, Lifecycle!Spec, ImplementsLifecycle
=============================================================================
