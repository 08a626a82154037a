------------------------------ MODULE Workflow ------------------------------
(***************************************************************************)
(* workflow-service: remediation tasks, their status and the approvals,    *)
(* handled by concurrent request threads over one database.                *)
(*                                                                         *)
(* A repository method opens a connection per query, so "read, check,      *)
(* write" is several actions; POST /tasks/{id}/approve is four.  Between    *)
(* any two of them other requests run, or the request fails.  A thread     *)
(* takes the next request when it has answered one.                        *)
(***************************************************************************)
EXTENDS Integers, FiniteSets

CONSTANTS Tasks,    \* ids a task row can get (bound on the rows created)
          Assets,   \* pairs of asset name and wave
          Actions,  \* recommended_action values; may hold "null" and ""
          People,   \* requesters and approvers
          Threads,  \* request threads
          MaxOpen,  \* bound: how many requests are handled at the same time
          Nobody    \* a task id or a person that was never filled in

ASSUME NobodyAssumption == Nobody \notin Tasks \union People

VARIABLES status,        \* status[t]; "absent" before the INSERT, "deleted" after
          asset, action, \* asset[t], action[t]: what tells tasks apart
          requested_by,  \* requested_by[t]
          created_at,    \* created_at[t]
          clock,
          approvals,     \* rows <<task, approver, decision>>
          pc,            \* pc[h]: where the handler of thread h is
          task,          \* task[h]: the task it is about
          person,        \* person[h]: the requester or approver in its payload
          to,            \* to[h]: the status it asks for, or the decision
          wanted,        \* wanted[h]: <<asset, action>> of a create request
          delete_ids,    \* delete_ids[h]: what cleanup decided to delete
          approved_once, \* history: the tasks that were "approved" some time
          overtaken,     \* history: the threads since whose check another request
                         \* changed what they checked
          unapplied,     \* history: the threads whose decision is on record, was
                         \* not overtaken before, and has no effect so far
          raced          \* history: the tasks created by an overtaken request

rows   == <<asset, action, requested_by, created_at, clock>>
args   == <<task, person, to, wanted, delete_ids>>
history == <<approved_once, overtaken, unapplied, raced>>
vars   == <<status, rows, approvals, pc, args, history>>

TaskStatus == {"draft", "pending_approval", "approved", "rejected",
               "in_progress", "completed"}
Decision   == {"approved", "rejected"}

(* "insert": create_task between find and INSERT; "update": update_task_    *)
(* status between check and UPDATE; "record", "recheck": create_approval    *)
(* before its INSERT and after it; "delete": cleanup after its SELECT.      *)
HandlerPC == {"idle", "insert", "update", "record", "recheck", "delete"}

TypeOK == /\ status \in [Tasks -> TaskStatus \union {"absent", "deleted"}]
          /\ asset \in [Tasks -> Assets \union {Nobody}]
          /\ action \in [Tasks -> Actions \union {Nobody}]
          /\ requested_by \in [Tasks -> People \union {Nobody}]
          /\ created_at \in [Tasks -> Nat]
          /\ clock \in Nat
          /\ approvals \in SUBSET (Tasks \X People \X Decision)
          /\ pc \in [Threads -> HandlerPC]
          /\ task \in [Threads -> Tasks \union {Nobody}]
          /\ person \in [Threads -> People \union {Nobody}]
          /\ to \in [Threads -> TaskStatus \union {Nobody}]
          /\ wanted \in [Threads -> (Assets \union {Nobody}) \X (Actions \union {Nobody})]
          /\ delete_ids \in [Threads -> SUBSET Tasks]
          /\ approved_once \in SUBSET Tasks
          /\ overtaken \in SUBSET Threads
          /\ unapplied \in SUBSET Threads
          /\ raced \in SUBSET Tasks

Init == /\ status = [t \in Tasks |-> "absent"]
        /\ asset = [t \in Tasks |-> Nobody]
        /\ action = [t \in Tasks |-> Nobody]
        /\ requested_by = [t \in Tasks |-> Nobody]
        /\ created_at = [t \in Tasks |-> 0]
        /\ clock = 0
        /\ approvals = {}
        /\ pc = [h \in Threads |-> "idle"]
        /\ task = [h \in Threads |-> Nobody]
        /\ person = [h \in Threads |-> Nobody]
        /\ to = [h \in Threads |-> Nobody]
        /\ wanted = [h \in Threads |-> <<Nobody, Nobody>>]
        /\ delete_ids = [h \in Threads |-> {}]
        /\ approved_once = {}
        /\ overtaken = {}
        /\ unapplied = {}
        /\ raced = {}

Live == {t \in Tasks : status[t] \in TaskStatus}

(* A thread is free to take a request.                                      *)
Ready(h) == /\ pc[h] = "idle"
            /\ Cardinality({g \in Threads : pc[g] # "idle"}) < MaxOpen

(* The request is answered (with whatever status code): the locals go.      *)
Answer(h) == /\ pc' = [pc EXCEPT ![h] = "idle"]
             /\ task' = [task EXCEPT ![h] = Nobody]
             /\ person' = [person EXCEPT ![h] = Nobody]
             /\ to' = [to EXCEPT ![h] = Nobody]
             /\ wanted' = [wanted EXCEPT ![h] = <<Nobody, Nobody>>]
             /\ delete_ids' = [delete_ids EXCEPT ![h] = {}]

(* The history of a step that ends the request of h: those it overtook.     *)
EndsOvertaking(h, gs) ==
    overtaken' = (overtaken \union {g \in gs : pc[g] # "idle"}) \ {h}

(* A decision is over once it had its effect, was overtaken or interrupted. *)
NoLongerWaits(hs) == unapplied' = unapplied \ hs

-----------------------------------------------------------------------------
(* create_task *)

(* _find_existing_task: IS NOT DISTINCT FROM, so null matches null only.    *)
(* Faulty: "=", for which null matches nothing.                             *)
SameBySql(t, a, r) == asset[t] = a /\ action[t] = r /\ r # "null"
SameTask(t, a, r) == asset[t] = a /\ action[t] = r

(* A request whose task exists is answered with it and changes nothing.     *)
CreateFind(h) ==
    /\ Ready(h)
    /\ \E a \in Assets, r \in Actions, p \in People :
          /\ \A t \in Live : ~ SameTask(t, a, r)
          /\ wanted' = [wanted EXCEPT ![h] = <<a, r>>]
          /\ person' = [person EXCEPT ![h] = p]
    /\ pc' = [pc EXCEPT ![h] = "insert"]
    /\ UNCHANGED <<status, rows, approvals, task, to, delete_ids, history>>

CreateInsert(h, t) ==
    /\ pc[h] = "insert"
    /\ status[t] = "absent"
    /\ status' = [status EXCEPT ![t] = "draft"]
    /\ asset' = [asset EXCEPT ![t] = wanted[h][1]]
    /\ action' = [action EXCEPT ![t] = wanted[h][2]]
    /\ requested_by' = [requested_by EXCEPT ![t] = person[h]]
    /\ created_at' = [created_at EXCEPT ![t] = clock]
    /\ clock' = clock + 1
    /\ EndsOvertaking(h, {g \in Threads : wanted[g] = wanted[h]})
    /\ raced' = raced \union {u \in {t} : h \in overtaken}
    /\ Answer(h)
    /\ UNCHANGED <<approvals, approved_once, unapplied>>

(* Bound: no id is left, the INSERT is not explored.                        *)
CreateOutOfBound(h) ==
    /\ pc[h] = "insert"
    /\ \A t \in Tasks : status[t] # "absent"
    /\ EndsOvertaking(h, {})
    /\ Answer(h)
    /\ UNCHANGED <<status, rows, approvals, approved_once, unapplied, raced>>

-----------------------------------------------------------------------------
(* update_task_status: POST /submit and POST /status *)

AllowedTransitions == {<<"draft", "pending_approval">>,
                       <<"pending_approval", "approved">>,
                       <<"pending_approval", "rejected">>,
                       <<"approved", "in_progress">>,
                       <<"rejected", "draft">>,
                       <<"in_progress", "completed">>}

(* Faulty: a draft may be started; a task cannot be rejected.               *)
SkipsApproval(from, s) ==
    <<from, s>> \in AllowedTransitions \union {<<"draft", "in_progress">>}

CannotReject(from, s) ==
    <<from, s>> \in AllowedTransitions \ {<<"pending_approval", "rejected">>}

IsValidStatusTransition(from, s) == <<from, s>> \in AllowedTransitions

(* get_task and the check; 404 and 409 change nothing.                      *)
StatusCheck(h) ==
    /\ Ready(h)
    /\ \E t \in Live, s \in TaskStatus :
          /\ IsValidStatusTransition(status[t], s)
          /\ task' = [task EXCEPT ![h] = t]
          /\ to' = [to EXCEPT ![h] = s]
    /\ pc' = [pc EXCEPT ![h] = "update"]
    /\ UNCHANGED <<status, rows, approvals, person, wanted, delete_ids, history>>

(* UPDATE tasks SET status = ? WHERE id = ?, whatever the status is by now. *)
StatusUpdate(h) ==
    /\ pc[h] = "update"
    /\ IF task[h] \in Live
       THEN /\ status' = [status EXCEPT ![task[h]] = to[h]]
            /\ approved_once' = approved_once \union {t \in {task[h]} : to[h] = "approved"}
            /\ EndsOvertaking(h, {g \in Threads : task[g] = task[h]})
            /\ NoLongerWaits({g \in Threads : task[g] = task[h]})
       ELSE EndsOvertaking(h, {}) /\ UNCHANGED <<status, approved_once, unapplied>>
    /\ Answer(h)
    /\ UNCHANGED <<rows, approvals, raced>>

-----------------------------------------------------------------------------
(* create_approval: POST /tasks/{id}/approve *)

(* Faulty: the requester is compared with nobody.                           *)
AnyApprover(t, p) == TRUE
MayDecide(t, p)   == p # requested_by[t]

(* Faulty: an approved task may be decided again.                           *)
AwaitsAnything(t) == status[t] \in {"pending_approval", "approved"}
AwaitsDecision(t) == status[t] = "pending_approval"

(* ApprovalDecision.decision is a Literal.  Faulty: any status is taken.    *)
AnyStatus(d)  == d \in TaskStatus
IsDecision(d) == d \in Decision

DecideCheck(h) ==
    /\ Ready(h)
    /\ \E t \in Live, p \in People, d \in TaskStatus :
          /\ IsDecision(d)
          /\ AwaitsDecision(t)
          /\ MayDecide(t, p)
          /\ task' = [task EXCEPT ![h] = t]
          /\ person' = [person EXCEPT ![h] = p]
          /\ to' = [to EXCEPT ![h] = d]
    /\ pc' = [pc EXCEPT ![h] = "record"]
    /\ UNCHANGED <<status, rows, approvals, wanted, delete_ids, history>>

DecideRecord(h) ==
    /\ pc[h] = "record"
    /\ approvals' = approvals \union {<<task[h], person[h], to[h]>>}
    /\ unapplied' = unapplied \union ({h} \ overtaken)
    /\ pc' = [pc EXCEPT ![h] = "recheck"]
    /\ UNCHANGED <<status, rows, args, approved_once, overtaken, raced>>

(* update_task_status reads again: the decision proceeds to its UPDATE, or  *)
(* the answer is 409 (status moved) or 200 (task gone) and the record stays.*)
DecideRecheck(h) ==
    /\ pc[h] = "recheck"
    /\ IF task[h] \in Live /\ IsValidStatusTransition(status[task[h]], to[h])
       THEN pc' = [pc EXCEPT ![h] = "update"] /\ UNCHANGED <<args, overtaken>>
       ELSE Answer(h) /\ EndsOvertaking(h, {})
    /\ UNCHANGED <<status, rows, approvals, approved_once, unapplied, raced>>

-----------------------------------------------------------------------------
(* cleanup_duplicate_tasks *)

(* COALESCE(recommended_action, ''): here null and '' are the same.         *)
Coalesce(r) == IF r = "null" THEN "" ELSE r

Duplicates(t, u) == asset[t] = asset[u] /\ Coalesce(action[t]) = Coalesce(action[u])

(* Faulty: every duplicate goes, the newest too.                            *)
IsOther(t, u)  == created_at[t] # created_at[u]
IsOlder(t, u)  == created_at[t] < created_at[u]

(* The SELECT, newest first, and everything seen before goes.               *)
CleanupRead(h) ==
    /\ Ready(h)
    /\ delete_ids' = [delete_ids EXCEPT ![h] =
                        {t \in Live : \E u \in Live : Duplicates(t, u) /\ IsOlder(t, u)}]
    /\ delete_ids'[h] # {}
    /\ pc' = [pc EXCEPT ![h] = "delete"]
    /\ UNCHANGED <<status, rows, approvals, task, person, to, wanted, history>>

(* The DELETEs and the commit.                                              *)
CleanupDelete(h) ==
    /\ pc[h] = "delete"
    /\ status' = [t \in Tasks |-> IF t \in delete_ids[h] THEN "deleted" ELSE status[t]]
    /\ approvals' = {a \in approvals : a[1] \notin delete_ids[h]}
    /\ EndsOvertaking(h, {g \in Threads : task[g] \in delete_ids[h]})
    /\ NoLongerWaits({g \in Threads : task[g] \in delete_ids[h]})
    /\ Answer(h)
    /\ UNCHANGED <<rows, approved_once, raced>>

-----------------------------------------------------------------------------
(* The process dies, or its database fails it, between two commits: what    *)
(* the request committed stays, an open transaction is rolled back, and     *)
(* nothing takes the request up again.                                      *)
Interrupted(h) ==
    /\ pc[h] # "idle"
    /\ EndsOvertaking(h, {})
    /\ NoLongerWaits({h})
    /\ Answer(h)
    /\ UNCHANGED <<status, rows, approvals, approved_once, raced>>

-----------------------------------------------------------------------------
(* The specification *)

Handler(h) == \/ CreateFind(h)
              \/ \E t \in Tasks : CreateInsert(h, t)
              \/ CreateOutOfBound(h)
              \/ StatusCheck(h)
              \/ StatusUpdate(h)
              \/ DecideCheck(h)
              \/ DecideRecord(h)
              \/ DecideRecheck(h)
              \/ CleanupRead(h)
              \/ CleanupDelete(h)
              \/ Interrupted(h)

Next == \E h \in Threads : Handler(h)

Spec == Init /\ [][Next]_vars

-----------------------------------------------------------------------------
(* Whatever requests overlap *)

(* workflow-service/README.md:38-39: no approval is by the task's requester. *)
SegregationOfDuties ==
    \A a \in approvals : a[2] # requested_by[a[1]]

(* A task that is worked on, or was completed, has been approved before,    *)
(* even if a late write moved its status in between.                        *)
WorkWasApproved ==
    \A t \in Tasks : status[t] \in {"in_progress", "completed"} => t \in approved_once

(* However many clean-ups and creations overlap, a clean-up never deletes   *)
(* the last task of its kind.                                               *)
OneIsKept ==
    \A t \in Tasks : status[t] = "deleted" => \E u \in Live : Duplicates(t, u)

(* create_approval commits the record before it checks the task again: a    *)
(* decision on record that has had no effect is one whose request was       *)
(* interrupted, or whose task another request changed since its check; any  *)
(* other is still being applied, and finds its task waiting for it.         *)
DecisionsAreApplied ==
    \A h \in unapplied : /\ pc[h] \in {"recheck", "update"}
                         /\ <<task[h], person[h], to[h]>> \in approvals
                         /\ status[task[h]] = "pending_approval"

(* create_task finds before it inserts, and no constraint backs it: two     *)
(* live tasks of one asset, wave and action are the work of two requests    *)
(* of which one looked before the other inserted, never of a repetition.    *)
OnlyRacesDuplicate ==
    \A t, u \in Live : asset[t] = asset[u] /\ action[t] = action[u] =>
                          t = u \/ t \in raced \/ u \in raced

(* What the locals of a handler still guarantee about the task when another *)
(* handler has run since they were read: the inductive invariant.           *)
Created(t) == t \in Tasks /\ status[t] # "absent"

HandlerArgs ==
    \A h \in Threads :
        /\ pc[h] = "insert" => person[h] \in People
        /\ pc[h] \in {"update", "record", "recheck"} => Created(task[h])
        /\ pc[h] \in {"record", "recheck"} =>
              person[h] \in People \ {requested_by[task[h]]} /\ to[h] \in Decision
        /\ pc[h] = "update" =>
              /\ to[h] \in TaskStatus
              /\ to[h] \in {"in_progress", "completed"} => task[h] \in approved_once
        /\ \A t \in delete_ids[h] : Created(t)

ApprovedIsRemembered ==
    \A t \in Tasks :
        status[t] \in {"approved", "in_progress", "completed"} => t \in approved_once

ApprovalsOfTasks == \A a \in approvals : Created(a[1])

IInv == /\ TypeOK
        /\ HandlerArgs
        /\ ApprovedIsRemembered
        /\ ApprovalsOfTasks
        /\ SegregationOfDuties

-----------------------------------------------------------------------------
(* When requests do not overlap *)

(* repository.py:162-163: a status changes along the table only.            *)
OnlyAllowedTransitions ==
    [][\A t \in Live : status'[t] \in {status[t], "deleted"}
                         \/ <<status[t], status'[t]>> \in AllowedTransitions]_vars

(* The whole promise.                                                       *)
Lifecycle == INSTANCE TaskLifecycle WITH
    state     <- status,
    owner     <- requested_by,
    decisions <- approvals,
    People    <- People \union {Nobody}

ImplementsLifecycle == Lifecycle!Spec

-----------------------------------------------------------------------------
(* docs/product-v1-acceptance-checklist.md:28-29: a task that is approved   *)
(* has a recorded approval.                                                 *)
ApprovedOnRecord ==
    \A t \in Tasks : status[t] = "approved" => \E p \in People : <<t, p, "approved">> \in approvals
=============================================================================
