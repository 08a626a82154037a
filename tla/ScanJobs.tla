------------------------------ MODULE ScanJobs ------------------------------
(***************************************************************************)
(* The scan-job queue of api-gateway: scan_jobs.py (the table), worker.py  *)
(* and main.run_scan_job (the worker processes), main.cancel_scan_job (the *)
(* API), and the inventory's /scans/ingest as the worker sees it.          *)
(*                                                                         *)
(* One action is one database transaction or one message.  The repository  *)
(* opens a connection per method, so a method that reads (get_job) and     *)
(* then updates is two actions and other processes run between them.       *)
(***************************************************************************)
EXTENDS Integers, FiniteSets

CONSTANTS Jobs,        \* identities of scan jobs
          Workers,     \* worker processes
          Cancels,     \* POST /cancel requests, each handled once
          MaxRetries,  \* SCAN_JOB_MAX_RETRIES
          ClaimBatch,  \* the LIMIT of claim_next_queued_job (10 in the code)
          MaxCrashes,  \* bound: how many times a worker process dies
          MaxLost,     \* bound: how many replies are lost or time out
          NoJob        \* what a process that holds no job points at

ASSUME RetriesAssumption == MaxRetries \in Nat
ASSUME BatchAssumption   == ClaimBatch \in Nat \ {0}
ASSUME BoundsAssumption  == MaxCrashes \in Nat /\ MaxLost \in Nat
ASSUME NoJobAssumption   == NoJob \notin Jobs

VARIABLES status,       \* status[j], retry_count[j], created_at[j]: the
          retry_count,  \* columns of the scan_jobs row that are read back
          created_at,
          clock,        \* source of created_at
          pc,           \* pc[w]: where run_forever of worker w is
          batch,        \* batch[w]: the ids it read and has not tried to claim
          mine,         \* mine[w]: the job it runs
          try,          \* try[w]: which try of that job (for the audit event)
          new_count,    \* new_count[w]: new_retry_count, computed from get_job
          cancel_pc,    \* cancel_pc[c]: where cancel_scan_job is
          target,       \* target[c]: the job it cancels
          request,      \* request[j][n]: the n-th try's POST /scans/ingest
          audit,        \* scan.ingest events: <<job, try, result>>
          attempts,     \* history: how many times the job was claimed
          crashes, lost

rows    == <<status, retry_count, created_at>>
locals  == <<pc, batch, mine, try, new_count>>
cancels == <<cancel_pc, target>>
bounds  == <<crashes, lost>>

vars == <<rows, clock, locals, cancels, request, audit, attempts, bounds>>

-----------------------------------------------------------------------------
(* State.  started_at, finished_at, result_summary and logs are written in  *)
(* the same UPDATEs as the status and never read back: they are left out.   *)

Tries == 1 .. MaxRetries + 1

Status   == {"absent", "queued", "running", "succeeded", "failed", "cancelled"}
Terminal == {"succeeded", "failed", "cancelled"}

(* "claim": walking the batch it read; "run": before the request; "wait":   *)
(* for the reply; "finish", "fail", "record": the transactions after it;    *)
(* "audit_success", "audit_failure": the audit write.                       *)
WorkerPC == {"poll", "claim", "run", "wait", "finish", "fail", "record",
             "audit_success", "audit_failure"}

(* "update" is between the status check and the UPDATE of cancel_job.       *)
CancelPC == {"idle", "update", "reply", "ok", "conflict"}

(* "saved": the scan row is committed, the reply is not sent yet; "broken": *)
(* committed, then a later step of the handler failed.                      *)
RequestState == {"none", "sent", "saved", "created", "rejected", "broken"}
Saved        == {"saved", "created", "broken"}

TypeOK == /\ status \in [Jobs -> Status]
          /\ retry_count \in [Jobs -> 0 .. MaxRetries + 1]
          /\ created_at \in [Jobs -> Nat]
          /\ clock \in Nat
          /\ pc \in [Workers -> WorkerPC]
          /\ batch \in [Workers -> SUBSET Jobs]
          /\ mine \in [Workers -> Jobs \union {NoJob}]
          /\ try \in [Workers -> 0 .. MaxRetries + 1]
          /\ new_count \in [Workers -> 0 .. MaxRetries + 2]
          /\ cancel_pc \in [Cancels -> CancelPC]
          /\ target \in [Cancels -> Jobs \union {NoJob}]
          /\ request \in [Jobs -> [Tries -> RequestState]]
          /\ audit \in SUBSET (Jobs \X Tries \X {"success", "failure"})
          /\ attempts \in [Jobs -> 0 .. MaxRetries + 1]
          /\ crashes \in 0 .. MaxCrashes
          /\ lost \in 0 .. MaxLost

Init == /\ status = [j \in Jobs |-> "absent"]
        /\ retry_count = [j \in Jobs |-> 0]
        /\ created_at = [j \in Jobs |-> 0]
        /\ clock = 0
        /\ pc = [w \in Workers |-> "poll"]
        /\ batch = [w \in Workers |-> {}]
        /\ mine = [w \in Workers |-> NoJob]
        /\ try = [w \in Workers |-> 0]
        /\ new_count = [w \in Workers |-> 0]
        /\ cancel_pc = [c \in Cancels |-> "idle"]
        /\ target = [c \in Cancels |-> NoJob]
        /\ request = [j \in Jobs |-> [n \in Tries |-> "none"]]
        /\ audit = {}
        /\ attempts = [j \in Jobs |-> 0]
        /\ crashes = 0
        /\ lost = 0

Queued == {j \in Jobs : status[j] = "queued"}

SetStatus(j, s) == status' = [status EXCEPT ![j] = s]

-----------------------------------------------------------------------------
(* The API *)

(* POST /api/scan-jobs: the row, and then its scan_job.create event, which  *)
(* nothing in this module reads.                                            *)
Submit(j) ==
    /\ status[j] = "absent"
    /\ SetStatus(j, "queued")
    /\ created_at' = [created_at EXCEPT ![j] = clock]
    /\ clock' = clock + 1
    /\ UNCHANGED <<retry_count, locals, cancels, request, audit, attempts, bounds>>

(* cancel_job's first transaction: get_job and the early return.            *)
CancelCheck(c) ==
    /\ cancel_pc[c] = "idle"
    /\ \E j \in Jobs :
          /\ status[j] # "absent"
          /\ target' = [target EXCEPT ![c] = j]
          /\ cancel_pc' = [cancel_pc EXCEPT ![c] =
                IF status[j] \in {"queued", "running"} THEN "update" ELSE "conflict"]
    /\ UNCHANGED <<rows, clock, locals, request, audit, attempts, bounds>>

(* cancel_job's second transaction: the UPDATE names the id alone.          *)
CancelUpdate(c) ==
    /\ cancel_pc[c] = "update"
    /\ SetStatus(target[c], "cancelled")
    /\ cancel_pc' = [cancel_pc EXCEPT ![c] = "reply"]
    /\ UNCHANGED <<retry_count, created_at, clock, locals, target, request, audit,
                   attempts, bounds>>

(* The last get_job, the scan_job.cancel event and the 200.                 *)
CancelReply(c) ==
    /\ cancel_pc[c] = "reply"
    /\ cancel_pc' = [cancel_pc EXCEPT ![c] = "ok"]
    /\ UNCHANGED <<rows, clock, locals, target, request, audit, attempts, bounds>>

-----------------------------------------------------------------------------
(* A worker *)

Goto(w, l) == /\ pc' = [pc EXCEPT ![w] = l]
              /\ UNCHANGED <<batch, mine, try, new_count>>

(* Back to the top of run_forever: the locals are gone.                     *)
BackToPoll(w) == /\ pc' = [pc EXCEPT ![w] = "poll"]
                 /\ batch' = [batch EXCEPT ![w] = {}]
                 /\ mine' = [mine EXCEPT ![w] = NoJob]
                 /\ try' = [try EXCEPT ![w] = 0]
                 /\ new_count' = [new_count EXCEPT ![w] = 0]

(* The ClaimBatch oldest queued jobs, read in a transaction of its own.     *)
OldestQueued ==
    {j \in Queued :
        Cardinality({k \in Queued : created_at[k] < created_at[j]}) < ClaimBatch}

Sleep(w) ==
    /\ pc[w] = "poll"
    /\ Queued = {}
    /\ UNCHANGED vars

Poll(w) ==
    /\ pc[w] = "poll"
    /\ Queued # {}
    /\ pc' = [pc EXCEPT ![w] = "claim"]
    /\ batch' = [batch EXCEPT ![w] = OldestQueued]
    /\ UNCHANGED <<rows, clock, mine, try, new_count, cancels, request, audit,
                   attempts, bounds>>

NextInBatch(w) == {j \in batch[w] : \A k \in batch[w] : created_at[j] <= created_at[k]}

(* mark_running: UPDATE ... WHERE status = 'queued'.  The reads after it    *)
(* (get_job, the creator's role, get_job_input) see columns that never      *)
(* change and decide nothing: a job cancelled in between is still run.      *)
(* Faulty: the UPDATE names the id alone.                                   *)
MayStartAny(j) == status[j] \in {"queued", "running"}
MayStart(j)    == status[j] = "queued"

TakeUp(w, j) == /\ attempts' = [attempts EXCEPT ![j] = @ + 1]
                /\ pc' = [pc EXCEPT ![w] = "run"]
                /\ batch' = [batch EXCEPT ![w] = {}]
                /\ mine' = [mine EXCEPT ![w] = j]
                /\ try' = [try EXCEPT ![w] = attempts[j] + 1]

(* Faulty: the boolean that mark_running returns is ignored.                *)
ClaimAnyway(w, j) ==
    /\ pc[w] = "claim"
    /\ j \in NextInBatch(w)
    /\ IF MayStart(j) THEN SetStatus(j, "running") ELSE UNCHANGED status
    /\ TakeUp(w, j)
    /\ UNCHANGED <<retry_count, created_at, clock, new_count, cancels, request,
                   audit, bounds>>

Claim(w, j) ==
    /\ pc[w] = "claim"
    /\ j \in NextInBatch(w)
    /\ MayStart(j)
    /\ SetStatus(j, "running")
    /\ TakeUp(w, j)
    /\ UNCHANGED <<retry_count, created_at, clock, new_count, cancels, request,
                   audit, bounds>>

Skip(w, j) ==
    /\ pc[w] = "claim"
    /\ j \in NextInBatch(w)
    /\ ~ MayStart(j)
    /\ batch' = [batch EXCEPT ![w] = @ \ {j}]
    /\ pc' = [pc EXCEPT ![w] = IF batch[w] = {j} THEN "poll" ELSE "claim"]
    /\ UNCHANGED <<rows, clock, mine, try, new_count, cancels, request, audit,
                   attempts, bounds>>

(* _enforce_scan_scope raises 403, or the connection is refused (502): the  *)
(* try fails and the inventory hears nothing.                               *)
Refused(w) ==
    /\ pc[w] = "run"
    /\ Goto(w, "fail")
    /\ UNCHANGED <<rows, clock, cancels, request, audit, attempts, bounds>>

SetRequest(j, n, state) == request' = [request EXCEPT ![j][n] = state]

Send(w) ==
    /\ pc[w] = "run"
    /\ SetRequest(mine[w], try[w], "sent")
    /\ Goto(w, "wait")
    /\ UNCHANGED <<rows, clock, cancels, audit, attempts, bounds>>

(* 201 leads to mark_finished, any error status to HTTPException.  Faulty:  *)
(* any answer counts as success.                                            *)
ReplyTo(w)   == request[mine[w]][try[w]]
AnyAnswer(w) == ReplyTo(w) \in {"created", "rejected", "broken"}
IsSuccess(w) == ReplyTo(w) = "created"

Receive(w) ==
    /\ pc[w] = "wait"
    /\ \/ IsSuccess(w) /\ Goto(w, "finish")
       \/ ReplyTo(w) \in {"rejected", "broken"} /\ Goto(w, "fail")
    /\ UNCHANGED <<rows, clock, cancels, request, audit, attempts, bounds>>

(* Faulty: the timeout is turned into an HTTPException and retried, though  *)
(* the inventory may yet answer.                                            *)
RetryLostReply(w) ==
    /\ pc[w] = "wait"
    /\ lost < MaxLost
    /\ lost' = lost + 1
    /\ Goto(w, "fail")
    /\ UNCHANGED <<rows, clock, cancels, request, audit, attempts, crashes>>

(* The 10 s read timeout or a dropped connection: _request_json does not    *)
(* convert it, run_scan_job does not catch it, and run_forever's            *)
(* "except Exception" logs it and polls again.  The inventory goes on.      *)
LoseReply(w) ==
    /\ pc[w] = "wait"
    /\ lost < MaxLost
    /\ lost' = lost + 1
    /\ BackToPoll(w)
    /\ UNCHANGED <<rows, clock, cancels, request, audit, attempts, crashes>>

(* Both UPDATEs that end a try carry AND status = 'running': nothing        *)
(* happens to a row that is no longer running.  Faulty: they do not.        *)
StillKnown(j)   == status[j] # "absent"
StillRunning(j) == status[j] = "running"

(* mark_finished *)
Finish(w) ==
    /\ pc[w] = "finish"
    /\ IF StillRunning(mine[w]) THEN SetStatus(mine[w], "succeeded")
                                ELSE UNCHANGED status
    /\ Goto(w, "audit_success")
    /\ UNCHANGED <<retry_count, created_at, clock, cancels, request, audit,
                   attempts, bounds>>

(* record_failure_and_maybe_retry, first transaction: get_job.              *)
ReadFailure(w) ==
    /\ pc[w] = "fail"
    /\ pc' = [pc EXCEPT ![w] = "record"]
    /\ new_count' = [new_count EXCEPT ![w] = retry_count[mine[w]] + 1]
    /\ UNCHANGED <<rows, clock, batch, mine, try, cancels, request, audit,
                   attempts, bounds>>

(* Its second transaction: back to the queue, or given up.  Faulty: one try *)
(* too many; a requeued row that stays running.                             *)
MayRetryOnce(count)   == count <= MaxRetries + 1
MayRetry(count)       == count <= MaxRetries
StatusStays(count)    == IF MayRetry(count) THEN "running" ELSE "failed"
StatusAfterTry(count) == IF MayRetry(count) THEN "queued" ELSE "failed"

RecordFailure(w) ==
    /\ pc[w] = "record"
    /\ IF StillRunning(mine[w])
       THEN /\ SetStatus(mine[w], StatusAfterTry(new_count[w]))
            /\ retry_count' = [retry_count EXCEPT ![mine[w]] = new_count[w]]
       ELSE UNCHANGED <<status, retry_count>>
    /\ Goto(w, "audit_failure")
    /\ UNCHANGED <<created_at, clock, cancels, request, audit, attempts, bounds>>

(* audit_repository.record, after the job row was already committed.        *)
Audit(w) ==
    /\ \/ pc[w] = "audit_success" /\ audit' = audit \union {<<mine[w], try[w], "success">>}
       \/ pc[w] = "audit_failure" /\ audit' = audit \union {<<mine[w], try[w], "failure">>}
    /\ BackToPoll(w)
    /\ UNCHANGED <<rows, clock, cancels, request, attempts, bounds>>

(* The container dies and a new process starts polling.                     *)
Crash(w) ==
    /\ pc[w] # "poll"
    /\ crashes < MaxCrashes
    /\ crashes' = crashes + 1
    /\ BackToPoll(w)
    /\ UNCHANGED <<rows, clock, cancels, request, audit, attempts, lost>>

-----------------------------------------------------------------------------
(* The inventory, one POST /scans/ingest at a time.  It knows nothing of    *)
(* jobs: a retried try is a new scan to it.                                 *)

InventoryStep(j, n, from, to) ==
    /\ request[j][n] = from
    /\ SetRequest(j, n, to)
    /\ UNCHANGED <<rows, clock, locals, cancels, audit, attempts, bounds>>

(* 404 workspace not found, 422 on the evidence: nothing was written.       *)
Reject(j, n) == InventoryStep(j, n, "sent", "rejected")

(* create_scan commits before the assets and the risk results.              *)
Save(j, n) == InventoryStep(j, n, "sent", "saved")

Reply(j, n) == InventoryStep(j, n, "saved", "created")

(* risk_client.score or a later insert raises: a 500, the scan row stays.   *)
Break(j, n) == InventoryStep(j, n, "saved", "broken")

-----------------------------------------------------------------------------
(* The specification *)

ApiStep == \/ \E j \in Jobs : Submit(j)
           \/ \E c \in Cancels : CancelCheck(c) \/ CancelUpdate(c) \/ CancelReply(c)

WorkerStep(w) == \/ Sleep(w)
                 \/ Poll(w)
                 \/ \E j \in Jobs : Claim(w, j) \/ Skip(w, j)
                 \/ Refused(w)
                 \/ Send(w)
                 \/ Receive(w)
                 \/ Finish(w)
                 \/ ReadFailure(w)
                 \/ RecordFailure(w)
                 \/ Audit(w)

Inventory(j, n) == Reject(j, n) \/ Save(j, n) \/ Reply(j, n) \/ Break(j, n)

Next == \/ ApiStep
        \/ \E w \in Workers : WorkerStep(w) \/ LoseReply(w) \/ Crash(w)
        \/ \E j \in Jobs, n \in Tries : Inventory(j, n)

(* The worker loop and the inventory keep running; nobody has to submit or  *)
(* cancel anything, and nothing has to crash.                               *)
Fairness == /\ \A w \in Workers : WF_vars(WorkerStep(w))
            /\ \A j \in Jobs, n \in Tries : WF_vars(Inventory(j, n))

Spec     == Init /\ [][Next]_vars
FairSpec == Spec /\ Fairness

-----------------------------------------------------------------------------
(* Safety *)

(* The worker w is still answerable for the outcome of its job.             *)
Owning == {"run", "wait", "finish", "fail", "record"}
Holds(w, j) == pc[w] \in Owning /\ mine[w] = j

(* scan_jobs.py:220-223: several workers never process the same job at the  *)
(* same time, and a job that is waiting in the queue is in nobody's hands.  *)
SingleHolder ==
    /\ \A v, w \in Workers, j \in Jobs : Holds(v, j) /\ Holds(w, j) => v = w
    /\ \A w \in Workers, j \in Queued : ~ Holds(w, j)

(* scan_jobs.py:234-257: retry_count is the number of failed tries whatever *)
(* raced with it, so a job is tried at most MaxRetries + 1 times.           *)
RetryBudget ==
    \A j \in Jobs :
        /\ status[j] = "queued" => attempts[j] = retry_count[j] /\ attempts[j] <= MaxRetries
        /\ status[j] \in {"running", "succeeded"} => attempts[j] = retry_count[j] + 1
        /\ status[j] = "failed" => attempts[j] = MaxRetries + 1
        /\ attempts[j] <= MaxRetries + 1

(* A job reads "succeeded" only when the inventory acknowledged one of its  *)
(* tries, and "failed" only when it acknowledged none.                      *)
OutcomeIsReal ==
    \A j \in Jobs :
        /\ status[j] = "succeeded" => \E n \in Tries : request[j][n] = "created"
        /\ status[j] = "failed" => \A n \in Tries : request[j][n] # "created"

(* The inventory answers 201 to at most one try of a job: a job whose reply *)
(* was lost stays running for ever instead of being ingested again.         *)
AtMostOneCreated ==
    \A j \in Jobs, m, n \in Tries :
        request[j][m] = "created" /\ request[j][n] = "created" => m = n

(* The audit trail says "success" exactly of tries the inventory answered   *)
(* with 201, and no try is audited both ways.                               *)
AuditIsTruthful ==
    \A e \in audit : (e[3] = "success") <=> (request[e[1]][e[2]] = "created")

(* A client that was told 200 by /cancel never sees the job in another      *)
(* state, whatever the worker was doing (scan_jobs.py:259-272).             *)
CancelHolds ==
    \A c \in Cancels :
        cancel_pc[c] \in {"reply", "ok"} => status[target[c]] = "cancelled"

(* How the pieces of state hang together between the transactions: what a   *)
(* worker may assume of its job's row, and what each try left behind.       *)
HeldJob ==
    \A w \in Workers :
        pc[w] \in Owning =>
            /\ mine[w] \in Jobs
            /\ try[w] \in Tries
            /\ try[w] = attempts[mine[w]]
            /\ status[mine[w]] \in {"running", "cancelled"}

(* The count read by get_job is still right when it is written, unless the  *)
(* job was cancelled meanwhile (and then it is not written).                *)
CountIsFresh ==
    \A w \in Workers :
        pc[w] = "record" /\ status[mine[w]] = "running"
            => new_count[w] = retry_count[mine[w]] + 1

AbsentIsNew ==
    \A j \in Jobs : status[j] = "absent" => attempts[j] = 0 /\ retry_count[j] = 0

CancelTarget ==
    \A c \in Cancels :
        cancel_pc[c] # "idle" => /\ target[c] \in Jobs
                                 /\ status[target[c]] # "absent"

(* A try that is over without a 201: no later answer can change that.       *)
Closed(j, n) == request[j][n] \in {"none", "rejected", "broken"}

TriesInOrder ==
    \A j \in Jobs, n \in Tries :
        /\ n > attempts[j] => request[j][n] = "none"
        /\ n < attempts[j] => Closed(j, n)
        /\ n = attempts[j] /\ status[j] \in {"queued", "failed"} => Closed(j, n)
        /\ n = attempts[j] /\ status[j] = "succeeded" => request[j][n] = "created"

ReplyInHand ==
    \A w \in Workers :
        /\ pc[w] = "run" => ReplyTo(w) = "none"
        /\ pc[w] \in {"fail", "record", "audit_failure"} =>
              Closed(mine[w], try[w])
        /\ pc[w] \in {"finish", "audit_success"} => ReplyTo(w) = "created"

(* A try is audited after its worker let go of the job.                     *)
Auditing == {"audit_success", "audit_failure"}

AuditFollows ==
    /\ \A w \in Workers :
          pc[w] \in Auditing => /\ mine[w] \in Jobs
                                /\ try[w] \in 1 .. attempts[mine[w]]
    /\ \A e \in audit :
          /\ e[2] <= attempts[e[1]]
          /\ IF e[3] = "success" THEN request[e[1]][e[2]] = "created"
                                 ELSE Closed(e[1], e[2])
    /\ \A w \in Workers : pc[w] \in Owning =>
          /\ \A v \in Workers : pc[v] \in Auditing =>
                <<mine[v], try[v]>> # <<mine[w], try[w]>>
          /\ \A e \in audit : <<e[1], e[2]>> # <<mine[w], try[w]>>

(* The inductive invariants of the proofs: who holds what, and, on top of   *)
(* it, what the inventory answered.                                         *)
OwnershipInv == /\ TypeOK
                /\ SingleHolder
                /\ HeldJob
                /\ RetryBudget
                /\ CountIsFresh
                /\ AbsentIsNew
                /\ CancelTarget
                /\ CancelHolds

IInv == OwnershipInv /\ TriesInOrder /\ ReplyInHand /\ AuditFollows

-----------------------------------------------------------------------------
(* Action properties *)

(* scan_jobs.py:21: cancelling is reliable for a job no worker runs: from   *)
(* then on no worker takes it and no request for it reaches the inventory.  *)
Unheld(j) == \A w \in Workers : ~ Holds(w, j)

NothingSent(j) ==
    \A n \in Tries : request[j][n] = "none" => request'[j][n] = "none"

CancelIsReliable ==
    [][\A j \in Jobs : status[j] = "cancelled" /\ Unheld(j)
                          => Unheld(j)' /\ NothingSent(j)]_vars

(* The stale read of record_failure_and_maybe_retry never undoes a decision *)
(* taken after it: a finished or cancelled job does not run again.          *)
NeverRevived ==
    [][\A j \in Jobs : status[j] \in Terminal => status'[j] \in Terminal]_vars

(* scan_jobs.py:260-261: a terminal job cannot be cancelled.                *)
TerminalIsFinal ==
    [][\A j \in Jobs : status[j] \in Terminal => status'[j] = status[j]]_vars

-----------------------------------------------------------------------------
(* Liveness *)

(* Every queued job reaches an outcome, although a failing job goes back to *)
(* the head of the queue and other workers keep claiming.                   *)
QueuedSettles == \A j \in Jobs : status[j] = "queued" ~> status[j] \in Terminal

(* Every claimed try is accounted for in the audit trail.                   *)
Audited(j, n) == \E result \in {"success", "failure"} : <<j, n, result>> \in audit

TriesAreAudited == \A j \in Jobs, n \in Tries : (attempts[j] >= n) ~> Audited(j, n)

(* Every job is settled and every try of it audited (run_scan_job).         *)
JobsSettle == QueuedSettles /\ TriesAreAudited

(* worker.py:47-51: the worker's catch-all is never left with a downstream  *)
(* failure, so a running job does not stay running.                         *)
RunningSettles == \A j \in Jobs : status[j] = "running" ~> status[j] # "running"

-----------------------------------------------------------------------------
(* What a job goes through, seen from outside *)

Lifecycle == INSTANCE JobLifecycle WITH
    phase     <- status,
    tries     <- attempts,
    delivered <- [j \in Jobs |-> \E n \in Tries : request[j][n] \in Saved]

ImplementsLifecycle == Lifecycle!Spec
=============================================================================
