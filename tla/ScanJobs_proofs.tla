--------------------------- MODULE ScanJobs_proofs --------------------------
(***************************************************************************)
(* What holds of the scan-job queue for any number of jobs, workers,       *)
(* cancel requests, retries, crashes and lost replies.                     *)
(*                                                                         *)
(* The argument is the inductive invariant IInv of ScanJobs.tla: who holds *)
(* which job (OwnershipInv) and what each try left behind in the inventory *)
(* and in the audit trail.  First one lemma per action, saying that it     *)
(* keeps IInv; then the induction; then what follows in each state, for    *)
(* each step, and for the refinement of JobLifecycle.                      *)
(***************************************************************************)
EXTENDS ScanJobs, TLAPS

(* A new row is in nobody's hands and was never tried.                      *)
LEMMA SubmitKeeps ==
    ASSUME IInv, NEW j \in Jobs, Submit(j)
    PROVE  IInv'
<1>0. /\ TypeOK /\ SingleHolder /\ HeldJob /\ RetryBudget
      /\ CountIsFresh /\ AbsentIsNew /\ CancelTarget /\ CancelHolds
      /\ TriesInOrder /\ ReplyInHand /\ AuditFollows
    BY DEF IInv, OwnershipInv
<1>1. TypeOK'
    BY <1>0, RetriesAssumption
    DEF Submit, TypeOK, SetStatus, Status, WorkerPC, CancelPC,
        RequestState, Queued, locals, cancels, bounds
<1>2. SingleHolder'
    BY <1>0
    DEF Submit, SingleHolder, TypeOK, HeldJob, SetStatus, Holds, Queued,
        locals, cancels, bounds
<1>3. HeldJob'
    BY <1>0, RetriesAssumption
    DEF Submit, HeldJob, TypeOK, SetStatus, locals, cancels, bounds
<1>4. RetryBudget'
    BY <1>0, RetriesAssumption
    DEF Submit, RetryBudget, TypeOK, AbsentIsNew, SetStatus, locals,
        cancels, bounds
<1>5. CountIsFresh'
    BY <1>0
    DEF Submit, CountIsFresh, TypeOK, SetStatus, locals, cancels, bounds
<1>6. AbsentIsNew'
    BY <1>0
    DEF Submit, AbsentIsNew, TypeOK, SetStatus, locals, cancels, bounds
<1>7. CancelTarget'
    BY <1>0
    DEF Submit, CancelTarget, TypeOK, SetStatus, locals, cancels, bounds
<1>8. CancelHolds'
    BY <1>0
    DEF Submit, CancelHolds, TypeOK, SetStatus, locals, cancels, bounds
<1>9. TriesInOrder'
    BY <1>0, RetriesAssumption
    DEF Submit, TriesInOrder, TypeOK, AbsentIsNew, SetStatus, Closed,
        Tries, ReplyTo, locals, cancels, bounds
<1>10. (ReplyInHand /\ AuditFollows)'
    BY <1>0
    DEF Submit, ReplyInHand, AuditFollows, SetStatus, locals, cancels,
        bounds, Closed, ReplyTo, Auditing
<1> QED
    BY <1>1, <1>2, <1>3, <1>4, <1>5, <1>6, <1>7, <1>8, <1>9, <1>10 DEF IInv, OwnershipInv

(* The first half of cancel_job reads, and remembers an existing job.       *)
LEMMA CancelCheckKeeps ==
    ASSUME IInv, NEW c \in Cancels, CancelCheck(c)
    PROVE  IInv'
<1>0. /\ TypeOK /\ SingleHolder /\ HeldJob /\ RetryBudget
      /\ CountIsFresh /\ AbsentIsNew /\ CancelTarget /\ CancelHolds
      /\ TriesInOrder /\ ReplyInHand /\ AuditFollows
    BY DEF IInv, OwnershipInv
<1>1. TypeOK'
    BY <1>0, RetriesAssumption
    DEF CancelCheck, TypeOK, Status, WorkerPC, CancelPC, RequestState,
        Queued, rows, locals, bounds
<1>2. CancelTarget'
    BY <1>0
    DEF CancelCheck, CancelTarget, TypeOK, rows, locals, bounds
<1>3. CancelHolds'
    BY <1>0
    DEF CancelCheck, CancelHolds, TypeOK, rows, locals, bounds
<1>4. (SingleHolder /\ HeldJob /\ RetryBudget /\ CountIsFresh /\ AbsentIsNew
      /\ TriesInOrder /\ ReplyInHand /\ AuditFollows)'
    BY <1>0
    DEF CancelCheck, SingleHolder, HeldJob, RetryBudget, CountIsFresh,
        AbsentIsNew, TriesInOrder, ReplyInHand, AuditFollows, rows,
        locals, bounds, Holds, Queued, Closed, ReplyTo, Auditing
<1> QED
    BY <1>1, <1>2, <1>3, <1>4 DEF IInv, OwnershipInv

(* The second half overwrites the status; no worker relies on "running"     *)
(* alone, which is why HeldJob allows "cancelled".                          *)
LEMMA CancelUpdateKeeps ==
    ASSUME IInv, NEW c \in Cancels, CancelUpdate(c)
    PROVE  IInv'
<1>0. /\ TypeOK /\ SingleHolder /\ HeldJob /\ RetryBudget
      /\ CountIsFresh /\ AbsentIsNew /\ CancelTarget /\ CancelHolds
      /\ TriesInOrder /\ ReplyInHand /\ AuditFollows
    BY DEF IInv, OwnershipInv
<1>1. TypeOK'
    BY <1>0, RetriesAssumption
    DEF CancelUpdate, TypeOK, SetStatus, Status, WorkerPC, CancelPC,
        RequestState, Queued, locals, bounds
<1>2. SingleHolder'
    BY <1>0
    DEF CancelUpdate, SingleHolder, TypeOK, SetStatus, Holds, Queued,
        locals, bounds
<1>3. HeldJob'
    BY <1>0, RetriesAssumption
    DEF CancelUpdate, HeldJob, TypeOK, SetStatus, locals, bounds
<1>4. RetryBudget'
    BY <1>0, RetriesAssumption
    DEF CancelUpdate, RetryBudget, TypeOK, SetStatus, locals, bounds
<1>5. CountIsFresh'
    BY <1>0
    DEF CancelUpdate, CountIsFresh, TypeOK, SetStatus, locals, bounds
<1>6. AbsentIsNew'
    BY <1>0
    DEF CancelUpdate, AbsentIsNew, TypeOK, SetStatus, locals, bounds
<1>7. CancelTarget'
    BY <1>0
    DEF CancelUpdate, CancelTarget, TypeOK, SetStatus, locals, bounds
<1>8. CancelHolds'
    BY <1>0
    DEF CancelUpdate, CancelHolds, TypeOK, CancelTarget, SetStatus,
        locals, bounds
<1>9. TriesInOrder'
    BY <1>0, RetriesAssumption
    DEF CancelUpdate, TriesInOrder, TypeOK, SetStatus, Closed, ReplyTo,
        locals, bounds
<1>10. (ReplyInHand /\ AuditFollows)'
    BY <1>0
    DEF CancelUpdate, ReplyInHand, AuditFollows, SetStatus, locals,
        bounds, Closed, ReplyTo, Auditing
<1> QED
    BY <1>1, <1>2, <1>3, <1>4, <1>5, <1>6, <1>7, <1>8, <1>9, <1>10 DEF IInv, OwnershipInv

(* The answer 200 changes no row.                                           *)
LEMMA CancelReplyKeeps ==
    ASSUME IInv, NEW c \in Cancels, CancelReply(c)
    PROVE  IInv'
<1>0. /\ TypeOK /\ SingleHolder /\ HeldJob /\ RetryBudget
      /\ CountIsFresh /\ AbsentIsNew /\ CancelTarget /\ CancelHolds
      /\ TriesInOrder /\ ReplyInHand /\ AuditFollows
    BY DEF IInv, OwnershipInv
<1>1. TypeOK'
    BY <1>0, RetriesAssumption
    DEF CancelReply, TypeOK, Status, WorkerPC, CancelPC, RequestState,
        Queued, rows, locals, bounds
<1>2. CancelTarget'
    BY <1>0
    DEF CancelReply, CancelTarget, TypeOK, rows, locals, bounds
<1>3. CancelHolds'
    BY <1>0
    DEF CancelReply, CancelHolds, TypeOK, rows, locals, bounds
<1>4. (SingleHolder /\ HeldJob /\ RetryBudget /\ CountIsFresh /\ AbsentIsNew
      /\ TriesInOrder /\ ReplyInHand /\ AuditFollows)'
    BY <1>0
    DEF CancelReply, SingleHolder, HeldJob, RetryBudget, CountIsFresh,
        AbsentIsNew, TriesInOrder, ReplyInHand, AuditFollows, rows,
        locals, bounds, Holds, Queued, Closed, ReplyTo, Auditing
<1> QED
    BY <1>1, <1>2, <1>3, <1>4 DEF IInv, OwnershipInv

(* Reading a batch gives a worker no job yet.                               *)
LEMMA PollKeeps ==
    ASSUME IInv, NEW w \in Workers, Poll(w)
    PROVE  IInv'
<1>0. /\ TypeOK /\ SingleHolder /\ HeldJob /\ RetryBudget
      /\ CountIsFresh /\ AbsentIsNew /\ CancelTarget /\ CancelHolds
      /\ TriesInOrder /\ ReplyInHand /\ AuditFollows
    BY DEF IInv, OwnershipInv
<1>1. TypeOK'
    BY <1>0, RetriesAssumption
    DEF Poll, TypeOK, Status, WorkerPC, CancelPC, RequestState, Queued,
        rows, cancels, bounds, OldestQueued
<1>2. SingleHolder'
    BY <1>0
    DEF Poll, SingleHolder, TypeOK, Holds, Owning, Queued, rows,
        cancels, bounds
<1>3. HeldJob'
    BY <1>0, RetriesAssumption
    DEF Poll, HeldJob, TypeOK, Owning, rows, cancels, bounds
<1>4. CountIsFresh'
    BY <1>0
    DEF Poll, CountIsFresh, TypeOK, rows, cancels, bounds
<1>5. ReplyInHand'
    BY <1>0, RetriesAssumption
    DEF Poll, ReplyInHand, TypeOK, Closed, ReplyTo, Auditing, rows,
        cancels, bounds
<1>6. AuditFollows'
    BY <1>0, RetriesAssumption
    DEF Poll, AuditFollows, TypeOK, Closed, Auditing, ReplyTo, Owning,
        rows, cancels, bounds
<1>7. (RetryBudget /\ AbsentIsNew /\ CancelTarget /\ CancelHolds /\
      TriesInOrder)'
    BY <1>0
    DEF Poll, RetryBudget, AbsentIsNew, CancelTarget, CancelHolds,
        TriesInOrder, rows, cancels, bounds, Closed, ReplyTo
<1> QED
    BY <1>1, <1>2, <1>3, <1>4, <1>5, <1>6, <1>7 DEF IInv, OwnershipInv

(* The conditional UPDATE makes the worker the only holder, of a try that   *)
(* nobody sent or audited before.                                           *)
LEMMA ClaimKeeps ==
    ASSUME IInv, NEW w \in Workers, NEW j \in Jobs, Claim(w, j)
    PROVE  IInv'
<1>0. /\ TypeOK /\ SingleHolder /\ HeldJob /\ RetryBudget
      /\ CountIsFresh /\ AbsentIsNew /\ CancelTarget /\ CancelHolds
      /\ TriesInOrder /\ ReplyInHand /\ AuditFollows
    BY DEF IInv, OwnershipInv
<1>1. TypeOK'
  <2>1. attempts[j] + 1 \in 1 .. MaxRetries + 1
    BY <1>0, RetriesAssumption DEF Claim, MayStart, RetryBudget, TypeOK
  <2>2. status' \in [Jobs -> Status] /\ attempts' \in [Jobs -> 0 .. MaxRetries + 1]
    BY <1>0, <2>1 DEF Claim, SetStatus, TakeUp, TypeOK, Status
  <2>3. /\ pc' \in [Workers -> WorkerPC]
        /\ batch' \in [Workers -> SUBSET Jobs]
        /\ mine' \in [Workers -> Jobs \union {NoJob}]
        /\ try' \in [Workers -> 0 .. MaxRetries + 1]
    BY <1>0, <2>1, RetriesAssumption DEF Claim, TakeUp, TypeOK, WorkerPC
  <2> QED
    BY <1>0, <2>2, <2>3 DEF Claim, TypeOK, cancels, bounds
<1>2. SingleHolder'
    BY <1>0
    DEF Claim, SingleHolder, TypeOK, SetStatus, TakeUp, MayStart, Holds,
        Queued, cancels, bounds
<1>3. HeldJob'
    BY SMTT(30), <1>0, RetriesAssumption
    DEF Claim, HeldJob, TypeOK, RetryBudget, SetStatus, TakeUp,
        MayStart, Tries, cancels, bounds
<1>4. RetryBudget'
    BY <1>0, RetriesAssumption
    DEF Claim, RetryBudget, TypeOK, SetStatus, TakeUp, MayStart,
        cancels, bounds
<1>5. CountIsFresh'
    BY <1>0
    DEF Claim, CountIsFresh, TypeOK, HeldJob, SetStatus, TakeUp,
        MayStart, Owning, cancels, bounds
<1>6. AbsentIsNew'
    BY <1>0
    DEF Claim, AbsentIsNew, TypeOK, SetStatus, TakeUp, MayStart,
        cancels, bounds
<1>7. CancelTarget'
    BY <1>0
    DEF Claim, CancelTarget, TypeOK, SetStatus, TakeUp, MayStart,
        cancels, bounds
<1>8. CancelHolds'
    BY <1>0
    DEF Claim, CancelHolds, TypeOK, SetStatus, TakeUp, MayStart,
        cancels, bounds
<1>9. TriesInOrder'
    BY <1>0, RetriesAssumption
    DEF Claim, TriesInOrder, TypeOK, SetStatus, TakeUp, MayStart,
        Closed, Tries, ReplyTo, cancels, bounds
<1>10. ReplyInHand'
    BY <1>0, RetriesAssumption
    DEF Claim, ReplyInHand, TypeOK, TriesInOrder, RetryBudget,
        SetStatus, TakeUp, MayStart, Closed, ReplyTo, Tries, Auditing,
        cancels, bounds
<1>11. AuditFollows'
  <2>1. /\ pc' = [pc EXCEPT ![w] = "run"]
        /\ mine' = [mine EXCEPT ![w] = j]
        /\ try' = [try EXCEPT ![w] = attempts[j] + 1]
        /\ attempts' = [attempts EXCEPT ![j] = @ + 1]
        /\ UNCHANGED <<request, audit>>
    BY DEF Claim, TakeUp
  <2>2. \A k \in Jobs : attempts[k] \in Nat /\ attempts'[k] \in Nat /\ attempts[k] <= attempts'[k]
    BY <1>0, <2>1, RetriesAssumption DEF TypeOK
  <2>3. \A v \in Workers :
          pc'[v] \in Auditing => /\ v # w
                                 /\ pc[v] \in Auditing
                                 /\ mine'[v] \in Jobs
                                 /\ try'[v] \in 1 .. attempts[mine'[v]]
    BY <1>0, <2>1 DEF AuditFollows, Auditing, TypeOK
  <2>4. \A v \in Workers :
          pc'[v] \in Auditing => /\ mine'[v] \in Jobs
                                 /\ try'[v] \in 1 .. attempts'[mine'[v]]
    BY <2>2, <2>3
  <2>5. \A e \in audit : e[1] \in Jobs /\ e[2] \in Nat /\ e[2] <= attempts[e[1]]
    BY <1>0 DEF AuditFollows, TypeOK, Tries
  <2>6. \A e \in audit' : /\ e[2] <= attempts'[e[1]]
                          /\ IF e[3] = "success" THEN request'[e[1]][e[2]] = "created"
                                                 ELSE Closed(e[1], e[2])'
    BY <1>0, <2>1, <2>2, <2>5 DEF AuditFollows, Closed
  <2>7. ASSUME NEW u \in Workers, pc'[u] \in Owning
        PROVE  /\ \A v \in Workers : pc'[v] \in Auditing =>
                     <<mine'[v], try'[v]>> # <<mine'[u], try'[u]>>
               /\ \A e \in audit' : <<e[1], e[2]>> # <<mine'[u], try'[u]>>
    <3>1. CASE u = w
      <4>1. mine'[u] = j /\ try'[u] = attempts[j] + 1
        BY <1>0, <2>1, <3>1 DEF TypeOK
      <4> QED
        BY <2>1, <2>2, <2>3, <2>5, <4>1
    <3>2. CASE u # w
      <4>1. pc[u] \in Owning /\ mine'[u] = mine[u] /\ try'[u] = try[u]
        BY <1>0, <2>1, <2>7, <3>2 DEF TypeOK
      <4>2. \A v \in Workers : pc'[v] \in Auditing => mine'[v] = mine[v] /\ try'[v] = try[v]
        BY <1>0, <2>1, <2>3 DEF TypeOK
      <4> QED
        BY <1>0, <2>1, <2>3, <4>1, <4>2 DEF AuditFollows
    <3> QED
      BY <3>1, <3>2
  <2> QED
    BY <2>4, <2>6, <2>7 DEF AuditFollows
<1> QED
    BY <1>1, <1>2, <1>3, <1>4, <1>5, <1>6, <1>7, <1>8, <1>9, <1>10, <1>11
    DEF IInv, OwnershipInv

(* A job claimed by somebody else is dropped from the batch.                *)
LEMMA SkipKeeps ==
    ASSUME IInv, NEW w \in Workers, NEW j \in Jobs, Skip(w, j)
    PROVE  IInv'
<1>0. /\ TypeOK /\ SingleHolder /\ HeldJob /\ RetryBudget
      /\ CountIsFresh /\ AbsentIsNew /\ CancelTarget /\ CancelHolds
      /\ TriesInOrder /\ ReplyInHand /\ AuditFollows
    BY DEF IInv, OwnershipInv
<1>1. TypeOK'
    BY <1>0, RetriesAssumption
    DEF Skip, TypeOK, Status, WorkerPC, CancelPC, RequestState, Queued,
        rows, cancels, bounds
<1>2. SingleHolder'
    BY <1>0
    DEF Skip, SingleHolder, TypeOK, Holds, Owning, Queued, rows,
        cancels, bounds
<1>3. HeldJob'
    BY <1>0, RetriesAssumption
    DEF Skip, HeldJob, TypeOK, Owning, rows, cancels, bounds
<1>4. CountIsFresh'
    BY <1>0
    DEF Skip, CountIsFresh, TypeOK, rows, cancels, bounds
<1>5. ReplyInHand'
    BY <1>0, RetriesAssumption
    DEF Skip, ReplyInHand, TypeOK, Closed, ReplyTo, Auditing, rows,
        cancels, bounds
<1>6. AuditFollows'
    BY <1>0, RetriesAssumption
    DEF Skip, AuditFollows, TypeOK, Closed, Auditing, ReplyTo, Owning,
        rows, cancels, bounds
<1>7. (RetryBudget /\ AbsentIsNew /\ CancelTarget /\ CancelHolds /\
      TriesInOrder)'
    BY <1>0
    DEF Skip, RetryBudget, AbsentIsNew, CancelTarget, CancelHolds,
        TriesInOrder, rows, cancels, bounds, Closed, ReplyTo
<1> QED
    BY <1>1, <1>2, <1>3, <1>4, <1>5, <1>6, <1>7 DEF IInv, OwnershipInv

(* A refused try leaves the inventory without a request.                    *)
LEMMA RefusedKeeps ==
    ASSUME IInv, NEW w \in Workers, Refused(w)
    PROVE  IInv'
<1>0. /\ TypeOK /\ SingleHolder /\ HeldJob /\ RetryBudget
      /\ CountIsFresh /\ AbsentIsNew /\ CancelTarget /\ CancelHolds
      /\ TriesInOrder /\ ReplyInHand /\ AuditFollows
    BY DEF IInv, OwnershipInv
<1>1. TypeOK'
    BY <1>0, RetriesAssumption
    DEF Refused, TypeOK, Goto, Status, WorkerPC, CancelPC, RequestState,
        Queued, rows, cancels, bounds
<1>2. SingleHolder'
    BY <1>0
    DEF Refused, SingleHolder, TypeOK, Goto, Holds, Owning, Queued,
        rows, cancels, bounds
<1>3. HeldJob'
    BY <1>0, RetriesAssumption
    DEF Refused, HeldJob, TypeOK, Goto, Owning, rows, cancels, bounds
<1>4. CountIsFresh'
    BY <1>0
    DEF Refused, CountIsFresh, TypeOK, Goto, rows, cancels, bounds
<1>5. ReplyInHand'
    BY <1>0, RetriesAssumption
    DEF Refused, ReplyInHand, TypeOK, Goto, Closed, ReplyTo, Auditing,
        rows, cancels, bounds
<1>6. AuditFollows'
    BY <1>0, RetriesAssumption
    DEF Refused, AuditFollows, TypeOK, Goto, Closed, Auditing, ReplyTo,
        Owning, rows, cancels, bounds
<1>7. (RetryBudget /\ AbsentIsNew /\ CancelTarget /\ CancelHolds /\
      TriesInOrder)'
    BY <1>0
    DEF Refused, RetryBudget, AbsentIsNew, CancelTarget, CancelHolds,
        TriesInOrder, Goto, rows, cancels, bounds, Closed, ReplyTo
<1> QED
    BY <1>1, <1>2, <1>3, <1>4, <1>5, <1>6, <1>7 DEF IInv, OwnershipInv

(* The request of the current try goes out; earlier tries stay closed.      *)
LEMMA SendKeeps ==
    ASSUME IInv, NEW w \in Workers, Send(w)
    PROVE  IInv'
<1>0. /\ TypeOK /\ SingleHolder /\ HeldJob /\ RetryBudget
      /\ CountIsFresh /\ AbsentIsNew /\ CancelTarget /\ CancelHolds
      /\ TriesInOrder /\ ReplyInHand /\ AuditFollows
    BY DEF IInv, OwnershipInv
<1>1. TypeOK'
    BY <1>0, RetriesAssumption
    DEF Send, TypeOK, Goto, SetRequest, Status, WorkerPC, CancelPC,
        RequestState, Queued, rows, cancels, bounds
<1>2. SingleHolder'
    BY <1>0
    DEF Send, SingleHolder, TypeOK, Goto, SetRequest, Holds, Owning,
        Queued, rows, cancels, bounds
<1>3. HeldJob'
    BY <1>0, RetriesAssumption
    DEF Send, HeldJob, TypeOK, Goto, SetRequest, Owning, rows, cancels,
        bounds
<1>4. CountIsFresh'
    BY <1>0
    DEF Send, CountIsFresh, TypeOK, Goto, SetRequest, rows, cancels,
        bounds
<1>5. TriesInOrder'
    BY <1>0, RetriesAssumption
    DEF Send, TriesInOrder, TypeOK, HeldJob, RetryBudget, ReplyInHand,
        Goto, SetRequest, Closed, ReplyTo, Owning, rows, cancels, bounds
<1>6. ReplyInHand'
    BY <1>0, RetriesAssumption
    DEF Send, ReplyInHand, TypeOK, SingleHolder, AuditFollows, Goto,
        SetRequest, Closed, ReplyTo, Owning, Holds, Auditing, rows,
        cancels, bounds
<1>7. AuditFollows'
    BY <1>0, RetriesAssumption
    DEF Send, AuditFollows, TypeOK, Goto, SetRequest, Closed, Auditing,
        ReplyTo, Owning, rows, cancels, bounds
<1>8. (RetryBudget /\ AbsentIsNew /\ CancelTarget /\ CancelHolds)'
    BY <1>0
    DEF Send, RetryBudget, AbsentIsNew, CancelTarget, CancelHolds, Goto,
        SetRequest, rows, cancels, bounds
<1> QED
    BY <1>1, <1>2, <1>3, <1>4, <1>5, <1>6, <1>7, <1>8 DEF IInv, OwnershipInv

(* The answer decides whether the worker finishes or fails the try.         *)
LEMMA ReceiveKeeps ==
    ASSUME IInv, NEW w \in Workers, Receive(w)
    PROVE  IInv'
<1>0. /\ TypeOK /\ SingleHolder /\ HeldJob /\ RetryBudget
      /\ CountIsFresh /\ AbsentIsNew /\ CancelTarget /\ CancelHolds
      /\ TriesInOrder /\ ReplyInHand /\ AuditFollows
    BY DEF IInv, OwnershipInv
<1>1. TypeOK'
    BY <1>0, RetriesAssumption
    DEF Receive, TypeOK, Goto, Status, WorkerPC, CancelPC, RequestState,
        Queued, rows, cancels, bounds
<1>2. SingleHolder'
  <2>1. PICK l \in Owning : Goto(w, l)
    BY DEF Receive, Owning
  <2>2. \A v \in Workers, k \in Jobs : Holds(v, k)' => Holds(v, k)
    BY <1>0, <2>1 DEF Receive, Goto, Holds, Owning, TypeOK
  <2> QED
    BY <1>0, <2>2 DEF SingleHolder, Receive, Queued, rows
<1>3. HeldJob'
    BY <1>0, RetriesAssumption
    DEF Receive, HeldJob, TypeOK, Goto, Owning, rows, cancels, bounds
<1>4. CountIsFresh'
    BY <1>0
    DEF Receive, CountIsFresh, TypeOK, Goto, rows, cancels, bounds
<1>5. ReplyInHand'
  <2>1. \A v \in Workers : ReplyTo(v)' = ReplyTo(v) /\ Closed(mine[v], try[v])' = Closed(mine[v], try[v])
    BY DEF Receive, Goto, ReplyTo, Closed
  <2>2. CASE pc' = [pc EXCEPT ![w] = "finish"] /\ IsSuccess(w)
    BY <1>0, <2>1, <2>2 DEF ReplyInHand, IsSuccess, Receive, Goto, TypeOK
  <2>3. CASE pc' = [pc EXCEPT ![w] = "fail"] /\ ReplyTo(w) \in {"rejected", "broken"}
    <3>1. Closed(mine[w], try[w])
      BY <2>3 DEF Closed, ReplyTo
    <3> QED
      BY <1>0, <2>1, <2>3, <3>1 DEF ReplyInHand, Receive, Goto, TypeOK
  <2> QED
    BY <2>2, <2>3 DEF Receive, Goto
<1>6. AuditFollows'
  <2>1. PICK l \in {"finish", "fail"} : pc' = [pc EXCEPT ![w] = l]
    BY DEF Receive, Goto
  <2>2. \A v \in Workers : /\ pc'[v] \in Auditing => pc[v] \in Auditing
                           /\ pc'[v] \in Owning => pc[v] \in Owning
    BY <1>0, <2>1 DEF Receive, Auditing, Owning, TypeOK
  <2>3. UNCHANGED <<mine, try, attempts, request, audit>>
    BY DEF Receive, Goto
  <2> QED
    BY <1>0, <2>2, <2>3 DEF AuditFollows, Closed
<1>7. (RetryBudget /\ AbsentIsNew /\ CancelTarget /\ CancelHolds /\
      TriesInOrder)'
    BY <1>0
    DEF Receive, RetryBudget, AbsentIsNew, CancelTarget, CancelHolds,
        TriesInOrder, Goto, rows, cancels, bounds, Closed, ReplyTo
<1> QED
    BY <1>1, <1>2, <1>3, <1>4, <1>5, <1>6, <1>7 DEF IInv, OwnershipInv

(* A worker that returns to the top of its loop audits nothing and owns     *)
(* nothing; the other workers are not disturbed.                            *)
LEMMA ForgettingTheJob ==
    ASSUME IInv, NEW w \in Workers,
           pc' = [pc EXCEPT ![w] = "poll"],
           mine' = [mine EXCEPT ![w] = NoJob],
           try' = [try EXCEPT ![w] = 0],
           UNCHANGED <<request, audit, attempts>>
    PROVE  AuditFollows'
<1>0. TypeOK /\ AuditFollows
    BY DEF IInv, OwnershipInv
<1>1. \A v \in Workers :
        pc'[v] \in Owning \union Auditing => /\ pc'[v] = pc[v]
                                             /\ mine'[v] = mine[v]
                                             /\ try'[v] = try[v]
    BY <1>0 DEF TypeOK, Owning, Auditing
<1>2. \A e : Closed(e[1], e[2])' = Closed(e[1], e[2])
    BY DEF Closed
<1> QED
    BY <1>0, <1>1, <1>2 DEF AuditFollows

(* A lost reply leaves the job running and in nobody's hands.               *)
LEMMA LoseReplyKeeps ==
    ASSUME IInv, NEW w \in Workers, LoseReply(w)
    PROVE  IInv'
<1>0. /\ TypeOK /\ SingleHolder /\ HeldJob /\ RetryBudget
      /\ CountIsFresh /\ AbsentIsNew /\ CancelTarget /\ CancelHolds
      /\ TriesInOrder /\ ReplyInHand /\ AuditFollows
    BY DEF IInv, OwnershipInv
<1>1. TypeOK'
    BY <1>0, RetriesAssumption, BoundsAssumption
    DEF LoseReply, TypeOK, BackToPoll, Status, WorkerPC, CancelPC,
        RequestState, Queued, rows, cancels
<1>2. SingleHolder'
    BY <1>0
    DEF LoseReply, SingleHolder, TypeOK, BackToPoll, Holds, Owning,
        Queued, rows, cancels
<1>3. HeldJob'
    BY <1>0, RetriesAssumption
    DEF LoseReply, HeldJob, TypeOK, BackToPoll, Owning, rows, cancels
<1>4. CountIsFresh'
    BY <1>0
    DEF LoseReply, CountIsFresh, TypeOK, BackToPoll, rows, cancels
<1>5. ReplyInHand'
    BY <1>0, RetriesAssumption
    DEF LoseReply, ReplyInHand, TypeOK, BackToPoll, Closed, ReplyTo,
        Auditing, rows, cancels
<1>6. AuditFollows'
    BY ForgettingTheJob DEF LoseReply, BackToPoll
<1>7. (RetryBudget /\ AbsentIsNew /\ CancelTarget /\ CancelHolds /\
      TriesInOrder)'
    BY <1>0
    DEF LoseReply, RetryBudget, AbsentIsNew, CancelTarget, CancelHolds,
        TriesInOrder, BackToPoll, rows, cancels, Closed, ReplyTo
<1> QED
    BY <1>1, <1>2, <1>3, <1>4, <1>5, <1>6, <1>7 DEF IInv, OwnershipInv

(* A worker that lets go of its job and goes on to audit the try is the     *)
(* only one with that try in its hands.                                     *)
LEMMA HandingToAudit ==
    ASSUME IInv, NEW w \in Workers, NEW l \in Auditing, pc[w] \in Owning,
           pc' = [pc EXCEPT ![w] = l],
           UNCHANGED <<mine, try, request, audit, attempts>>
    PROVE  AuditFollows'
<1>0. TypeOK /\ SingleHolder /\ HeldJob /\ AuditFollows
    BY DEF IInv, OwnershipInv
<1>1. mine[w] \in Jobs /\ try[w] \in 1 .. attempts[mine[w]]
    BY <1>0 DEF HeldJob, TypeOK, Tries
<1>2. \A v \in Workers : pc'[v] \in Auditing => pc[v] \in Auditing \/ v = w
    BY <1>0 DEF TypeOK
<1>3. \A v \in Workers : pc'[v] \in Owning => pc[v] \in Owning /\ mine[v] # mine[w]
    BY <1>0 DEF SingleHolder, Holds, HeldJob, Owning, Auditing, TypeOK
<1> QED
    BY <1>0, <1>1, <1>2, <1>3 DEF AuditFollows, Closed

(* mark_finished: the job succeeds, unless it was cancelled.                *)
LEMMA FinishKeeps ==
    ASSUME IInv, NEW w \in Workers, Finish(w)
    PROVE  IInv'
<1>0. /\ TypeOK /\ SingleHolder /\ HeldJob /\ RetryBudget
      /\ CountIsFresh /\ AbsentIsNew /\ CancelTarget /\ CancelHolds
      /\ TriesInOrder /\ ReplyInHand /\ AuditFollows
    BY DEF IInv, OwnershipInv
<1>1. TypeOK'
    BY <1>0, RetriesAssumption
    DEF Finish, TypeOK, Goto, SetStatus, StillRunning, Status, WorkerPC,
        CancelPC, RequestState, Queued, cancels, bounds
<1>2. SingleHolder'
    BY <1>0
    DEF Finish, SingleHolder, TypeOK, Goto, SetStatus, StillRunning,
        Holds, Owning, Queued, cancels, bounds
<1>3. HeldJob'
    BY <1>0, RetriesAssumption
    DEF Finish, HeldJob, TypeOK, SingleHolder, Goto, SetStatus,
        StillRunning, Holds, Owning, cancels, bounds
<1>4. RetryBudget'
    BY <1>0, RetriesAssumption
    DEF Finish, RetryBudget, TypeOK, Goto, SetStatus, StillRunning,
        cancels, bounds
<1>5. CountIsFresh'
    BY <1>0
    DEF Finish, CountIsFresh, TypeOK, HeldJob, Goto, SetStatus,
        StillRunning, Owning, cancels, bounds
<1>6. AbsentIsNew'
    BY <1>0
    DEF Finish, AbsentIsNew, TypeOK, Goto, SetStatus, StillRunning,
        cancels, bounds
<1>7. CancelTarget'
    BY <1>0
    DEF Finish, CancelTarget, TypeOK, Goto, SetStatus, StillRunning,
        cancels, bounds
<1>8. CancelHolds'
    BY <1>0
    DEF Finish, CancelHolds, TypeOK, CancelTarget, Goto, SetStatus,
        StillRunning, cancels, bounds
<1>9. TriesInOrder'
    BY <1>0, RetriesAssumption
    DEF Finish, TriesInOrder, TypeOK, HeldJob, ReplyInHand, Goto,
        SetStatus, StillRunning, Closed, ReplyTo, Owning, cancels,
        bounds
<1>10. ReplyInHand'
    BY <1>0, RetriesAssumption
    DEF Finish, ReplyInHand, TypeOK, Goto, SetStatus, StillRunning,
        Closed, ReplyTo, Auditing, cancels, bounds
<1>11. AuditFollows'
  <2>1. UNCHANGED <<mine, try, request, audit, attempts>>
    BY DEF Finish, Goto
  <2>2. pc[w] \in Owning /\ pc' = [pc EXCEPT ![w] = "audit_success"]
    BY DEF Finish, Goto, Owning
  <2> QED
    BY <2>1, <2>2, HandingToAudit DEF Auditing
<1> QED
    BY <1>1, <1>2, <1>3, <1>4, <1>5, <1>6, <1>7, <1>8, <1>9, <1>10, <1>11
    DEF IInv, OwnershipInv

(* The count read here is fresh as long as the job is running.              *)
LEMMA ReadFailureKeeps ==
    ASSUME IInv, NEW w \in Workers, ReadFailure(w)
    PROVE  IInv'
<1>0. /\ TypeOK /\ SingleHolder /\ HeldJob /\ RetryBudget
      /\ CountIsFresh /\ AbsentIsNew /\ CancelTarget /\ CancelHolds
      /\ TriesInOrder /\ ReplyInHand /\ AuditFollows
    BY DEF IInv, OwnershipInv
<1>1. TypeOK'
    BY <1>0, RetriesAssumption
    DEF ReadFailure, TypeOK, HeldJob, CountIsFresh, CancelTarget,
        Status, WorkerPC, CancelPC, RequestState, Owning, Queued, rows,
        cancels, bounds
<1>2. SingleHolder'
    BY <1>0
    DEF ReadFailure, SingleHolder, TypeOK, Holds, Owning, Queued, rows,
        cancels, bounds
<1>3. HeldJob'
    BY <1>0, RetriesAssumption
    DEF ReadFailure, HeldJob, TypeOK, Owning, rows, cancels, bounds
<1>4. CountIsFresh'
    BY <1>0
    DEF ReadFailure, CountIsFresh, TypeOK, rows, cancels, bounds
<1>5. ReplyInHand'
    BY <1>0, RetriesAssumption
    DEF ReadFailure, ReplyInHand, TypeOK, Closed, ReplyTo, Auditing,
        rows, cancels, bounds
<1>6. AuditFollows'
    BY <1>0, RetriesAssumption
    DEF ReadFailure, AuditFollows, TypeOK, Closed, Auditing, ReplyTo,
        Owning, rows, cancels, bounds
<1>7. (RetryBudget /\ AbsentIsNew /\ CancelTarget /\ CancelHolds /\
      TriesInOrder)'
    BY <1>0
    DEF ReadFailure, RetryBudget, AbsentIsNew, CancelTarget,
        CancelHolds, TriesInOrder, rows, cancels, bounds, Closed,
        ReplyTo
<1> QED
    BY <1>1, <1>2, <1>3, <1>4, <1>5, <1>6, <1>7 DEF IInv, OwnershipInv

(* The stale count is written only to a row that is still running, and then *)
(* it is right.                                                             *)
LEMMA RecordFailureKeeps ==
    ASSUME IInv, NEW w \in Workers, RecordFailure(w)
    PROVE  IInv'
<1>0. /\ TypeOK /\ SingleHolder /\ HeldJob /\ RetryBudget
      /\ CountIsFresh /\ AbsentIsNew /\ CancelTarget /\ CancelHolds
      /\ TriesInOrder /\ ReplyInHand /\ AuditFollows
    BY DEF IInv, OwnershipInv
<1>1. TypeOK'
  <2>1. mine[w] \in Jobs
    BY <1>0 DEF RecordFailure, HeldJob, Owning
  <2>2. StillRunning(mine[w]) => new_count[w] \in 0 .. MaxRetries + 1
    BY <1>0, <2>1, RetriesAssumption
    DEF RecordFailure, StillRunning, CountIsFresh, RetryBudget, TypeOK
  <2>3. status' \in [Jobs -> Status]
    BY <1>0, <2>1 DEF RecordFailure, SetStatus, StatusAfterTry, TypeOK, Status
  <2>4. retry_count' \in [Jobs -> 0 .. MaxRetries + 1]
    BY <1>0, <2>1, <2>2 DEF RecordFailure, TypeOK
  <2> QED
    BY <1>0, <2>3, <2>4 DEF RecordFailure, Goto, TypeOK, WorkerPC, cancels, bounds
<1>2. SingleHolder'
    BY <1>0
    DEF RecordFailure, SingleHolder, TypeOK, Goto, SetStatus,
        StillRunning, StatusAfterTry, MayRetry, Holds, Owning, Queued,
        cancels, bounds
<1>3. HeldJob'
    BY <1>0, RetriesAssumption
    DEF RecordFailure, HeldJob, TypeOK, SingleHolder, Goto, SetStatus,
        StillRunning, StatusAfterTry, MayRetry, Holds, Owning, cancels,
        bounds
<1>4. RetryBudget'
    BY <1>0, RetriesAssumption
    DEF RecordFailure, RetryBudget, TypeOK, CountIsFresh, Goto,
        SetStatus, StillRunning, StatusAfterTry, MayRetry, cancels,
        bounds
<1>5. CountIsFresh'
    BY <1>0
    DEF RecordFailure, CountIsFresh, TypeOK, HeldJob, Goto, SetStatus,
        StillRunning, StatusAfterTry, MayRetry, Owning, cancels, bounds
<1>6. AbsentIsNew'
    BY <1>0
    DEF RecordFailure, AbsentIsNew, TypeOK, Goto, SetStatus,
        StillRunning, StatusAfterTry, MayRetry, cancels, bounds
<1>7. CancelTarget'
    BY <1>0
    DEF RecordFailure, CancelTarget, TypeOK, Goto, SetStatus,
        StillRunning, StatusAfterTry, MayRetry, cancels, bounds
<1>8. CancelHolds'
    BY <1>0
    DEF RecordFailure, CancelHolds, TypeOK, CancelTarget, Goto,
        SetStatus, StillRunning, StatusAfterTry, MayRetry, cancels,
        bounds
<1>9. TriesInOrder'
    BY <1>0, RetriesAssumption
    DEF RecordFailure, TriesInOrder, TypeOK, HeldJob, ReplyInHand, Goto,
        SetStatus, StillRunning, StatusAfterTry, MayRetry, Closed,
        ReplyTo, Owning, cancels, bounds
<1>10. ReplyInHand'
    BY <1>0, RetriesAssumption
    DEF RecordFailure, ReplyInHand, TypeOK, Goto, SetStatus,
        StillRunning, StatusAfterTry, MayRetry, Closed, ReplyTo,
        Auditing, cancels, bounds
<1>11. AuditFollows'
  <2>1. UNCHANGED <<mine, try, request, audit, attempts>>
    BY DEF RecordFailure, Goto
  <2>2. pc[w] \in Owning /\ pc' = [pc EXCEPT ![w] = "audit_failure"]
    BY DEF RecordFailure, Goto, Owning
  <2> QED
    BY <2>1, <2>2, HandingToAudit DEF Auditing
<1> QED
    BY <1>1, <1>2, <1>3, <1>4, <1>5, <1>6, <1>7, <1>8, <1>9, <1>10, <1>11
    DEF IInv, OwnershipInv

(* The event matches what the inventory answered to the try.                *)
LEMMA AuditKeeps ==
    ASSUME IInv, NEW w \in Workers, Audit(w)
    PROVE  IInv'
<1>0. /\ TypeOK /\ SingleHolder /\ HeldJob /\ RetryBudget
      /\ CountIsFresh /\ AbsentIsNew /\ CancelTarget /\ CancelHolds
      /\ TriesInOrder /\ ReplyInHand /\ AuditFollows
    BY DEF IInv, OwnershipInv
<1>1. TypeOK'
  <2>1. mine[w] \in Jobs /\ try[w] \in Tries
    BY <1>0, RetriesAssumption DEF Audit, AuditFollows, Auditing, TypeOK, Tries
  <2>2. audit' \in SUBSET (Jobs \X Tries \X {"success", "failure"})
    BY <1>0, <2>1 DEF Audit, TypeOK
  <2>3. /\ pc' \in [Workers -> WorkerPC]
        /\ batch' \in [Workers -> SUBSET Jobs]
        /\ mine' \in [Workers -> Jobs \union {NoJob}]
        /\ try' \in [Workers -> 0 .. MaxRetries + 1]
        /\ new_count' \in [Workers -> 0 .. MaxRetries + 2]
    BY <1>0, RetriesAssumption DEF Audit, BackToPoll, TypeOK, WorkerPC
  <2> QED
    BY <1>0, <2>2, <2>3 DEF Audit, TypeOK, rows, cancels, bounds
<1>2. SingleHolder'
    BY <1>0
    DEF Audit, SingleHolder, TypeOK, BackToPoll, Holds, Owning, Queued,
        rows, cancels, bounds
<1>3. HeldJob'
    BY <1>0, RetriesAssumption
    DEF Audit, HeldJob, TypeOK, BackToPoll, Owning, rows, cancels,
        bounds
<1>4. CountIsFresh'
    BY <1>0
    DEF Audit, CountIsFresh, TypeOK, BackToPoll, rows, cancels, bounds
<1>5. ReplyInHand'
    BY <1>0, RetriesAssumption
    DEF Audit, ReplyInHand, TypeOK, BackToPoll, Closed, ReplyTo,
        Auditing, rows, cancels, bounds
<1>6. AuditFollows'
    BY <1>0, RetriesAssumption
    DEF Audit, AuditFollows, TypeOK, ReplyInHand, BackToPoll, Closed,
        Auditing, ReplyTo, Owning, rows, cancels, bounds
<1>7. (RetryBudget /\ AbsentIsNew /\ CancelTarget /\ CancelHolds /\
      TriesInOrder)'
    BY <1>0
    DEF Audit, RetryBudget, AbsentIsNew, CancelTarget, CancelHolds,
        TriesInOrder, BackToPoll, rows, cancels, bounds, Closed, ReplyTo
<1> QED
    BY <1>1, <1>2, <1>3, <1>4, <1>5, <1>6, <1>7 DEF IInv, OwnershipInv

(* A crash loses the locals, and no row depends on them.                    *)
LEMMA CrashKeeps ==
    ASSUME IInv, NEW w \in Workers, Crash(w)
    PROVE  IInv'
<1>0. /\ TypeOK /\ SingleHolder /\ HeldJob /\ RetryBudget
      /\ CountIsFresh /\ AbsentIsNew /\ CancelTarget /\ CancelHolds
      /\ TriesInOrder /\ ReplyInHand /\ AuditFollows
    BY DEF IInv, OwnershipInv
<1>1. TypeOK'
    BY <1>0, RetriesAssumption, BoundsAssumption
    DEF Crash, TypeOK, BackToPoll, Status, WorkerPC, CancelPC,
        RequestState, Queued, rows, cancels
<1>2. SingleHolder'
    BY <1>0
    DEF Crash, SingleHolder, TypeOK, BackToPoll, Holds, Owning, Queued,
        rows, cancels
<1>3. HeldJob'
    BY <1>0, RetriesAssumption
    DEF Crash, HeldJob, TypeOK, BackToPoll, Owning, rows, cancels
<1>4. CountIsFresh'
    BY <1>0
    DEF Crash, CountIsFresh, TypeOK, BackToPoll, rows, cancels
<1>5. ReplyInHand'
    BY <1>0, RetriesAssumption
    DEF Crash, ReplyInHand, TypeOK, BackToPoll, Closed, ReplyTo,
        Auditing, rows, cancels
<1>6. AuditFollows'
    BY ForgettingTheJob DEF Crash, BackToPoll
<1>7. (RetryBudget /\ AbsentIsNew /\ CancelTarget /\ CancelHolds /\
      TriesInOrder)'
    BY <1>0
    DEF Crash, RetryBudget, AbsentIsNew, CancelTarget, CancelHolds,
        TriesInOrder, BackToPoll, rows, cancels, Closed, ReplyTo
<1> QED
    BY <1>1, <1>2, <1>3, <1>4, <1>5, <1>6, <1>7 DEF IInv, OwnershipInv

(* The inventory moves the request of the current try only: an earlier one  *)
(* is closed.                                                               *)
LEMMA InventoryStepKeeps ==
    ASSUME IInv, NEW j \in Jobs, NEW n \in Tries, NEW from, NEW to,
           <<from, to>> \in {<<"sent", "rejected">>, <<"sent", "saved">>,
                             <<"saved", "created">>, <<"saved", "broken">>},
           InventoryStep(j, n, from, to)
    PROVE  IInv'
<1>0. /\ TypeOK /\ SingleHolder /\ HeldJob /\ RetryBudget
      /\ CountIsFresh /\ AbsentIsNew /\ CancelTarget /\ CancelHolds
      /\ TriesInOrder /\ ReplyInHand /\ AuditFollows
    BY DEF IInv, OwnershipInv
<1>a. \/ from = "sent" /\ to \in {"rejected", "saved"}
      \/ from = "saved" /\ to \in {"created", "broken"}
    OBVIOUS
<1>1. TypeOK'
    BY <1>0, <1>a, RetriesAssumption
    DEF InventoryStep, TypeOK, SetRequest, Status, WorkerPC, CancelPC,
        RequestState, Queued, rows, locals, cancels, bounds
<1>2. TriesInOrder'
    BY <1>0, <1>a, RetriesAssumption
    DEF InventoryStep, TriesInOrder, TypeOK, SetRequest, Closed,
        ReplyTo, rows, locals, cancels, bounds
<1>3. ReplyInHand'
    BY <1>0, <1>a, RetriesAssumption
    DEF InventoryStep, ReplyInHand, TypeOK, SetRequest, Closed, ReplyTo,
        Auditing, rows, locals, cancels, bounds
<1>4. AuditFollows'
    BY <1>0, <1>a, RetriesAssumption
    DEF InventoryStep, AuditFollows, TypeOK, SetRequest, Closed,
        Auditing, ReplyTo, rows, locals, cancels, bounds
<1>5. (SingleHolder /\ HeldJob /\ RetryBudget /\ CountIsFresh /\ AbsentIsNew
      /\ CancelTarget /\ CancelHolds)'
    BY <1>0
    DEF InventoryStep, SingleHolder, HeldJob, RetryBudget, CountIsFresh,
        AbsentIsNew, CancelTarget, CancelHolds, SetRequest, rows,
        locals, cancels, bounds, Holds, Queued
<1> QED
    BY <1>1, <1>2, <1>3, <1>4, <1>5 DEF IInv, OwnershipInv
(* A stuttering step keeps the invariant.                                   *)
LEMMA UnchangedKeeps ==
    ASSUME IInv, UNCHANGED vars
    PROVE  IInv'
<1>1. OwnershipInv'
    BY DEF IInv, OwnershipInv, TypeOK, SingleHolder, HeldJob, RetryBudget,
        CountIsFresh, AbsentIsNew, CancelTarget, CancelHolds, Holds, Queued,
        vars, rows, locals, cancels, bounds
<1>2. (TriesInOrder /\ ReplyInHand /\ AuditFollows)'
    BY DEF IInv, TriesInOrder, ReplyInHand, AuditFollows, Closed, ReplyTo,
        vars, rows, locals, cancels, bounds
<1> QED
    BY <1>1, <1>2 DEF IInv

-----------------------------------------------------------------------------
(* The invariant holds initially and every step keeps it. *)

(* The invariant holds of the empty table.                                  *)
LEMMA InitInv == Init => IInv
<1> SUFFICES ASSUME Init PROVE IInv
    OBVIOUS
<1>1. TypeOK
  <2>1. Tries # {} /\ 0 \in 0 .. MaxRetries + 1 /\ 0 \in 0 .. MaxRetries + 2
        /\ 0 \in 0 .. MaxCrashes /\ 0 \in 0 .. MaxLost
    BY RetriesAssumption, BoundsAssumption DEF Tries
  <2> QED
    BY <2>1 DEF Init, TypeOK, Status, WorkerPC, CancelPC, RequestState
<1>2. OwnershipInv
    BY <1>1, RetriesAssumption
    DEF Init, OwnershipInv, SingleHolder, HeldJob, RetryBudget, CountIsFresh,
        AbsentIsNew, CancelTarget, CancelHolds, Holds, Owning, Queued
<1>3. TriesInOrder /\ ReplyInHand /\ AuditFollows
    BY <1>1, RetriesAssumption
    DEF Init, TriesInOrder, ReplyInHand, AuditFollows, Auditing, Owning, Tries
<1> QED
    BY <1>2, <1>3 DEF IInv

(* Every step keeps the invariant: one case per action.                     *)
LEMMA StepInv == IInv /\ [Next]_vars => IInv'
<1> SUFFICES ASSUME IInv, [Next]_vars PROVE IInv'
    OBVIOUS
<1>1. CASE ApiStep
    BY <1>1, SubmitKeeps, CancelCheckKeeps, CancelUpdateKeeps, CancelReplyKeeps
    DEF ApiStep
<1>2. ASSUME NEW w \in Workers, WorkerStep(w) \/ LoseReply(w) \/ Crash(w)
      PROVE  IInv'
  <2>1. CASE Sleep(w)
    <3>1. UNCHANGED vars
      BY <2>1 DEF Sleep
    <3> QED
      BY <3>1, UnchangedKeeps
  <2>2. CASE \E j \in Jobs : Claim(w, j) \/ Skip(w, j)
    BY <2>2, ClaimKeeps, SkipKeeps
  <2>3. CASE Poll(w) \/ Refused(w) \/ Send(w) \/ Receive(w) \/ LoseReply(w)
    BY <2>3, PollKeeps, RefusedKeeps, SendKeeps, ReceiveKeeps, LoseReplyKeeps
  <2>4. CASE Finish(w) \/ ReadFailure(w) \/ RecordFailure(w) \/ Audit(w) \/ Crash(w)
    BY <2>4, FinishKeeps, ReadFailureKeeps, RecordFailureKeeps, AuditKeeps, CrashKeeps
  <2> QED
    BY <1>2, <2>1, <2>2, <2>3, <2>4 DEF WorkerStep
<1>3. ASSUME NEW j \in Jobs, NEW n \in Tries, Inventory(j, n)
      PROVE  IInv'
    BY <1>3, InventoryStepKeeps DEF Inventory, Reject, Save, Reply, Break
<1>4. CASE UNCHANGED vars
    BY <1>4, UnchangedKeeps
<1> QED
    BY <1>1, <1>2, <1>3, <1>4 DEF Next

(* In every reachable state of every instance, the inductive invariant holds. *)
THEOREM Invariance == Spec => []IInv
    BY InitInv, StepInv, PTL DEF Spec

-----------------------------------------------------------------------------
(* What follows from it in each state. *)

(* The variables keep their types; in particular no job is ever claimed     *)
(* more than MaxRetries + 1 times and no retry_count exceeds it.            *)
THEOREM TypeCorrect == Spec => []TypeOK
<1>1. IInv => TypeOK
    BY DEF IInv, OwnershipInv
<1> QED
    BY <1>1, Invariance, PTL

(* claim_next_queued_job: no job is in the hands of two workers, and none   *)
(* that is queued is in anybody's, for any number of workers.               *)
THEOREM NoDoubleProcessing == Spec => []SingleHolder
<1>1. IInv => SingleHolder
    BY DEF IInv, OwnershipInv
<1> QED
    BY <1>1, Invariance, PTL

(* record_failure_and_maybe_retry: the retry budget is exact in spite of    *)
(* its stale read.                                                          *)
THEOREM RetriesAreBounded == Spec => []RetryBudget
<1>1. IInv => RetryBudget
    BY DEF IInv, OwnershipInv
<1> QED
    BY <1>1, Invariance, PTL

(* cancel_job: what was acknowledged as cancelled stays cancelled.          *)
THEOREM CancelIsKept == Spec => []CancelHolds
<1>1. IInv => CancelHolds
    BY DEF IInv, OwnershipInv
<1> QED
    BY <1>1, Invariance, PTL

(* The inventory acknowledges at most one try of a job.                     *)
THEOREM IngestedAtMostOnce == Spec => []AtMostOneCreated
<1>1. ASSUME IInv PROVE AtMostOneCreated
  <2>1. ASSUME NEW j \in Jobs, NEW n \in Tries, request[j][n] = "created"
        PROVE  n = attempts[j]
    <3>1. n \in Int /\ attempts[j] \in Int
      BY <1>1 DEF IInv, OwnershipInv, TypeOK, Tries
    <3>2. ~ (n < attempts[j]) /\ ~ (n > attempts[j])
      BY <1>1, <2>1 DEF IInv, TriesInOrder, Closed
    <3> QED
      BY <3>1, <3>2
  <2> QED
    BY <2>1 DEF AtMostOneCreated
<1> QED
    BY <1>1, Invariance, PTL

(* A job's outcome agrees with what the inventory answered.                 *)
THEOREM OutcomesAreReal == Spec => []OutcomeIsReal
<1>1. ASSUME IInv PROVE OutcomeIsReal
  <2>1. ASSUME NEW j \in Jobs, status[j] = "succeeded"
        PROVE  \E n \in Tries : request[j][n] = "created"
    <3>1. attempts[j] \in Tries
      BY <1>1, <2>1, RetriesAssumption DEF IInv, OwnershipInv, RetryBudget, TypeOK, Tries
    <3> QED
      BY <1>1, <2>1, <3>1 DEF IInv, TriesInOrder
  <2>2. ASSUME NEW j \in Jobs, status[j] = "failed", NEW n \in Tries
        PROVE  request[j][n] # "created"
    <3>1. n < attempts[j] \/ n = attempts[j]
      BY <1>1, <2>2, RetriesAssumption DEF IInv, OwnershipInv, RetryBudget, Tries
    <3>2. Closed(j, n)
      BY <1>1, <2>2, <3>1 DEF IInv, TriesInOrder
    <3> QED
      BY <3>2 DEF Closed
  <2> QED
    BY <2>1, <2>2 DEF OutcomeIsReal
<1> QED
    BY <1>1, Invariance, PTL

(* The audit trail agrees with what the inventory answered.                 *)
THEOREM AuditTellsTheTruth == Spec => []AuditIsTruthful
<1>1. ASSUME IInv PROVE AuditIsTruthful
    BY <1>1 DEF IInv, OwnershipInv, AuditFollows, AuditIsTruthful, Closed, TypeOK
<1> QED
    BY <1>1, Invariance, PTL

-----------------------------------------------------------------------------
(* What no step may do. *)

(* A finished or cancelled job never goes back to the queue or to a worker. *)
THEOREM TerminalStaysTerminal == Spec => NeverRevived
<1>1. ASSUME IInv, [Next]_vars
      PROVE  \A j \in Jobs : status[j] \in Terminal => status'[j] \in Terminal
  <2> DEFINE Kept == \A j \in Jobs : status[j] \in Terminal => status'[j] \in Terminal
  <2>0. TypeOK /\ HeldJob /\ CancelTarget
    BY <1>1 DEF IInv, OwnershipInv
  <2>1. ASSUME NEW k \in Jobs, NEW s \in Status, SetStatus(k, s),
               status[k] \in Terminal => s \in Terminal
        PROVE  Kept
    BY <2>0, <2>1 DEF SetStatus, TypeOK
  <2>2. CASE UNCHANGED status
    BY <2>2
  <2>3. ASSUME NEW j \in Jobs, Submit(j) PROVE Kept
    BY <2>1, <2>3 DEF Submit, Terminal, Status
  <2>4. ASSUME NEW c \in Cancels, CancelUpdate(c) PROVE Kept
    BY <2>0, <2>1, <2>4 DEF CancelUpdate, CancelTarget, Terminal, Status
  <2>5. ASSUME NEW w \in Workers, NEW j \in Jobs, Claim(w, j) PROVE Kept
    BY <2>1, <2>5 DEF Claim, MayStart, Terminal, Status
  <2>6. ASSUME NEW w \in Workers, Finish(w) PROVE Kept
    BY <2>0, <2>1, <2>2, <2>6 DEF Finish, StillRunning, HeldJob, Owning, Terminal, Status
  <2>7. ASSUME NEW w \in Workers, RecordFailure(w) PROVE Kept
    BY <2>0, <2>1, <2>2, <2>7
    DEF RecordFailure, StillRunning, StatusAfterTry, HeldJob, Owning, Terminal, Status
  <2>8. CASE UNCHANGED vars
    BY <2>2, <2>8 DEF vars, rows
  <2>9. ASSUME NEW c \in Cancels, CancelCheck(c) \/ CancelReply(c) PROVE Kept
    BY <2>2, <2>9 DEF CancelCheck, CancelReply, rows
  <2>10. ASSUME NEW w \in Workers,
                \/ Sleep(w) \/ Poll(w) \/ Refused(w) \/ Send(w) \/ Receive(w)
                \/ LoseReply(w) \/ ReadFailure(w) \/ Audit(w) \/ Crash(w)
                \/ \E j \in Jobs : Skip(w, j)
         PROVE  Kept
    BY <2>2, <2>8, <2>10
    DEF Sleep, Poll, Refused, Send, Receive, LoseReply, ReadFailure, Audit, Crash,
        Skip, rows
  <2>11. ASSUME NEW j \in Jobs, NEW n \in Tries, Inventory(j, n) PROVE Kept
    BY <2>2, <2>11 DEF Inventory, Reject, Save, Reply, Break, InventoryStep, rows
  <2> QED
    BY <1>1, <2>3, <2>4, <2>5, <2>6, <2>7, <2>8, <2>9, <2>10, <2>11
    DEF Next, ApiStep, WorkerStep
<1> QED
    BY <1>1, Invariance, PTL DEF Spec, NeverRevived

(* Cancelling a job that nobody runs is reliable: no worker takes it up     *)
(* afterwards and no request for it is sent.                                *)
THEOREM CancellingIsReliable == Spec => CancelIsReliable
<1>1. ASSUME IInv, [Next]_vars, NEW j \in Jobs, status[j] = "cancelled", Unheld(j)
      PROVE  Unheld(j)' /\ NothingSent(j)
  <2>0. TypeOK /\ HeldJob
    BY <1>1 DEF IInv, OwnershipInv
  <2>1. ASSUME \A w \in Workers : Holds(w, j)' => Holds(w, j), UNCHANGED request
        PROVE  Unheld(j)' /\ NothingSent(j)
    BY <1>1, <2>1 DEF Unheld, NothingSent
  <2>2. ASSUME UNCHANGED <<pc, mine, request>>
        PROVE  Unheld(j)' /\ NothingSent(j)
    BY <2>1, <2>2 DEF Holds
  <2>3. CASE ApiStep \/ UNCHANGED vars
    BY <2>2, <2>3
    DEF ApiStep, Submit, CancelCheck, CancelUpdate, CancelReply, vars, locals
  <2>4. ASSUME NEW w \in Workers, NEW k \in Jobs, Claim(w, k)
        PROVE  Unheld(j)' /\ NothingSent(j)
    <3>1. k # j
      BY <1>1, <2>4 DEF Claim, MayStart
    <3> QED
      BY <2>0, <2>1, <2>4, <3>1 DEF Claim, TakeUp, Holds, Owning, TypeOK
  <2>5. ASSUME NEW w \in Workers, Send(w)
        PROVE  Unheld(j)' /\ NothingSent(j)
    <3>1. mine[w] # j
      BY <1>1, <2>5 DEF Send, Unheld, Holds, Owning
    <3>2. Unheld(j)'
      BY <1>1, <2>0, <2>5, <3>1 DEF Send, Goto, Unheld, Holds, TypeOK
    <3>3. NothingSent(j)
      BY <2>0, <2>5, <3>1 DEF Send, SetRequest, NothingSent, HeldJob, Owning, TypeOK
    <3> QED
      BY <3>2, <3>3
  <2>6. ASSUME NEW w \in Workers,
               \/ Poll(w) \/ (\E k \in Jobs : Skip(w, k)) \/ LoseReply(w)
               \/ Audit(w) \/ Crash(w)
        PROVE  Unheld(j)' /\ NothingSent(j)
    <3>1. PICK l \in {"poll", "claim"} : pc' = [pc EXCEPT ![w] = l]
      BY <2>6 DEF Poll, Skip, LoseReply, Audit, Crash, BackToPoll
    <3>2. \A v \in Workers : v # w => mine'[v] = mine[v] /\ pc'[v] = pc[v]
      BY <2>0, <2>6, <3>1 DEF Poll, Skip, LoseReply, Audit, Crash, BackToPoll, TypeOK
    <3>3. UNCHANGED request
      BY <2>6 DEF Poll, Skip, LoseReply, Audit, Crash
    <3> QED
      BY <2>0, <2>1, <3>1, <3>2, <3>3 DEF Holds, Owning, TypeOK
  <2>7. ASSUME NEW w \in Workers,
               \/ Refused(w) \/ Receive(w) \/ Finish(w) \/ ReadFailure(w)
               \/ RecordFailure(w)
        PROVE  Unheld(j)' /\ NothingSent(j)
    <3>1. pc[w] \in Owning /\ UNCHANGED <<mine, request>>
      BY <2>7 DEF Refused, Receive, Finish, ReadFailure, RecordFailure, Goto, Owning
    <3>2. \A v \in Workers : v # w => pc'[v] = pc[v]
      BY <2>0, <2>7 DEF Refused, Receive, Finish, ReadFailure, RecordFailure, Goto, TypeOK
    <3> QED
      BY <2>1, <3>1, <3>2 DEF Holds
  <2>8. ASSUME NEW k \in Jobs, NEW n \in Tries, Inventory(k, n)
        PROVE  Unheld(j)' /\ NothingSent(j)
    <3>1. UNCHANGED <<pc, mine>> /\ request[k][n] # "none"
      BY <2>8 DEF Inventory, Reject, Save, Reply, Break, InventoryStep, locals
    <3>2. NothingSent(j)
      BY <2>0, <2>8, <3>1
      DEF Inventory, Reject, Save, Reply, Break, InventoryStep, SetRequest,
          NothingSent, TypeOK
    <3> QED
      BY <1>1, <3>1, <3>2 DEF Unheld, Holds
  <2>9. ASSUME NEW w \in Workers, Sleep(w)
        PROVE  Unheld(j)' /\ NothingSent(j)
    BY <2>3, <2>9 DEF Sleep
  <2> QED
    BY <1>1, <2>3, <2>4, <2>5, <2>6, <2>7, <2>8, <2>9 DEF Next, WorkerStep
<1>2. ASSUME IInv, [Next]_vars
      PROVE  \A j \in Jobs : status[j] = "cancelled" /\ Unheld(j)
                                => Unheld(j)' /\ NothingSent(j)
    BY <1>1, <1>2
<1> QED
    BY <1>2, Invariance, PTL DEF Spec, CancelIsReliable

-----------------------------------------------------------------------------
(* The queue implements JobLifecycle: a try of a job starts, ends and is    *)
(* cancelled in one step of one transaction each, a scan row is delivered   *)
(* by the inventory's commit, and everything else is a stutter.             *)

Delivered == [j \in Jobs |-> \E n \in Tries : request[j][n] \in Saved]

Stutter == UNCHANGED <<status, attempts>> /\ Delivered' = Delivered

(* What is delivered depends on the requests alone.                         *)
LEMMA SameRequests == UNCHANGED request => Delivered' = Delivered
    BY DEF Delivered

(* A step that writes a status column is the step of JobLifecycle it is     *)
(* named after, or changes nothing because the row is no longer running.    *)
LEMMA StatusStep ==
    ASSUME NEW j \in Jobs, UNCHANGED request,
           \/ Submit(j)
           \/ \E c \in Cancels : CancelUpdate(c) /\ target[c] = j
           \/ \E w \in Workers : Claim(w, j)
           \/ \E w \in Workers : (Finish(w) \/ RecordFailure(w)) /\ mine[w] = j,
           IInv
    PROVE  Lifecycle!Next \/ Stutter
<1>0. Delivered' = Delivered
    BY SameRequests
<1>1. CASE Submit(j)
  <2>1. Lifecycle!Submit(j)
    BY <1>0, <1>1 DEF Submit, SetStatus, Lifecycle!Submit, Lifecycle!Move, Delivered
  <2> QED
    BY <2>1 DEF Lifecycle!Next
<1>2. ASSUME NEW c \in Cancels, CancelUpdate(c), target[c] = j
      PROVE  Lifecycle!Next
  <2>1. status[j] # "absent"
    BY <1>2 DEF IInv, OwnershipInv, CancelTarget, CancelUpdate
  <2>2. Lifecycle!Cancel(j)
    BY <1>0, <1>2, <2>1 DEF CancelUpdate, SetStatus, Lifecycle!Cancel, Delivered
  <2> QED
    BY <2>2 DEF Lifecycle!Next
<1>3. ASSUME NEW w \in Workers, Claim(w, j)
      PROVE  Lifecycle!Next
  <2>1. attempts[j] <= MaxRetries
    BY <1>3 DEF IInv, OwnershipInv, RetryBudget, Claim, MayStart
  <2>2. Lifecycle!Start(j)
    BY <1>0, <1>3, <2>1
    DEF Claim, MayStart, TakeUp, SetStatus, Lifecycle!Start, Lifecycle!Move, Delivered
  <2> QED
    BY <2>2 DEF Lifecycle!Next
<1>4. ASSUME NEW w \in Workers, Finish(w), mine[w] = j
      PROVE  Lifecycle!Next \/ Stutter
  <2>1. CASE StillRunning(j)
    <3>1. try[w] \in Tries /\ request[j][try[w]] = "created"
      BY <1>4 DEF IInv, OwnershipInv, HeldJob, ReplyInHand, ReplyTo, Finish, Owning
    <3>2. Delivered[j]
      BY <3>1 DEF Delivered, Saved
    <3>3. Lifecycle!Succeed(j)
      BY <1>0, <1>4, <2>1, <3>2
      DEF Finish, StillRunning, SetStatus, Lifecycle!Succeed, Lifecycle!Move, Delivered
    <3> QED
      BY <3>3 DEF Lifecycle!Next
  <2>2. CASE ~ StillRunning(j)
    BY <1>0, <1>4, <2>2 DEF Finish, Stutter
  <2> QED
    BY <2>1, <2>2
<1>5. ASSUME NEW w \in Workers, RecordFailure(w), mine[w] = j
      PROVE  Lifecycle!Next \/ Stutter
  <2>1. CASE StillRunning(j)
    <3>1. new_count[w] = attempts[j] /\ attempts[j] \in Int /\ attempts[j] <= MaxRetries + 1
      BY <1>5, <2>1, RetriesAssumption
      DEF IInv, OwnershipInv, CountIsFresh, RetryBudget, TypeOK, RecordFailure, StillRunning
    <3>2. CASE MayRetry(new_count[w])
      <4>1. Lifecycle!Retry(j)
        BY <1>0, <1>5, <2>1, <3>1, <3>2
        DEF RecordFailure, StillRunning, SetStatus, StatusAfterTry, MayRetry,
            Lifecycle!Retry, Lifecycle!Move, Delivered
      <4> QED
        BY <4>1 DEF Lifecycle!Next
    <3>3. CASE ~ MayRetry(new_count[w])
      <4>1. attempts[j] = MaxRetries + 1
        BY <3>1, <3>3, RetriesAssumption DEF MayRetry
      <4>2. Lifecycle!GiveUp(j)
        BY <1>0, <1>5, <2>1, <3>3, <4>1
        DEF RecordFailure, StillRunning, SetStatus, StatusAfterTry,
            Lifecycle!GiveUp, Lifecycle!Move, Delivered
      <4> QED
        BY <4>2 DEF Lifecycle!Next
    <3> QED
      BY <3>2, <3>3
  <2>2. CASE ~ StillRunning(j)
    BY <1>0, <1>5, <2>2 DEF RecordFailure, Stutter
  <2> QED
    BY <2>1, <2>2
<1> QED
    BY <1>1, <1>2, <1>3, <1>4, <1>5

(* A request's progress delivers the job, or changes nothing visible.       *)
LEMMA RequestStep ==
    ASSUME NEW j \in Jobs, NEW n \in Tries, NEW state, request[j][n] \notin Saved,
           SetRequest(j, n, state), UNCHANGED <<status, attempts>>, TypeOK,
           state \in Saved => attempts[j] > 0
    PROVE  Lifecycle!Next \/ Stutter
<1>1. CASE state \in Saved
  <2>1. Delivered' = [Delivered EXCEPT ![j] = TRUE]
    BY <1>1 DEF SetRequest, Delivered, TypeOK
  <2>2. Lifecycle!Deliver(j)
    BY <1>1, <2>1 DEF Lifecycle!Deliver, Delivered
  <2> QED
    BY <2>2 DEF Lifecycle!Next
<1>2. CASE state \notin Saved
  <2>1. Delivered' = Delivered
    BY <1>2 DEF SetRequest, Delivered, TypeOK
  <2> QED
    BY <2>1 DEF Stutter
<1> QED
    BY <1>1, <1>2

(* A step of the inventory delivers the job at its commit and is invisible  *)
(* otherwise.                                                               *)
LEMMA InventoryDelivers ==
    ASSUME IInv, NEW j \in Jobs, NEW n \in Tries, Inventory(j, n)
    PROVE  Lifecycle!Next \/ Stutter
<1>0. TypeOK /\ TriesInOrder /\ UNCHANGED <<status, attempts>>
    BY DEF IInv, OwnershipInv, Inventory, Reject, Save, Reply, Break,
        InventoryStep, rows
<1>1. CASE request[j][n] = "sent"
  <2>1. attempts[j] > 0
    <3>1. n \in Int /\ n > 0 /\ attempts[j] \in Int
      BY <1>0 DEF TypeOK, Tries
    <3>2. ~ (n > attempts[j])
      BY <1>0, <1>1 DEF TriesInOrder
    <3> QED
      BY <3>1, <3>2
  <2>2. PICK state : SetRequest(j, n, state)
    BY DEF Inventory, Reject, Save, Reply, Break, InventoryStep
  <2> QED
    BY <1>0, <1>1, <2>1, <2>2, RequestStep DEF Saved
<1>2. CASE request[j][n] = "saved"
  <2>1. PICK state \in Saved : SetRequest(j, n, state)
    BY <1>2 DEF Inventory, Reject, Save, Reply, Break, InventoryStep, Saved
  <2>2. Delivered' = Delivered
    BY <1>0, <1>2, <2>1 DEF SetRequest, Delivered, Saved, TypeOK
  <2> QED
    BY <1>0, <2>2 DEF Stutter
<1> QED
    BY <1>1, <1>2 DEF Inventory, Reject, Save, Reply, Break, InventoryStep

(* scan_jobs.py as a whole: whatever workers, cancel requests, crashes and  *)
(* lost replies do, each job goes through JobLifecycle.                     *)
THEOREM Refinement == Spec => ImplementsLifecycle
<1>1. Init => Lifecycle!Init
    BY DEF Init, Lifecycle!Init, Saved
<1>2. ASSUME IInv, [Next]_vars
      PROVE  Lifecycle!Next \/ Stutter
  <2>0. TypeOK /\ HeldJob /\ CancelTarget
    BY <1>2 DEF IInv, OwnershipInv
  <2>1. ASSUME UNCHANGED <<status, attempts, request>> PROVE Stutter
    BY <2>1, SameRequests DEF Stutter
  <2>2. ASSUME NEW j \in Jobs, Submit(j) PROVE Lifecycle!Next \/ Stutter
    BY <1>2, <2>2, StatusStep DEF Submit
  <2>3. ASSUME NEW c \in Cancels, CancelUpdate(c) PROVE Lifecycle!Next \/ Stutter
    <3>1. target[c] \in Jobs /\ UNCHANGED request
      BY <2>0, <2>3 DEF CancelUpdate, CancelTarget
    <3> QED
      BY <1>2, <2>3, <3>1, StatusStep
  <2>4. ASSUME NEW w \in Workers, NEW j \in Jobs, Claim(w, j)
        PROVE  Lifecycle!Next \/ Stutter
    BY <1>2, <2>4, StatusStep DEF Claim
  <2>5. ASSUME NEW w \in Workers, Finish(w) \/ RecordFailure(w)
        PROVE  Lifecycle!Next \/ Stutter
    <3>1. mine[w] \in Jobs /\ UNCHANGED request
      BY <2>0, <2>5 DEF Finish, RecordFailure, HeldJob, Owning
    <3> QED
      BY <1>2, <2>5, <3>1, StatusStep
  <2>6. ASSUME NEW w \in Workers, Send(w) PROVE Lifecycle!Next \/ Stutter
    <3>1. mine[w] \in Jobs /\ try[w] \in Tries /\ request[mine[w]][try[w]] = "none"
      BY <1>2, <2>0, <2>6 DEF Send, HeldJob, Owning, IInv, ReplyInHand, ReplyTo
    <3>2. SetRequest(mine[w], try[w], "sent") /\ UNCHANGED <<status, attempts>>
      BY <2>6 DEF Send, rows
    <3> QED
      BY <2>0, <3>1, <3>2, RequestStep DEF Saved
  <2>7. ASSUME NEW j \in Jobs, NEW n \in Tries, Inventory(j, n)
        PROVE  Lifecycle!Next \/ Stutter
    BY <1>2, <2>7, InventoryDelivers
  <2>8. CASE UNCHANGED vars
    BY <2>1, <2>8 DEF vars, rows
  <2>9. ASSUME NEW c \in Cancels, CancelCheck(c) \/ CancelReply(c) PROVE Stutter
    BY <2>1, <2>9 DEF CancelCheck, CancelReply, rows
  <2>10. ASSUME NEW w \in Workers,
                \/ Sleep(w) \/ Poll(w) \/ Refused(w) \/ Receive(w) \/ LoseReply(w)
                \/ ReadFailure(w) \/ Audit(w) \/ Crash(w)
                \/ \E j \in Jobs : Skip(w, j)
         PROVE  Stutter
    BY <2>1, <2>8, <2>10
    DEF Sleep, Poll, Refused, Receive, LoseReply, ReadFailure, Audit, Crash, Skip,
        rows, vars
  <2> QED
    BY <1>2, <2>2, <2>3, <2>4, <2>5, <2>6, <2>7, <2>8, <2>9, <2>10
    DEF Next, ApiStep, WorkerStep
<1>3. Stutter => UNCHANGED Lifecycle!vars
    BY DEF Stutter, Delivered, Lifecycle!vars
<1> QED
    BY <1>1, <1>2, <1>3, Invariance, PTL
    DEF Spec, ImplementsLifecycle, Lifecycle!Spec
=============================================================================
