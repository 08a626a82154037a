---------------------------- MODULE JobLifecycle ----------------------------
(***************************************************************************)
(* What the scan-job queue of api-gateway promises about one job, whatever *)
(* the number of workers, cancel requests, crashes and lost replies: a job *)
(* is tried at most MaxRetries + 1 times, one try at a time, only an       *)
(* operator's cancel may change the outcome of a finished job, a cancelled *)
(* job is never tried again, and "succeeded" is only ever written for a    *)
(* job whose scan reached the inventory.                                   *)
(*                                                                         *)
(* ScanJobs.tla is the detailed specification that implements this one.    *)
(***************************************************************************)
EXTENDS Integers

CONSTANTS Jobs,       \* identities of scan jobs
          MaxRetries  \* SCAN_JOB_MAX_RETRIES

VARIABLES phase,      \* phase[j]: the status column, "absent" before creation
          tries,      \* tries[j]: how many times the job was started
          delivered   \* delivered[j]: a scan row of the job exists in inventory

vars == <<phase, tries, delivered>>

Phase == {"absent", "queued", "running", "succeeded", "failed", "cancelled"}

TypeOK == /\ phase \in [Jobs -> Phase]
          /\ tries \in [Jobs -> 0 .. MaxRetries + 1]
          /\ delivered \in [Jobs -> BOOLEAN]

Init == /\ phase = [j \in Jobs |-> "absent"]
        /\ tries = [j \in Jobs |-> 0]
        /\ delivered = [j \in Jobs |-> FALSE]

Move(j, from, to) == /\ phase[j] = from
                     /\ phase' = [phase EXCEPT ![j] = to]

Submit(j) == Move(j, "absent", "queued") /\ UNCHANGED <<tries, delivered>>

Start(j) == /\ Move(j, "queued", "running")
            /\ tries[j] <= MaxRetries
            /\ tries' = [tries EXCEPT ![j] = @ + 1]
            /\ UNCHANGED delivered

(* The inventory commits a scan row: any time after the first start, even   *)
(* after the job was cancelled or the worker stopped listening.             *)
Deliver(j) == /\ tries[j] > 0
              /\ delivered' = [delivered EXCEPT ![j] = TRUE]
              /\ UNCHANGED <<phase, tries>>

Succeed(j) == /\ Move(j, "running", "succeeded")
              /\ delivered[j]
              /\ UNCHANGED <<tries, delivered>>

Retry(j) == /\ Move(j, "running", "queued")
            /\ tries[j] <= MaxRetries
            /\ UNCHANGED <<tries, delivered>>

GiveUp(j) == /\ Move(j, "running", "failed")
             /\ tries[j] = MaxRetries + 1
             /\ UNCHANGED <<tries, delivered>>

(* The cancel handler checks the status in one transaction and overwrites   *)
(* it in the next, so all that is promised is that the job exists.          *)
Cancel(j) == /\ phase[j] # "absent"
             /\ phase' = [phase EXCEPT ![j] = "cancelled"]
             /\ UNCHANGED <<tries, delivered>>

Next == \E j \in Jobs : \/ Submit(j)
                        \/ Start(j)
                        \/ Deliver(j)
                        \/ Succeed(j)
                        \/ Retry(j)
                        \/ GiveUp(j)
                        \/ Cancel(j)

Spec == Init /\ [][Next]_vars
=============================================================================
