--------------------------- MODULE IngestContract ---------------------------
(***************************************************************************)
(* What POST /scans/ingest promises to its caller about one request: a     *)
(* refused request left no scan behind; a scan is saved once, before the   *)
(* answer, and stays saved whatever the answer is.                         *)
(*                                                                         *)
(* inventory-service implements it (Inventory), and the scan-job queue     *)
(* assumes nothing else of the inventory (ScanJobs).                       *)
(***************************************************************************)
CONSTANT Requests

VARIABLE request  \* request[r]: how far the handling of r is

RequestState == {"none", "sent", "saved", "created", "rejected", "broken"}

Init == request = [r \in Requests |-> "none"]

Becomes(r, s) == request' = [request EXCEPT ![r] = s]

(* A caller that has its answer may reuse r for another request.            *)
Send(r)   == request[r] # "saved" /\ Becomes(r, "sent")

(* 4xx, or a failure before the commit of the scan row.                     *)
Refuse(r) == request[r] # "saved" /\ Becomes(r, "rejected")

(* The commit of the scan row.                                              *)
Save(r)   == request[r] = "sent" /\ Becomes(r, "saved")

(* 201, or a failure after the commit.                                      *)
Acknowledge(r) == request[r] = "saved" /\ Becomes(r, "created")
Break(r)       == request[r] = "saved" /\ Becomes(r, "broken")

Next == \E r \in Requests :
           Send(r) \/ Refuse(r) \/ Save(r) \/ Acknowledge(r) \/ Break(r)

Spec == Init /\ [][Next]_request
=============================================================================
