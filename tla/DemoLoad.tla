------------------------------ MODULE DemoLoad ------------------------------
(***************************************************************************)
(* POST /api/demo/load of the api-gateway over the inventory: every load   *)
(* lists the assets, makes a workspace when something is missing, ingests  *)
(* what it did not see, writes two files and audits the outcome.           *)
(*                                                                         *)
(* The inventory is as in Inventory, one stage per commit, for the one     *)
(* asset of each demo payload: scan saved, asset inserted, asset scored.   *)
(* A load that gives up on a reply leaves the inventory working on it.     *)
(***************************************************************************)
EXTENDS Integers, Sequences, FiniteSets

CONSTANTS Loads,     \* clicks on "Load Demo"; each is handled once
          Demo,      \* the names of the demo assets, in order of their payloads
          Faults,    \* which calls may fail: see the actions
          MaxOpen    \* bound: loads handled at the same time

DemoAssumption == /\ Demo \in Seq(STRING)
                  /\ \A i, j \in DOMAIN Demo : Demo[i] = Demo[j] => i = j

DemoNames == {Demo[i] : i \in DOMAIN Demo}

VARIABLES assets,    \* names of the assets of the inventory
          scans,     \* scans[n]: scan rows of the payload of n
          scored,    \* names with a risk result
          workspaces, \* loads whose POST /workspaces created a workspace
          snapshot,  \* whether the graph snapshot file exists
          pc,        \* pc[l]: the call load l does next
          known,     \* known[l]: existing_names
          at,        \* at[l]: index of its next payload
          request,   \* request[l]: the inventory's work on its last ingest
          step,      \* step[l][n]: status of the step ingest of n
          audit,     \* rows <<load, result>>
          disturbed  \* history: loads overlapped, or a call failed halfway

inventory == <<assets, scans, scored>>
vars == <<inventory, workspaces, snapshot, pc, known, at, request, step, audit, disturbed>>

LoadPC  == {"idle", "list", "workspace", "payload", "reply", "files", "done", "dead"}
Status  == {"none", "skipped", "ok", "error"}
Replies == {"refused", "broken", "created"}

TypeOK == /\ assets \subseteq DemoNames /\ scored \subseteq DemoNames
          /\ scans \in [DemoNames -> Nat]
          /\ workspaces \subseteq Loads
          /\ snapshot \in BOOLEAN
          /\ pc \in [Loads -> LoadPC]
          /\ known \in [Loads -> SUBSET DemoNames]
          /\ at \in [Loads -> 1 .. Len(Demo) + 1]
          /\ request \in [Loads -> {"none", "sent", "saved", "asset"} \union Replies]
          /\ step \in [Loads -> [DemoNames -> Status]]
          /\ audit \subseteq Loads \X {"success", "failure"}
          /\ disturbed \in BOOLEAN

Init == /\ assets = {} /\ scored = {} /\ workspaces = {} /\ audit = {}
        /\ snapshot = FALSE /\ disturbed = FALSE
        /\ scans = [n \in DemoNames |-> 0]
        /\ pc = [l \in Loads |-> "idle"]
        /\ known = [l \in Loads |-> {}]
        /\ at = [l \in Loads |-> 1]
        /\ request = [l \in Loads |-> "none"]
        /\ step = [l \in Loads |-> [n \in DemoNames |-> "none"]]

Goto(l, p) == pc' = [pc EXCEPT ![l] = p]
Open       == {l \in Loads : pc[l] \notin {"idle", "done", "dead"}}

-----------------------------------------------------------------------------
(* demo_load *)

Click(l) ==
    /\ pc[l] = "idle"
    /\ Cardinality(Open) < MaxOpen
    /\ Goto(l, "list")
    /\ disturbed' = (disturbed \/ Open # {})
    /\ UNCHANGED <<inventory, workspaces, snapshot, known, at, request, step, audit>>

(* GET /assets; an HTTPException counts as an empty inventory.  needs_ingest *)
(* decides whether there will be a workspace.                               *)
NeedsIngest(S) == \E n \in DemoNames : n \notin S

List(l) ==
    /\ pc[l] = "list"
    /\ \E S \in {assets} \union (IF "list" \in Faults THEN {{}} ELSE {}) :
          /\ known' = [known EXCEPT ![l] = S]
          /\ disturbed' = (disturbed \/ S # assets)
          /\ Goto(l, IF NeedsIngest(S) THEN "workspace" ELSE "payload")
    /\ UNCHANGED <<inventory, workspaces, snapshot, at, request, step, audit>>

(* POST /workspaces; on failure each scan gets a workspace of its own.      *)
MakeWorkspace(l) ==
    /\ pc[l] = "workspace"
    /\ \/ workspaces' = workspaces \union {l}
       \/ "workspace" \in Faults /\ UNCHANGED workspaces
    /\ Goto(l, "payload")
    /\ UNCHANGED <<inventory, snapshot, known, at, request, step, audit, disturbed>>

Record(l, s) == /\ step' = [step EXCEPT ![l][Demo[at[l]]] = s]
                /\ at' = [at EXCEPT ![l] = @ + 1]

(* An asset that was there when the load began is skipped.                  *)
AlreadySeen(l) == Demo[at[l]] \in known[l]

Payload(l) ==
    /\ pc[l] = "payload"
    /\ \/ /\ at[l] > Len(Demo)
          /\ Goto(l, "files")
          /\ UNCHANGED <<at, step, request>>
       \/ /\ at[l] <= Len(Demo) /\ AlreadySeen(l)
          /\ Record(l, "skipped")
          /\ UNCHANGED <<pc, request>>
       \/ /\ at[l] <= Len(Demo) /\ ~AlreadySeen(l)
          /\ request' = [request EXCEPT ![l] = "sent"]
          /\ Goto(l, "reply")
          /\ UNCHANGED <<at, step>>
    /\ UNCHANGED <<inventory, workspaces, snapshot, known, audit, disturbed>>

(* Faulty: every answer is called ok.                                       *)
AnyReply(l) == "ok"
StepOf(l)   == IF request[l] = "created" THEN "ok" ELSE "error"

Receive(l) ==
    /\ pc[l] = "reply"
    /\ request[l] \in Replies
    /\ Record(l, StepOf(l))
    /\ Goto(l, "payload")
    /\ UNCHANGED <<inventory, workspaces, snapshot, known, request, audit, disturbed>>

(* write_demo_doc_index, build_demo_graph_snapshot, the audit row and the   *)
(* answer.                                                                  *)
Overall(l, doc, graph) ==
    IF doc /\ graph /\ \A n \in DemoNames : step[l][n] \in {"ok", "skipped"}
    THEN "success" ELSE "failure"

Finish(l) ==
    /\ pc[l] = "files"
    /\ \E doc, graph \in {TRUE} \union (IF "files" \in Faults THEN {FALSE} ELSE {}) :
          /\ snapshot' = (snapshot \/ graph)
          /\ audit' = audit \union {<<l, Overall(l, doc, graph)>>}
    /\ Goto(l, "done")
    /\ UNCHANGED <<inventory, workspaces, known, at, request, step, disturbed>>

(* A reply that takes longer than 10 s or a graph projection longer than    *)
(* 30 s raises what no handler here catches: 500, and no audit row.         *)
Die(l) ==
    /\ "timeout" \in Faults
    /\ pc[l] \in {"list", "workspace", "reply", "files"}
    /\ Goto(l, "dead")
    /\ disturbed' = (disturbed \/ pc[l] = "reply")
    /\ UNCHANGED <<inventory, workspaces, snapshot, known, at, request, step, audit>>

-----------------------------------------------------------------------------
(* The inventory's handling of the request of l, whether or not l waits *)

To(l, s) == /\ request' = [request EXCEPT ![l] = s]
            /\ UNCHANGED <<workspaces, snapshot, pc, known, at, step, audit>>

Refuse(l) == /\ "refuse" \in Faults
             /\ request[l] = "sent" /\ To(l, "refused")
             /\ UNCHANGED <<inventory, disturbed>>

Save(l) == /\ request[l] = "sent" /\ To(l, "saved")
           /\ scans' = [scans EXCEPT ![Demo[at[l]]] = @ + 1]
           /\ UNCHANGED <<assets, scored, disturbed>>

Insert(l) == /\ request[l] = "saved" /\ To(l, "asset")
             /\ assets' = assets \union {Demo[at[l]]}
             /\ UNCHANGED <<scans, scored, disturbed>>

Score(l) == /\ request[l] = "asset" /\ To(l, "created")
            /\ scored' = scored \union {Demo[at[l]]}
            /\ UNCHANGED <<assets, scans, disturbed>>

(* A failure between the commits.                                           *)
Break(l) == /\ "break" \in Faults
            /\ request[l] \in {"saved", "asset"} /\ To(l, "broken")
            /\ disturbed' = TRUE
            /\ UNCHANGED inventory

-----------------------------------------------------------------------------
(* The specification *)

Load(l)      == Click(l) \/ List(l) \/ MakeWorkspace(l) \/ Payload(l) \/ Receive(l) \/ Finish(l)
Inventory(l) == Refuse(l) \/ Save(l) \/ Insert(l) \/ Score(l) \/ Break(l)

Next == \E l \in Loads : Load(l) \/ Die(l) \/ Inventory(l)

Spec == Init /\ [][Next]_vars

(* A handler thread runs on, and the inventory works on what it accepted.   *)
FairSpec == /\ Spec
            /\ \A l \in Loads : WF_vars(Load(l) /\ pc[l] # "idle") /\ WF_vars(Inventory(l))

-----------------------------------------------------------------------------
(* Whatever overlaps and fails *)

(* demo_load: an audited success means that the whole demo set is there.    *)
SuccessIsLoaded == \A l \in Loads : <<l, "success">> \in audit => assets = DemoNames

(* demo_load: "each step is recorded independently so a single failure      *)
(* doesn't hide the others".                                                *)
EveryStepIsRecorded ==
    \A l \in Loads : pc[l] \in {"files", "done"} => \A n \in DemoNames : step[l][n] # "none"

(* demo_load: "idempotent re-clicks that skip everything don't leave empty  *)
(* workspaces behind".                                                      *)
NoIdleWorkspace ==
    \A l \in workspaces : \E n \in DemoNames : step[l][n] # "skipped"

(* The inductive invariant.  A load has recorded the payloads before its    *)
(* next one; the inventory works for a load that waits or is gone, so the   *)
(* payload that it works on is the load's next one; what a load has seen or *)
(* called ok is in the inventory, which only grows.                         *)
Progress ==
    \A l \in Loads :
        /\ \A i \in DOMAIN Demo : i < at[l] => step[l][Demo[i]] # "none"
        /\ pc[l] \in {"files", "done"} => at[l] = Len(Demo) + 1
        /\ pc[l] = "reply" \/ request[l] \in {"sent", "saved", "asset"}
           => at[l] \in DOMAIN Demo /\ pc[l] \in {"reply", "dead"}
Sightings ==
    \A l \in Loads :
        /\ known[l] \subseteq assets
        /\ request[l] = "asset" => Demo[at[l]] \in assets
        /\ pc[l] = "reply" /\ request[l] = "created" => Demo[at[l]] \in assets
        /\ \A n \in DemoNames : /\ step[l][n] = "skipped" => n \in known[l]
                                /\ step[l][n] = "ok" => n \in assets
        /\ pc[l] \in {"idle", "list"} => \A n \in DemoNames : step[l][n] = "none"
        /\ pc[l] = "workspace" \/ l \in workspaces => NeedsIngest(known[l])
        /\ l \in workspaces => pc[l] \notin {"idle", "list"}
IInv == TypeOK /\ Progress /\ Sightings /\ SuccessIsLoaded

(* One click saves a payload at most once, whatever became of the reply.    *)
OneScanPerLoad ==
    \A n \in DemoNames : scans[n] <= Cardinality({l \in Loads : pc[l] # "idle"})

(* What makes it so: each scan is the work of a load of its own, which has  *)
(* recorded the payload or is at it, and no payload is recorded early.      *)
HasSaved(l, n) ==
    \/ step[l][n] \in {"ok", "error"}
    \/ /\ pc[l] \in {"reply", "dead"} /\ at[l] \in DOMAIN Demo /\ Demo[at[l]] = n
       /\ request[l] \in {"saved", "asset", "broken", "created"}
Savers(n) == {l \in Loads : HasSaved(l, n)}

ScansAreCounted ==
    /\ \A l \in Loads : \A i \in DOMAIN Demo : i >= at[l] => step[l][Demo[i]] = "none"
    /\ \A n \in DemoNames : scans[n] <= Cardinality(Savers(n))

-----------------------------------------------------------------------------
(* When loads do not overlap and only whole calls fail *)

(* demo_load: "clicking "Load Demo" twice doesn't create duplicate          *)
(* scans/findings".                                                         *)
LoadsOnce == ~disturbed => \A n \in DemoNames : scans[n] <= 1

(* A load that is audited as a success leaves every demo asset with a risk  *)
(* result, those it skipped included.                                       *)
SuccessIsScored ==
    ~disturbed => \A l \in Loads : <<l, "success">> \in audit => scored = DemoNames

(* What makes it so: one load is open, and the inventory works for no other *)
(* one; what it has yet to send was in the inventory when it asked, or is   *)
(* not there; a saved scan has its asset, and an asset its risk result,     *)
(* unless the inventory is about to insert it.                              *)
Unsent(l, i) == i > at[l] \/ (i = at[l] /\ ~(pc[l] = "reply" /\ request[l] \in {"asset", "created"}))
OpenOneIsAlone ==
    \A l \in Loads :
        /\ l \in Open => \A g \in Open : g = l
        /\ request[l] \in {"sent", "saved", "asset"} => pc[l] = "reply"
        /\ pc[l] = "reply" => ~AlreadySeen(l)
        /\ pc[l] \in {"workspace", "payload", "reply"} => \A i \in DOMAIN Demo :
              Unsent(l, i) /\ Demo[i] \in assets => Demo[i] \in known[l]
WorksOn(n, s) == \E l \in Loads : request[l] = s /\ Demo[at[l]] = n
NothingIsLost ==
    \A n \in DemoNames :
        /\ scans[n] = 0 \/ (scans[n] = 1 /\ (n \in assets \/ WorksOn(n, "saved")))
        /\ n \in assets => n \in scored \/ WorksOn(n, "asset")
Undisturbed == ~disturbed => OpenOneIsAlone /\ NothingIsLost

(* Every load ends, with an answer or an error; the loads before it and the *)
(* inventory cannot hold it up.                                             *)
LoadsEnd == \A l \in Loads : pc[l] = "list" ~> pc[l] \in {"done", "dead"}
=============================================================================
