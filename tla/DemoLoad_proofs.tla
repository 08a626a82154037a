--------------------------- MODULE DemoLoad_proofs ---------------------------
(***************************************************************************)
(* Proofs about DemoLoad: what an audited outcome of a demo load means, for *)
(* any set of demo assets, any number of overlapping loads and every        *)
(* failure of the calls they make.                                         *)
(*                                                                         *)
(* The invariant is IInv.  A step is one load's, or the inventory's for    *)
(* one load; the other loads see at most that the inventory has grown.     *)
(***************************************************************************)
EXTENDS DemoLoad, FiniteSetTheorems, TLAPS

-----------------------------------------------------------------------------
(* The invariant, load by load                                              *)

ProgressOf(l) ==
    /\ \A i \in DOMAIN Demo : i < at[l] => step[l][Demo[i]] # "none"
    /\ pc[l] \in {"files", "done"} => at[l] = Len(Demo) + 1
    /\ pc[l] = "reply" \/ request[l] \in {"sent", "saved", "asset"}
       => at[l] \in DOMAIN Demo /\ pc[l] \in {"reply", "dead"}

SightingsOf(l) ==
    /\ known[l] \subseteq assets
    /\ request[l] = "asset" => Demo[at[l]] \in assets
    /\ pc[l] = "reply" /\ request[l] = "created" => Demo[at[l]] \in assets
    /\ \A n \in DemoNames : /\ step[l][n] = "skipped" => n \in known[l]
                            /\ step[l][n] = "ok" => n \in assets
    /\ pc[l] \in {"idle", "list"} => \A n \in DemoNames : step[l][n] = "none"
    /\ pc[l] = "workspace" \/ l \in workspaces => NeedsIngest(known[l])
    /\ l \in workspaces => pc[l] \notin {"idle", "list"}

LEMMA ByLoad == /\ IInv <=> /\ TypeOK /\ SuccessIsLoaded
                            /\ \A l \in Loads : ProgressOf(l) /\ SightingsOf(l)
                /\ IInv' <=> /\ TypeOK' /\ SuccessIsLoaded'
                             /\ \A l \in Loads : ProgressOf(l)' /\ SightingsOf(l)'
BY DEF IInv, Progress, Sightings, ProgressOf, SightingsOf

Same(g) == /\ pc'[g] = pc[g] /\ known'[g] = known[g] /\ at'[g] = at[g]
           /\ request'[g] = request[g] /\ step'[g] = step[g]
           /\ (g \in workspaces' <=> g \in workspaces)

LEMMA OthersKeep ==
    ASSUME NEW g \in Loads, ProgressOf(g), SightingsOf(g), Same(g), assets \subseteq assets'
    PROVE  ProgressOf(g)' /\ SightingsOf(g)'
<1>1. ProgressOf(g)'
    BY DEF ProgressOf, Same
<1>2. SightingsOf(g)'
    BY DEF SightingsOf, Same, NeedsIngest
<1> QED
    BY <1>1, <1>2

LEMMA OneMoves ==
    ASSUME IInv, TypeOK', SuccessIsLoaded', assets \subseteq assets', NEW l \in Loads,
           ProgressOf(l)', SightingsOf(l)', \A g \in Loads \ {l} : Same(g)
    PROVE  IInv'
BY ByLoad, OthersKeep

(* An inventory that has every demo asset keeps them.                       *)
LEMMA StaysLoaded ==
    ASSUME IInv, TypeOK', assets \subseteq assets', UNCHANGED audit
    PROVE  SuccessIsLoaded'
BY DEF IInv, SuccessIsLoaded, TypeOK

(* The next payload of a load that has one is a demo asset.                 *)
LEMMA NextPayload ==
    ASSUME DemoAssumption, TypeOK, NEW l \in Loads, at[l] <= Len(Demo)
    PROVE  at[l] \in DOMAIN Demo /\ Demo[at[l]] \in DemoNames /\ at[l] + 1 \in 1 .. Len(Demo) + 1
BY DEF DemoAssumption, TypeOK, DemoNames

-----------------------------------------------------------------------------
(* demo_load                                                                *)

LEMMA ClickKeeps ==
    ASSUME DemoAssumption, IInv, NEW l \in Loads, Click(l)
    PROVE  IInv'
<1>1. TypeOK /\ ProgressOf(l) /\ SightingsOf(l)
    BY ByLoad
<1>2. TypeOK'
    BY <1>1 DEF TypeOK, Click, Goto, LoadPC, inventory
<1>3. ProgressOf(l)' /\ SightingsOf(l)'
    BY <1>1 DEF ProgressOf, SightingsOf, TypeOK, Click, Goto, inventory
<1>4. \A g \in Loads \ {l} : Same(g)
    BY <1>1 DEF Same, Click, Goto, TypeOK
<1> QED
    BY <1>2, <1>3, <1>4, StaysLoaded, OneMoves DEF Click, inventory

LEMMA ListKeeps ==
    ASSUME DemoAssumption, IInv, NEW l \in Loads, List(l)
    PROVE  IInv'
<1>1. TypeOK /\ ProgressOf(l) /\ SightingsOf(l) /\ pc[l] = "list"
    BY ByLoad DEF List
<1>2. PICK S \in {assets} \union (IF "list" \in Faults THEN {{}} ELSE {}) :
          /\ known' = [known EXCEPT ![l] = S]
          /\ Goto(l, IF NeedsIngest(S) THEN "workspace" ELSE "payload")
    BY DEF List
<1>3. S \subseteq assets /\ S \subseteq DemoNames
    BY <1>1 DEF TypeOK
<1>4. TypeOK'
    BY <1>1, <1>2, <1>3 DEF TypeOK, List, Goto, LoadPC, inventory
<1>5. /\ known'[l] = S /\ pc'[l] = (IF NeedsIngest(S) THEN "workspace" ELSE "payload")
      /\ UNCHANGED <<assets, workspaces, at, request, step>>
    BY <1>1, <1>2 DEF TypeOK, List, Goto, inventory
<1>6. ProgressOf(l)'
    BY <1>1, <1>5 DEF ProgressOf
<1>7. SightingsOf(l)'
    BY <1>1, <1>3, <1>5 DEF SightingsOf, ProgressOf, NeedsIngest
<1>8. \A g \in Loads \ {l} : Same(g)
    BY <1>1, <1>2 DEF Same, List, Goto, TypeOK
<1> QED
    BY <1>4, <1>6, <1>7, <1>8, StaysLoaded, OneMoves DEF List, inventory

LEMMA MakeWorkspaceKeeps ==
    ASSUME DemoAssumption, IInv, NEW l \in Loads, MakeWorkspace(l)
    PROVE  IInv'
<1>1. TypeOK /\ ProgressOf(l) /\ SightingsOf(l) /\ pc[l] = "workspace"
    BY ByLoad DEF MakeWorkspace
<1>2. TypeOK'
    BY <1>1 DEF TypeOK, MakeWorkspace, Goto, LoadPC, inventory
<1>3. /\ pc'[l] = "payload" /\ UNCHANGED <<assets, known, at, request, step>>
    BY <1>1 DEF TypeOK, MakeWorkspace, Goto, inventory
<1>4. ProgressOf(l)' /\ SightingsOf(l)'
    BY <1>1, <1>3 DEF ProgressOf, SightingsOf, NeedsIngest
<1>5. \A g \in Loads \ {l} : Same(g)
    BY <1>1 DEF Same, MakeWorkspace, Goto, TypeOK
<1> QED
    BY <1>2, <1>4, <1>5, StaysLoaded, OneMoves DEF MakeWorkspace, inventory

(* A recorded payload is behind the load.                                   *)
LEMMA RecordKeeps ==
    ASSUME DemoAssumption, IInv, NEW l \in Loads, at[l] <= Len(Demo),
           NEW s \in Status \ {"none"}, Record(l, s),
           pc[l] \in {"payload", "reply"}, pc' = [pc EXCEPT ![l] = "payload"],
           request[l] \notin {"sent", "saved", "asset"},
           s = "skipped" => Demo[at[l]] \in known[l],
           s = "ok" => Demo[at[l]] \in assets,
           UNCHANGED <<inventory, workspaces, snapshot, known, request, audit, disturbed>>
    PROVE  IInv'
<1>1. TypeOK /\ ProgressOf(l) /\ SightingsOf(l)
    BY ByLoad
<1>2. at[l] \in DOMAIN Demo /\ Demo[at[l]] \in DemoNames /\ at[l] + 1 \in 1 .. Len(Demo) + 1
    BY <1>1, NextPayload
<1>3. /\ at'[l] = at[l] + 1 /\ pc'[l] = "payload"
      /\ step'[l][Demo[at[l]]] = s
      /\ \A n \in DemoNames \ {Demo[at[l]]} : step'[l][n] = step[l][n]
    BY <1>1, <1>2 DEF Record, TypeOK
<1>4. TypeOK'
  <2>1. step' \in [Loads -> [DemoNames -> Status]] /\ at' \in [Loads -> 1 .. Len(Demo) + 1]
      BY <1>1, <1>2 DEF Record, TypeOK
  <2> QED
      BY <1>1, <2>1 DEF TypeOK, LoadPC, inventory
<1>5. ProgressOf(l)'
  <2>1. ASSUME NEW i \in DOMAIN Demo, i < at[l] + 1 PROVE step'[l][Demo[i]] # "none"
    <3>1. i < at[l] \/ i = at[l]
        BY <1>1, <2>1 DEF TypeOK, DemoAssumption
    <3>2. Demo[i] \in DemoNames
        BY DEF DemoNames
    <3> QED
        BY <1>1, <1>3, <3>1, <3>2 DEF ProgressOf
  <2> QED
      BY <1>3, <2>1 DEF ProgressOf
<1>6. SightingsOf(l)'
    BY <1>1, <1>2, <1>3 DEF SightingsOf, NeedsIngest, inventory
<1>7. \A g \in Loads \ {l} : Same(g)
    BY <1>1 DEF Same, Record, TypeOK
<1> QED
    BY <1>4, <1>5, <1>6, <1>7, StaysLoaded, OneMoves DEF inventory

LEMMA PayloadKeeps ==
    ASSUME DemoAssumption, IInv, NEW l \in Loads, Payload(l)
    PROVE  IInv'
<1>1. TypeOK /\ ProgressOf(l) /\ SightingsOf(l) /\ pc[l] = "payload"
    BY ByLoad DEF Payload
<1>2. CASE at[l] > Len(Demo) /\ Goto(l, "files") /\ UNCHANGED <<at, step, request>>
  <2>1. at[l] = Len(Demo) + 1
      BY <1>1, <1>2 DEF TypeOK, DemoAssumption
  <2>2. TypeOK'
      BY <1>1, <1>2 DEF TypeOK, Payload, Goto, LoadPC, inventory
  <2>3. ProgressOf(l)' /\ SightingsOf(l)'
      BY <1>1, <1>2, <2>1 DEF ProgressOf, SightingsOf, NeedsIngest, TypeOK, Payload, Goto, inventory
  <2>4. \A g \in Loads \ {l} : Same(g)
      BY <1>1, <1>2 DEF Same, Payload, Goto, TypeOK
  <2> QED
      BY <2>2, <2>3, <2>4, StaysLoaded, OneMoves DEF Payload, inventory
<1>3. CASE at[l] <= Len(Demo) /\ AlreadySeen(l) /\ Record(l, "skipped") /\ UNCHANGED <<pc, request>>
  <2>1. pc' = [pc EXCEPT ![l] = "payload"] /\ request[l] \notin {"sent", "saved", "asset"}
      BY <1>1, <1>3 DEF TypeOK, ProgressOf
  <2> QED
      BY <1>1, <1>3, <2>1, RecordKeeps DEF Payload, AlreadySeen, Status
<1>4. CASE /\ at[l] <= Len(Demo) /\ Goto(l, "reply") /\ UNCHANGED <<at, step>>
           /\ request' = [request EXCEPT ![l] = "sent"]
  <2>1. at[l] \in DOMAIN Demo
      BY <1>1, <1>4, NextPayload
  <2>2. TypeOK'
      BY <1>1, <1>4 DEF TypeOK, Payload, Goto, LoadPC, inventory
  <2>3. ProgressOf(l)' /\ SightingsOf(l)'
      BY <1>1, <1>4, <2>1 DEF ProgressOf, SightingsOf, NeedsIngest, TypeOK, Payload, Goto, inventory
  <2>4. \A g \in Loads \ {l} : Same(g)
      BY <1>1, <1>4 DEF Same, Payload, Goto, TypeOK
  <2> QED
      BY <2>2, <2>3, <2>4, StaysLoaded, OneMoves DEF Payload, inventory
<1> QED
    BY <1>2, <1>3, <1>4 DEF Payload

LEMMA ReceiveKeeps ==
    ASSUME DemoAssumption, IInv, NEW l \in Loads, Receive(l)
    PROVE  IInv'
<1>1. TypeOK /\ ProgressOf(l) /\ SightingsOf(l) /\ pc[l] = "reply" /\ request[l] \in Replies
    BY ByLoad DEF Receive
<1>2. at[l] <= Len(Demo)
    BY <1>1 DEF ProgressOf, DemoAssumption
<1>3. StepOf(l) \in Status \ {"none", "skipped"} /\ (StepOf(l) = "ok" => Demo[at[l]] \in assets)
    BY <1>1 DEF StepOf, Status, SightingsOf
<1> QED
    BY <1>1, <1>2, <1>3, RecordKeeps DEF Receive, Goto, Replies

(* A load that is done has recorded every payload, so a success has found   *)
(* or made each.                                                            *)
LEMMA FinishKeeps ==
    ASSUME DemoAssumption, IInv, NEW l \in Loads, Finish(l)
    PROVE  IInv'
<1>1. TypeOK /\ ProgressOf(l) /\ SightingsOf(l) /\ pc[l] = "files"
    BY ByLoad DEF Finish
<1>2. PICK doc, graph \in {TRUE} \union (IF "files" \in Faults THEN {FALSE} ELSE {}) :
          /\ snapshot' = (snapshot \/ graph)
          /\ audit' = audit \union {<<l, Overall(l, doc, graph)>>}
    BY DEF Finish
<1>3. TypeOK'
  <2>1. snapshot' \in BOOLEAN
      BY <1>2
  <2>2. audit' \subseteq Loads \X {"success", "failure"}
      BY <1>1, <1>2 DEF TypeOK, Overall
  <2> QED
      BY <1>1, <2>1, <2>2 DEF TypeOK, Finish, Goto, LoadPC, inventory
<1>4. SuccessIsLoaded'
  <2>1. Overall(l, doc, graph) = "success" => assets = DemoNames
      BY <1>1 DEF Overall, SightingsOf, TypeOK
  <2>2. ASSUME NEW g \in Loads, <<g, "success">> \in audit' PROVE assets = DemoNames
    <3>1. CASE <<g, "success">> \in audit
        BY <3>1 DEF IInv, SuccessIsLoaded
    <3>2. CASE <<g, "success">> = <<l, Overall(l, doc, graph)>>
        BY <2>1, <3>2
    <3> QED
        BY <1>2, <2>2, <3>1, <3>2
  <2> QED
      BY <2>2 DEF SuccessIsLoaded, Finish, inventory
<1>5. ProgressOf(l)' /\ SightingsOf(l)'
    BY <1>1 DEF ProgressOf, SightingsOf, NeedsIngest, TypeOK, Finish, Goto, inventory
<1>6. \A g \in Loads \ {l} : Same(g)
    BY <1>1 DEF Same, Finish, Goto, TypeOK
<1> QED
    BY <1>3, <1>4, <1>5, <1>6, OneMoves DEF Finish, inventory

LEMMA DieKeeps ==
    ASSUME DemoAssumption, IInv, NEW l \in Loads, Die(l)
    PROVE  IInv'
<1>1. TypeOK /\ ProgressOf(l) /\ SightingsOf(l)
    BY ByLoad
<1>2. TypeOK'
    BY <1>1 DEF TypeOK, Die, Goto, LoadPC, inventory
<1>3. ProgressOf(l)' /\ SightingsOf(l)'
    BY <1>1 DEF ProgressOf, SightingsOf, NeedsIngest, TypeOK, Die, Goto, inventory
<1>4. \A g \in Loads \ {l} : Same(g)
    BY <1>1 DEF Same, Die, Goto, TypeOK
<1> QED
    BY <1>2, <1>3, <1>4, StaysLoaded, OneMoves DEF Die, inventory

-----------------------------------------------------------------------------
(* The inventory's part                                                     *)

LEMMA InventoryKeeps ==
    ASSUME DemoAssumption, IInv, NEW l \in Loads, Inventory(l)
    PROVE  IInv'
<1> DEFINE n == Demo[at[l]]
<1>1. TypeOK /\ ProgressOf(l) /\ SightingsOf(l)
    BY ByLoad
<1>2. PICK s \in {"saved", "asset"} \union Replies :
          /\ To(l, s)
          /\ s \in {"asset", "created"} => n \in assets'
    BY <1>1 DEF Inventory, Refuse, Save, Insert, Score, Break, SightingsOf, Replies
<1>3. request[l] \in {"sent", "saved", "asset"}
    BY DEF Inventory, Refuse, Save, Insert, Score, Break
<1>4. at[l] \in DOMAIN Demo /\ pc[l] \in {"reply", "dead"} /\ n \in DemoNames
    BY <1>1, <1>3 DEF ProgressOf, DemoNames
<1>5. /\ assets' \in {assets, assets \union {n}}
      /\ scored' \in {scored, scored \union {n}}
      /\ scans' = scans \/ scans' = [scans EXCEPT ![n] = @ + 1]
    BY DEF Inventory, Refuse, Save, Insert, Score, Break, inventory
<1>6. TypeOK'
  <2>1. assets' \subseteq DemoNames /\ scored' \subseteq DemoNames
      BY <1>1, <1>4, <1>5 DEF TypeOK
  <2>2. scans' \in [DemoNames -> Nat]
      BY <1>1, <1>4, <1>5 DEF TypeOK
  <2>3. request' \in [Loads -> {"none", "sent", "saved", "asset"} \union Replies]
      BY <1>1, <1>2 DEF TypeOK, To
  <2>4. disturbed' \in BOOLEAN
      BY <1>1 DEF Inventory, Refuse, Save, Insert, Score, Break, TypeOK
  <2> QED
      BY <1>1, <1>2, <2>1, <2>2, <2>3, <2>4 DEF TypeOK, To
<1>7. request'[l] = s /\ UNCHANGED <<pc, known, at, step, workspaces>> /\ assets \subseteq assets'
    BY <1>1, <1>2, <1>5 DEF To, TypeOK
<1>8. ProgressOf(l)'
    BY <1>1, <1>4, <1>7 DEF ProgressOf
<1>9. SightingsOf(l)'
    BY <1>1, <1>2, <1>4, <1>7 DEF SightingsOf, NeedsIngest
<1>10. \A g \in Loads \ {l} : Same(g)
    BY <1>1, <1>2 DEF Same, To, TypeOK
<1> QED
    BY <1>2, <1>6, <1>7, <1>8, <1>9, <1>10, StaysLoaded, OneMoves DEF To

-----------------------------------------------------------------------------
(* The three facts of the induction                                         *)

LEMMA InitInv == ASSUME DemoAssumption PROVE Init => IInv
<1> SUFFICES ASSUME Init PROVE IInv
    OBVIOUS
<1>1. TypeOK
  <2>1. 1 \in 1 .. Len(Demo) + 1
      BY DEF DemoAssumption
  <2>2. at \in [Loads -> 1 .. Len(Demo) + 1]
      BY <2>1 DEF Init
  <2>3. step \in [Loads -> [DemoNames -> Status]]
      BY DEF Init, Status
  <2> QED
      BY <2>2, <2>3 DEF Init, TypeOK, LoadPC
<1>2. SuccessIsLoaded
    BY DEF Init, SuccessIsLoaded
<1>3. \A l \in Loads : ProgressOf(l) /\ SightingsOf(l)
    BY DEF Init, ProgressOf, SightingsOf, DemoAssumption
<1> QED
    BY <1>1, <1>2, <1>3, ByLoad

LEMMA StepInv == ASSUME DemoAssumption PROVE IInv /\ [Next]_vars => IInv'
<1> SUFFICES ASSUME IInv, [Next]_vars PROVE IInv'
    OBVIOUS
<1>1. CASE UNCHANGED vars
    BY <1>1 DEF IInv, TypeOK, Progress, Sightings, SuccessIsLoaded, NeedsIngest, vars, inventory
<1>2. ASSUME NEW l \in Loads, Load(l) \/ Die(l) \/ Inventory(l) PROVE IInv'
    BY <1>2, ClickKeeps, ListKeeps, MakeWorkspaceKeeps, PayloadKeeps, ReceiveKeeps,
       FinishKeeps, DieKeeps, InventoryKeeps DEF Load
<1> QED
    BY <1>1, <1>2 DEF Next

(* IInv is inductive: a load has recorded what is behind it, and what it    *)
(* saw or called ok is in the inventory.                                    *)
THEOREM Inductive == ASSUME DemoAssumption PROVE Spec => []IInv
BY InitInv, StepInv, PTL DEF Spec

(* demo_load: an audited success means that the whole demo set is there,    *)
(* whatever failed in this load and whatever other loads did.               *)
THEOREM SuccessMeansLoaded == ASSUME DemoAssumption PROVE Spec => []SuccessIsLoaded
<1>1. IInv => SuccessIsLoaded
    BY DEF IInv
<1> QED
    BY <1>1, Inductive, PTL

(* demo_load: "each step is recorded independently": a load that comes to   *)
(* the files has recorded an outcome for every payload, so that no failure  *)
(* hides another.                                                           *)
THEOREM NoStepIsHidden == ASSUME DemoAssumption PROVE Spec => []EveryStepIsRecorded
<1>1. IInv => EveryStepIsRecorded
  <2> SUFFICES ASSUME IInv, NEW l \in Loads, pc[l] \in {"files", "done"}, NEW n \in DemoNames
               PROVE  step[l][n] # "none"
      BY DEF EveryStepIsRecorded
  <2>1. PICK i \in DOMAIN Demo : n = Demo[i]
      BY DEF DemoNames
  <2>2. i < at[l]
      BY <2>1 DEF IInv, Progress, DemoAssumption
  <2> QED
      BY <2>1, <2>2 DEF IInv, Progress
<1> QED
    BY <1>1, Inductive, PTL

(* demo_load: a load that created a workspace has something to put there.   *)
THEOREM WorkspacesAreUsed == ASSUME DemoAssumption PROVE Spec => []NoIdleWorkspace
<1>1. IInv => NoIdleWorkspace
    BY DEF IInv, TypeOK, Sightings, NoIdleWorkspace, NeedsIngest
<1> QED
    BY <1>1, Inductive, PTL

-----------------------------------------------------------------------------
(* How often a payload is saved                                             *)

Acts(l) == Load(l) \/ Die(l) \/ Inventory(l)

LEMMA InventoryMoves ==
    ASSUME NEW l \in Loads, Inventory(l)
    PROVE  /\ \E r \in {"saved", "asset"} \union Replies : request' = [request EXCEPT ![l] = r]
           /\ UNCHANGED <<workspaces, pc, known, at, step>>
BY DEF Inventory, Refuse, Save, Insert, Score, Break, To, Replies

(* A step leaves the other loads alone.                                     *)
LEMMA OthersAreSame ==
    ASSUME TypeOK, NEW l \in Loads, Acts(l)
    PROVE  \A g \in Loads \ {l} : Same(g)
<1>1. CASE Click(l) \/ List(l) \/ MakeWorkspace(l) \/ Finish(l) \/ Die(l)
    BY <1>1 DEF Click, List, MakeWorkspace, Finish, Die, Goto, Same, TypeOK
<1>2. CASE Payload(l) \/ Receive(l)
    BY <1>2 DEF Payload, Receive, Record, Goto, Same, TypeOK
<1>3. CASE Inventory(l)
    BY <1>3, InventoryMoves DEF Same, TypeOK
<1> QED
    BY <1>1, <1>2, <1>3 DEF Acts, Load

NothingEarly(l) == \A i \in DOMAIN Demo : i >= at[l] => step[l][Demo[i]] = "none"

(* Recording a payload keeps what was recorded.                             *)
LEMMA RecordMoves ==
    ASSUME DemoAssumption, TypeOK, NEW l \in Loads, NothingEarly(l), at[l] <= Len(Demo),
           NEW r, Record(l, r)
    PROVE  /\ NothingEarly(l)'
           /\ step'[l][Demo[at[l]]] = r
           /\ step[l][Demo[at[l]]] = "none"
           /\ \A n \in DemoNames \ {Demo[at[l]]} : step'[l][n] = step[l][n]
           /\ at'[l] = at[l] + 1
<1>1. at[l] \in DOMAIN Demo /\ Demo[at[l]] \in DemoNames
    BY NextPayload
<1>2. /\ at'[l] = at[l] + 1
      /\ step'[l][Demo[at[l]]] = r
      /\ \A n \in DemoNames \ {Demo[at[l]]} : step'[l][n] = step[l][n]
    BY <1>1 DEF Record, TypeOK
<1>3. ASSUME NEW i \in DOMAIN Demo, i >= at[l] + 1 PROVE step'[l][Demo[i]] = "none"
  <2>1. i # at[l] /\ i >= at[l] /\ Demo[i] \in DemoNames
      BY <1>1, <1>3 DEF DemoAssumption, DemoNames
  <2>2. Demo[i] # Demo[at[l]]
      BY <1>1, <2>1 DEF DemoAssumption
  <2> QED
      BY <1>2, <2>1, <2>2 DEF NothingEarly
<1> QED
    BY <1>1, <1>2, <1>3 DEF NothingEarly

(* What a load has saved stays saved, and it records nothing early.         *)
LEMMA SavedStays ==
    ASSUME DemoAssumption, IInv, NEW l \in Loads, Acts(l), NothingEarly(l), NEW n \in DemoNames
    PROVE  NothingEarly(l)' /\ (HasSaved(l, n) => HasSaved(l, n)')
<1>0. TypeOK /\ ProgressOf(l)
    BY ByLoad
<1>1. CASE Click(l) \/ List(l) \/ MakeWorkspace(l) \/ Finish(l)
    BY <1>0, <1>1 DEF Click, List, MakeWorkspace, Finish, NothingEarly, HasSaved
<1>2. CASE Die(l)
    BY <1>0, <1>2 DEF Die, Goto, NothingEarly, HasSaved, TypeOK
<1>3. CASE Payload(l)
  <2>1. CASE UNCHANGED <<at, step>>
      BY <1>3, <2>1 DEF Payload, NothingEarly, HasSaved
  <2>2. CASE at[l] <= Len(Demo) /\ Record(l, "skipped")
    <3>1. step'[l][n] = step[l][n] \/ step[l][n] = "none"
        BY <1>0, <2>2, RecordMoves
    <3> QED
        BY <1>0, <1>3, <2>2, <3>1, RecordMoves DEF Payload, HasSaved
  <2> QED
      BY <1>3, <2>1, <2>2 DEF Payload
<1>4. CASE Receive(l)
  <2>1. at[l] <= Len(Demo) /\ StepOf(l) \in {"ok", "error"}
      BY <1>0, <1>4 DEF Receive, ProgressOf, DemoAssumption, StepOf
  <2>2. /\ NothingEarly(l)' /\ step'[l][Demo[at[l]]] \in {"ok", "error"}
        /\ \A m \in DemoNames \ {Demo[at[l]]} : step'[l][m] = step[l][m]
      BY <1>0, <1>4, <2>1, RecordMoves DEF Receive
  <2> QED
      BY <2>2 DEF HasSaved
<1>5. CASE Inventory(l)
  <2>1. PICK r \in {"saved", "asset"} \union Replies : request' = [request EXCEPT ![l] = r]
      BY <1>5, InventoryMoves
  <2>2. UNCHANGED <<pc, at, step>> /\ request'[l] = r
      BY <1>0, <1>5, <2>1, InventoryMoves DEF TypeOK
  <2>3. request[l] \in {"saved", "asset", "broken", "created"} => r \in {"asset", "broken", "created"}
      BY <1>0, <1>5, <2>2 DEF Inventory, Refuse, Save, Insert, Score, Break, To, TypeOK
  <2> QED
      BY <2>2, <2>3 DEF NothingEarly, HasSaved
<1> QED
    BY <1>1, <1>2, <1>3, <1>4, <1>5 DEF Acts, Load

(* The payload that the inventory saves is one the load has not had saved.  *)
LEMMA SaveIsNew ==
    ASSUME DemoAssumption, IInv, NEW l \in Loads, Save(l), NothingEarly(l)
    PROVE  /\ Demo[at[l]] \in DemoNames
           /\ scans' = [scans EXCEPT ![Demo[at[l]]] = @ + 1]
           /\ ~HasSaved(l, Demo[at[l]]) /\ HasSaved(l, Demo[at[l]])'
<1>0. TypeOK /\ ProgressOf(l)
    BY ByLoad
<1>1. request[l] = "sent" /\ request'[l] = "saved" /\ UNCHANGED <<pc, at, step>>
    BY <1>0 DEF Save, To, TypeOK
<1>2. at[l] \in DOMAIN Demo /\ pc[l] \in {"reply", "dead"}
    BY <1>0, <1>1 DEF ProgressOf
<1>3. step[l][Demo[at[l]]] = "none"
    BY <1>2 DEF NothingEarly, DemoAssumption
<1>4. Demo[at[l]] \in DemoNames
    BY <1>2 DEF DemoNames
<1> QED
    BY <1>1, <1>2, <1>3, <1>4 DEF HasSaved, Save

LEMMA CountedStep ==
    ASSUME DemoAssumption, IsFiniteSet(Loads), IInv, ScansAreCounted, NEW l \in Loads, Acts(l)
    PROVE  ScansAreCounted'
<1>0. /\ TypeOK /\ \A g \in Loads : NothingEarly(g)
      /\ \A n \in DemoNames : scans[n] \in Nat
    BY DEF IInv, ScansAreCounted, NothingEarly, TypeOK
<1>1. ASSUME NEW g \in Loads PROVE NothingEarly(g)'
  <2>1. CASE g = l
    <3>1. CASE DemoNames = {}
        BY <3>1 DEF NothingEarly, DemoNames
    <3>2. CASE DemoNames # {}
        BY <1>0, <2>1, <3>2, SavedStays
    <3> QED
        BY <3>1, <3>2
  <2>2. CASE g # l
    <3>1. Same(g)
        BY <1>0, <2>2, OthersAreSame
    <3> QED
        BY <1>0, <3>1 DEF NothingEarly, Same
  <2> QED
      BY <2>1, <2>2
<1>2. ASSUME NEW n \in DemoNames PROVE Savers(n) \subseteq Savers(n)'
  <2>1. ASSUME NEW g \in Loads, HasSaved(g, n) PROVE HasSaved(g, n)'
    <3>1. CASE g = l
        BY <1>0, <2>1, <3>1, SavedStays
    <3>2. CASE g # l
      <4>1. Same(g)
          BY <1>0, <3>2, OthersAreSame
      <4> QED
          BY <2>1, <4>1 DEF HasSaved, Same
    <3> QED
        BY <3>1, <3>2
  <2> QED
      BY <2>1 DEF Savers
<1>3. ASSUME NEW n \in DemoNames
      PROVE  /\ IsFiniteSet(Savers(n)) /\ IsFiniteSet(Savers(n)')
             /\ Cardinality(Savers(n)) \in Nat /\ Cardinality(Savers(n)') \in Nat
             /\ Cardinality(Savers(n)) <= Cardinality(Savers(n)')
  <2>1. Savers(n) \subseteq Loads /\ Savers(n)' \subseteq Loads
      BY DEF Savers
  <2>2. IsFiniteSet(Savers(n)) /\ IsFiniteSet(Savers(n)')
      BY <2>1, FS_Subset
  <2> QED
      BY <1>2, <2>2, FS_Subset, FS_CardinalityType
<1>4. ASSUME NEW n \in DemoNames PROVE scans'[n] <= Cardinality(Savers(n)')
  <2>0. scans[n] <= Cardinality(Savers(n))
      BY DEF ScansAreCounted
  <2>1. CASE scans'[n] = scans[n]
      BY <1>0, <1>3, <2>0, <2>1
  <2>2. CASE scans'[n] # scans[n]
    <3>1. Save(l)
        BY <2>2 DEF Acts, Load, Click, List, MakeWorkspace, Payload, Receive, Finish, Die,
                    Inventory, Refuse, Insert, Score, Break, inventory
    <3>2. n = Demo[at[l]] /\ scans'[n] = scans[n] + 1
        BY <1>0, <2>2, <3>1, SaveIsNew DEF TypeOK
    <3>3. l \notin Savers(n) /\ l \in Savers(n)'
        BY <1>0, <3>1, <3>2, SaveIsNew DEF Savers, Save, To
    <3> DEFINE before == Savers(n)
               after  == Savers(n)'
    <3>4. before \union {l} \subseteq after /\ IsFiniteSet(before) /\ IsFiniteSet(after) /\ l \notin before
        BY <1>2, <1>3, <3>3
    <3>5. Cardinality(before) + 1 <= Cardinality(after) /\ scans'[n] <= Cardinality(before) + 1
      <4>1. scans'[n] <= Cardinality(before) + 1
          BY <1>0, <1>3, <2>0, <3>2
      <4> HIDE DEF before, after
      <4>2. IsFiniteSet(before \union {l}) /\ Cardinality(before \union {l}) = Cardinality(before) + 1
          BY <3>4, FS_AddElement
      <4> QED
          BY <3>4, <4>1, <4>2, FS_Subset
    <3>6. scans'[n] \in Nat
        BY <1>0, <3>2
    <3> QED
        BY <1>3, <3>5, <3>6
  <2> QED
      BY <2>1, <2>2
<1> QED
    BY <1>1, <1>4 DEF ScansAreCounted, NothingEarly

LEMMA CountedInv ==
    ASSUME DemoAssumption, IsFiniteSet(Loads)
    PROVE  /\ Init => ScansAreCounted
           /\ IInv /\ ScansAreCounted /\ [Next]_vars => ScansAreCounted'
<1>1. ASSUME Init PROVE ScansAreCounted
  <2>1. \A l \in Loads : \A i \in DOMAIN Demo : step[l][Demo[i]] = "none"
      BY <1>1 DEF Init, DemoNames
  <2>2. ASSUME NEW n \in DemoNames PROVE scans[n] = 0 /\ Cardinality(Savers(n)) \in Nat
    <3>1. Savers(n) \subseteq Loads
        BY DEF Savers
    <3> QED
        BY <1>1, <3>1, FS_Subset, FS_CardinalityType DEF Init
  <2> QED
      BY <2>1, <2>2 DEF ScansAreCounted
<1>2. ASSUME IInv, ScansAreCounted, [Next]_vars PROVE ScansAreCounted'
  <2>1. CASE UNCHANGED vars
      BY <1>2, <2>1 DEF ScansAreCounted, Savers, HasSaved, vars, inventory
  <2> QED
      BY <1>2, <2>1, CountedStep DEF Next, Acts
<1> QED
    BY <1>1, <1>2

(* demo_load: one click saves a payload at most once, whatever became of    *)
(* the reply, for any finite set of clicks.                                 *)
THEOREM ClicksSaveOnce ==
    ASSUME DemoAssumption, IsFiniteSet(Loads)
    PROVE  Spec => [](ScansAreCounted /\ OneScanPerLoad)
<1>1. IInv /\ ScansAreCounted => OneScanPerLoad
  <2> SUFFICES ASSUME IInv, ScansAreCounted, NEW n \in DemoNames
               PROVE  scans[n] <= Cardinality({l \in Loads : pc[l] # "idle"})
      BY DEF OneScanPerLoad
  <2> DEFINE began == {l \in Loads : pc[l] # "idle"}
  <2>1. Savers(n) \subseteq began
      BY ByLoad DEF Savers, HasSaved, SightingsOf
  <2>2. IsFiniteSet(began)
      BY FS_Subset
  <2>3. scans[n] \in Nat /\ scans[n] <= Cardinality(Savers(n))
      BY DEF IInv, TypeOK, ScansAreCounted
  <2> HIDE DEF began
  <2>4. /\ Cardinality(Savers(n)) <= Cardinality(began)
        /\ Cardinality(Savers(n)) \in Nat /\ Cardinality(began) \in Nat
      BY <2>1, <2>2, FS_Subset, FS_CardinalityType
  <2>5. scans[n] <= Cardinality(began)
      BY <2>3, <2>4
  <2> QED
      BY <2>5 DEF began
<1> QED
    BY <1>1, CountedInv, Inductive, PTL DEF Spec

-----------------------------------------------------------------------------
(* One load at a time, and only whole calls fail                            *)

Working == {"sent", "saved", "asset"}

(* OpenOneIsAlone and NothingIsLost, for the load that moves.               *)
AloneOf(l) ==
    /\ request[l] \in Working => pc[l] = "reply"
    /\ pc[l] = "reply" => ~AlreadySeen(l)
    /\ pc[l] \in {"workspace", "payload", "reply"} => \A i \in DOMAIN Demo :
          Unsent(l, i) /\ Demo[i] \in assets => Demo[i] \in known[l]

LostOf(l, n) ==
    /\ scans[n] = 0 \/ (scans[n] = 1 /\ (n \in assets \/ (request[l] = "saved" /\ Demo[at[l]] = n)))
    /\ n \in assets => n \in scored \/ (request[l] = "asset" /\ Demo[at[l]] = n)

Idle(g) == g \notin Open /\ request[g] \notin Working

LEMMA StillUndisturbed ==
    ASSUME NEW l \in Loads, Acts(l), disturbed \in BOOLEAN, ~disturbed'
    PROVE  /\ ~disturbed /\ ~Break(l)
           /\ Click(l) => Open = {}
           /\ List(l) => known' = [known EXCEPT ![l] = assets]
           /\ Die(l) => pc[l] # "reply"
<1>1. CASE Click(l) \/ List(l) \/ Die(l)
    BY <1>1 DEF Click, List, Die, Break, To, Goto
<1>2. CASE MakeWorkspace(l) \/ Payload(l) \/ Receive(l) \/ Finish(l) \/ Inventory(l)
    BY <1>2 DEF MakeWorkspace, Payload, Receive, Finish, Inventory, Refuse, Save, Insert, Score,
                Break, To, Click, List, Die, Goto
<1> QED
    BY <1>1, <1>2 DEF Acts, Load

(* Whoever moves is the open load, so the others are idle.                  *)
LEMMA OthersAreIdle ==
    ASSUME IInv, OpenOneIsAlone, NEW l \in Loads, Acts(l), ~disturbed'
    PROVE  \A g \in Loads \ {l} : Same(g) /\ Idle(g) /\ Idle(g)'
<1>0. TypeOK
    BY DEF IInv
<1>1. \A g \in Loads \ {l} : Same(g)
    BY <1>0, OthersAreSame
<1>2. \A g \in Loads : request[g] \in Working => g \in Open
    BY DEF OpenOneIsAlone, Working, Open
<1>3. Click(l) \/ l \in Open
  <2>1. CASE Load(l) \/ Die(l)
      BY <2>1 DEF Load, List, MakeWorkspace, Payload, Receive, Finish, Die, Open
  <2>2. CASE Inventory(l)
    <3>1. request[l] \in Working
        BY <2>2 DEF Inventory, Refuse, Save, Insert, Score, Break, Working
    <3> QED
        BY <1>2, <3>1
  <2> QED
      BY <2>1, <2>2 DEF Acts
<1>4. \A g \in Loads \ {l} : g \notin Open
    BY <1>0, <1>3, StillUndisturbed DEF OpenOneIsAlone, TypeOK
<1> QED
    BY <1>1, <1>2, <1>4 DEF Idle, Same, Open

LEMMA OfTheMover ==
    ASSUME NEW l \in Loads, OpenOneIsAlone, NothingIsLost, \A g \in Loads \ {l} : Idle(g)
    PROVE  AloneOf(l) /\ \A n \in DemoNames : LostOf(l, n)
<1>1. \A n : \A s \in {"saved", "asset"} : WorksOn(n, s) => request[l] = s /\ Demo[at[l]] = n
    BY DEF WorksOn, Idle, Working
<1> QED
    BY <1>1 DEF AloneOf, LostOf, OpenOneIsAlone, NothingIsLost, Working

LEMMA FromTheMover ==
    ASSUME NEW l \in Loads, \A g \in Loads \ {l} : Idle(g)', AloneOf(l)',
           \A n \in DemoNames : LostOf(l, n)'
    PROVE  OpenOneIsAlone' /\ NothingIsLost'
<1>1. ASSUME NEW g \in Loads
      PROVE  /\ g \in Open' => \A k \in Open' : k = g
             /\ request'[g] \in {"sent", "saved", "asset"} => pc'[g] = "reply"
             /\ pc'[g] = "reply" => ~AlreadySeen(g)'
             /\ pc'[g] \in {"workspace", "payload", "reply"} => \A i \in DOMAIN Demo :
                   Unsent(g, i)' /\ Demo[i] \in assets' => Demo[i] \in known'[g]
  <2>1. \A k \in Open' : k = l
      BY DEF Idle, Open
  <2>2. CASE g = l
      BY <2>1, <2>2 DEF AloneOf, Working
  <2>3. CASE g # l
      BY <2>1, <2>3 DEF Idle, Open, Working
  <2> QED
      BY <2>2, <2>3
<1>2. OpenOneIsAlone'
    BY <1>1 DEF OpenOneIsAlone
<1>3. NothingIsLost'
    BY DEF NothingIsLost, LostOf, WorksOn
<1> QED
    BY <1>2, <1>3

(* What is not open has sent nothing that is being worked on, and is owed   *)
(* nothing.                                                                 *)
LEMMA CallKeepsAlone ==
    ASSUME DemoAssumption, IInv, NEW l \in Loads, AloneOf(l), \A n \in DemoNames : LostOf(l, n),
           ~disturbed', Acts(l), ~Payload(l), ~Receive(l), ~Inventory(l)
    PROVE  AloneOf(l)' /\ \A n \in DemoNames : LostOf(l, n)'
<1>0. TypeOK
    BY DEF IInv
<1>1. /\ UNCHANGED <<inventory, at, request, step>>
      /\ \E p \in {"list", "workspace", "payload", "done", "dead"} : Goto(l, p)
      /\ pc[l] # "reply"
  <2>1. ~(Die(l) /\ pc[l] = "reply")
      BY <1>0, StillUndisturbed DEF TypeOK
  <2> QED
      BY <2>1 DEF Acts, Load, Click, List, MakeWorkspace, Finish, Die
<1>2. request[l] \notin Working /\ pc'[l] # "reply"
    BY <1>0, <1>1 DEF AloneOf, Goto, TypeOK
<1>3. \A n \in DemoNames : LostOf(l, n)'
    BY <1>1 DEF LostOf, inventory
<1>4. CASE List(l)
  <2>1. known' = [known EXCEPT ![l] = assets] /\ assets' = assets
      BY <1>0, <1>1, <1>4, StillUndisturbed DEF TypeOK, inventory
  <2>2. known'[l] = assets'
      BY <1>0, <2>1 DEF TypeOK
  <2> QED
      BY <1>1, <1>2, <1>3, <2>2 DEF AloneOf
<1>5. CASE MakeWorkspace(l)
  <2>1. pc[l] = "workspace" /\ pc'[l] = "payload" /\ UNCHANGED <<known, assets, at, request>>
      BY <1>0, <1>5 DEF MakeWorkspace, Goto, inventory, TypeOK
  <2> QED
      BY <1>2, <1>3, <2>1 DEF AloneOf, Unsent
<1>6. CASE Click(l) \/ Finish(l) \/ Die(l)
  <2>1. pc'[l] \in {"list", "done", "dead"}
      BY <1>0, <1>6 DEF Click, Finish, Die, Goto, TypeOK
  <2> QED
      BY <1>1, <1>2, <1>3, <2>1 DEF AloneOf
<1> QED
    BY <1>4, <1>5, <1>6 DEF Acts, Load

(* The next payload.                                                        *)
LEMMA PayloadKeepsAlone ==
    ASSUME DemoAssumption, IInv, NEW l \in Loads, AloneOf(l), \A n \in DemoNames : LostOf(l, n),
           Payload(l) \/ Receive(l)
    PROVE  AloneOf(l)' /\ \A n \in DemoNames : LostOf(l, n)'
<1>0. TypeOK /\ UNCHANGED <<inventory, known>>
    BY DEF IInv, Payload, Receive
<1>1. request[l] \notin {"saved", "asset", "sent"}
    BY DEF Payload, Receive, AloneOf, Working, Replies
<1>2. CASE /\ Payload(l) /\ at[l] <= Len(Demo) /\ ~AlreadySeen(l) /\ Goto(l, "reply")
           /\ request' = [request EXCEPT ![l] = "sent"] /\ UNCHANGED <<at, step>>
  <2>1. pc[l] = "payload" /\ pc'[l] = "reply" /\ request'[l] = "sent" /\ UNCHANGED <<at, assets, known>>
      BY <1>0, <1>2 DEF Payload, Goto, TypeOK, inventory
  <2>2. AloneOf(l)'
      BY <1>2, <2>1 DEF AloneOf, Unsent, AlreadySeen
  <2>3. \A n \in DemoNames : LostOf(l, n)'
      BY <1>0, <1>1 DEF LostOf, inventory
  <2> QED
      BY <2>2, <2>3
<1>3. CASE Payload(l) /\ Goto(l, "files") /\ UNCHANGED <<at, step, request>>
  <2>1. pc'[l] = "files"
      BY <1>0, <1>3 DEF Goto, TypeOK
  <2>2. AloneOf(l)'
      BY <1>1, <1>3, <2>1 DEF AloneOf, Working
  <2>3. \A n \in DemoNames : LostOf(l, n)'
      BY <1>0, <1>1, <1>3 DEF LostOf, inventory
  <2> QED
      BY <2>2, <2>3
<1>4. CASE \E r : /\ at[l] <= Len(Demo) /\ Record(l, r) /\ UNCHANGED request
                  /\ pc' = [pc EXCEPT ![l] = "payload"] /\ pc[l] \in {"payload", "reply"}
  <2>1. /\ at'[l] = at[l] + 1 /\ at[l] \in Int /\ pc'[l] = "payload"
        /\ UNCHANGED <<assets, known, request>>
      BY <1>0, <1>4 DEF Record, TypeOK, inventory
  <2>2. \A i \in DOMAIN Demo : Unsent(l, i)' => Unsent(l, i)
    <3>1. \A i \in DOMAIN Demo : i \in Int
        BY DEF DemoAssumption
    <3> QED
        BY <2>1, <3>1 DEF Unsent
  <2>3. AloneOf(l)'
      BY <1>1, <1>4, <2>1, <2>2 DEF AloneOf, Working
  <2>4. \A n \in DemoNames : LostOf(l, n)'
      BY <1>0, <1>1, <2>1 DEF LostOf, inventory
  <2> QED
      BY <2>3, <2>4
<1>5. Receive(l) => at[l] <= Len(Demo)
    BY ByLoad DEF Receive, ProgressOf, DemoAssumption
<1>6. pc[l] = "payload" => pc = [pc EXCEPT ![l] = "payload"]
    BY <1>0 DEF TypeOK
<1> QED
    BY <1>2, <1>3, <1>4, <1>5, <1>6 DEF Payload, Receive, Goto

(* The inventory's work on a payload that it does not have.                 *)
LEMMA InventoryKeepsAlone ==
    ASSUME DemoAssumption, IInv, NEW l \in Loads, AloneOf(l), \A n \in DemoNames : LostOf(l, n),
           Inventory(l), ~Break(l)
    PROVE  AloneOf(l)' /\ \A n \in DemoNames : LostOf(l, n)'
<1> DEFINE m == Demo[at[l]]
<1>0. TypeOK /\ ProgressOf(l) /\ UNCHANGED <<pc, known, at>>
    BY ByLoad, InventoryMoves
<1>1. /\ request[l] \in Working /\ pc[l] = "reply" /\ m \notin known[l]
    BY DEF Inventory, Refuse, Save, Insert, Score, Break, AloneOf, Working, AlreadySeen
<1>2. at[l] \in DOMAIN Demo /\ m \in DemoNames
    BY <1>0, <1>1 DEF ProgressOf, DemoNames, Working
<1>3. \A i \in DOMAIN Demo : Demo[i] = m => i = at[l]
    BY <1>2 DEF DemoAssumption
<1>4. ~AlreadySeen(l)'
    BY <1>0, <1>1 DEF AlreadySeen
<1> HIDE DEF m
<1>5. CASE Refuse(l)
  <2>1. request[l] = "sent" /\ request'[l] = "refused" /\ UNCHANGED inventory
      BY <1>0, <1>5 DEF Refuse, To, TypeOK
  <2>2. AloneOf(l)'
      BY <1>0, <1>1, <1>4, <2>1 DEF AloneOf, Unsent, Working, inventory
  <2> QED
      BY <2>1, <2>2 DEF LostOf, inventory
<1>6. CASE Save(l)
  <2>1. /\ request[l] = "sent" /\ request'[l] = "saved" /\ UNCHANGED <<assets, scored>>
        /\ scans' = [scans EXCEPT ![m] = @ + 1]
      BY <1>0, <1>6 DEF Save, To, TypeOK, m
  <2>2. AloneOf(l)'
      BY <1>0, <1>1, <1>4, <2>1 DEF AloneOf, Unsent, Working
  <2>3. m \notin assets
      BY <1>1, <1>2, <2>1 DEF AloneOf, Unsent, m
  <2>4. scans[m] = 0
      BY <1>2, <2>1, <2>3 DEF LostOf
  <2>5. scans'[m] = 1 /\ \A n \in DemoNames \ {m} : scans'[n] = scans[n]
      BY <1>0, <1>2, <2>1, <2>4 DEF TypeOK
  <2>6. ASSUME NEW n \in DemoNames PROVE LostOf(l, n)'
    <3>1. CASE n = m
        BY <1>0, <2>1, <2>3, <2>5, <3>1 DEF LostOf, m
    <3>2. CASE n # m
        BY <2>1, <2>5, <3>2 DEF LostOf
    <3> QED
        BY <3>1, <3>2
  <2> QED
      BY <2>2, <2>6
<1>7. CASE Insert(l)
  <2>1. /\ request[l] = "saved" /\ request'[l] = "asset" /\ UNCHANGED <<scans, scored>>
        /\ assets' = assets \union {m}
      BY <1>0, <1>7 DEF Insert, To, TypeOK, m
  <2>2. ASSUME NEW i \in DOMAIN Demo, Unsent(l, i)', Demo[i] \in assets' PROVE Demo[i] \in known'[l]
    <3>1. i > at[l] /\ i # at[l]
        BY <1>0, <1>1, <2>1, <2>2 DEF Unsent, TypeOK, DemoAssumption
    <3>2. Demo[i] \in assets /\ Unsent(l, i)
        BY <1>3, <2>1, <2>2, <3>1 DEF Unsent
    <3> QED
        BY <1>0, <1>1, <3>2 DEF AloneOf
  <2>3. AloneOf(l)'
      BY <1>0, <1>1, <1>4, <2>2 DEF AloneOf
  <2>4. \A n \in DemoNames : LostOf(l, n)'
      BY <1>0, <2>1 DEF LostOf, m
  <2> QED
      BY <2>3, <2>4
<1>8. CASE Score(l)
  <2>1. /\ request[l] = "asset" /\ request'[l] = "created" /\ UNCHANGED <<scans, assets>>
        /\ scored' = scored \union {m}
      BY <1>0, <1>8 DEF Score, To, TypeOK, m
  <2>2. AloneOf(l)'
      BY <1>0, <1>1, <1>4, <2>1 DEF AloneOf, Unsent, Working
  <2>3. \A n \in DemoNames : LostOf(l, n)'
      BY <2>1 DEF LostOf, m
  <2> QED
      BY <2>2, <2>3
<1> QED
    BY <1>5, <1>6, <1>7, <1>8 DEF Inventory

LEMMA UndisturbedStep ==
    ASSUME DemoAssumption, IInv, Undisturbed, NEW l \in Loads, Acts(l), ~disturbed'
    PROVE  ~disturbed /\ OpenOneIsAlone' /\ NothingIsLost'
<1>1. ~disturbed /\ ~Break(l)
    BY StillUndisturbed DEF IInv, TypeOK
<1>2. /\ OpenOneIsAlone /\ NothingIsLost
      /\ \A g \in Loads \ {l} : Idle(g) /\ Idle(g)'
    BY <1>1, OthersAreIdle DEF Undisturbed
<1>3. AloneOf(l) /\ \A n \in DemoNames : LostOf(l, n)
    BY <1>2, OfTheMover
<1>4. AloneOf(l)' /\ \A n \in DemoNames : LostOf(l, n)'
    BY <1>1, <1>3, CallKeepsAlone, PayloadKeepsAlone, InventoryKeepsAlone
<1> QED
    BY <1>1, <1>2, <1>4, FromTheMover

LEMMA UndisturbedInv ==
    ASSUME DemoAssumption
    PROVE  /\ Init => Undisturbed
           /\ IInv /\ Undisturbed /\ [Next]_vars => Undisturbed'
<1>1. ASSUME Init PROVE Undisturbed
  <2>1. OpenOneIsAlone
      BY <1>1 DEF Init, OpenOneIsAlone, Open
  <2>2. NothingIsLost
      BY <1>1 DEF Init, NothingIsLost
  <2> QED
      BY <2>1, <2>2 DEF Undisturbed
<1>2. ASSUME IInv, Undisturbed, [Next]_vars PROVE Undisturbed'
  <2>1. CASE UNCHANGED vars
      BY <1>2, <2>1 DEF Undisturbed, OpenOneIsAlone, NothingIsLost, WorksOn, Open, AlreadySeen,
                        Unsent, vars, inventory
  <2> QED
      BY <1>2, <2>1, UndisturbedStep DEF Next, Acts, Undisturbed
<1> QED
    BY <1>1, <1>2

(* demo_load: "clicking "Load Demo" twice doesn't create duplicate          *)
(* scans/findings": every demo asset has one scan, if loads do not overlap  *)
(* and no call fails halfway.                                               *)
THEOREM LoadingTwiceSavesOnce == ASSUME DemoAssumption PROVE Spec => [](Undisturbed /\ LoadsOnce)
<1>1. IInv /\ Undisturbed => LoadsOnce
    BY DEF LoadsOnce, Undisturbed, NothingIsLost, IInv, TypeOK
<1> QED
    BY <1>1, UndisturbedInv, Inductive, PTL DEF Spec

LEMMA ScoredStep ==
    ASSUME DemoAssumption, IInv, IInv', Undisturbed, SuccessIsScored, NEW l \in Loads, Acts(l)
    PROVE  SuccessIsScored'
<1> SUFFICES ASSUME ~disturbed', NEW g \in Loads, <<g, "success">> \in audit'
             PROVE  scored' = DemoNames
    BY DEF SuccessIsScored
<1>0. TypeOK /\ TypeOK' /\ ~disturbed
    BY StillUndisturbed DEF IInv, TypeOK
<1>1. scored \subseteq scored'
    BY DEF Acts, Load, Click, List, MakeWorkspace, Payload, Receive, Finish, Die, Inventory,
           Refuse, Save, Insert, Score, Break, inventory
<1>2. CASE <<g, "success">> \in audit
    BY <1>0, <1>1, <1>2 DEF SuccessIsScored, TypeOK
<1>3. CASE <<g, "success">> \notin audit
  <2>1. Finish(l)
      BY <1>3 DEF Acts, Load, Click, List, MakeWorkspace, Payload, Receive, Finish, Die,
                  Inventory, Refuse, Save, Insert, Score, Break, To
  <2>2. assets' = DemoNames /\ UNCHANGED <<assets, scored>> /\ pc[l] = "files"
      BY <2>1 DEF Finish, inventory, IInv, SuccessIsLoaded
  <2>3. OpenOneIsAlone /\ NothingIsLost /\ l \in Open
      BY <1>0, <2>2 DEF Undisturbed, Open
  <2>4. \A h \in Loads : request[h] # "asset"
      BY <2>2, <2>3 DEF OpenOneIsAlone, Open
  <2>5. \A n \in DemoNames : n \in scored
      BY <2>2, <2>3, <2>4 DEF NothingIsLost, WorksOn
  <2> QED
      BY <1>0, <2>2, <2>5 DEF TypeOK
<1> QED
    BY <1>2, <1>3

(* demo_load: after an audited success every demo asset has a risk result,  *)
(* those that the load skipped included, if loads do not overlap and no     *)
(* call fails halfway.                                                      *)
THEOREM SuccessMeansScored == ASSUME DemoAssumption PROVE Spec => []SuccessIsScored
<1>1. Init => SuccessIsScored
    BY DEF Init, SuccessIsScored
<1>2. IInv /\ IInv' /\ Undisturbed /\ SuccessIsScored /\ [Next]_vars => SuccessIsScored'
  <2>1. SuccessIsScored /\ UNCHANGED vars => SuccessIsScored'
      BY DEF SuccessIsScored, vars, inventory
  <2> QED
      BY <2>1, ScoredStep DEF Next, Acts
<1>3. Spec => []Undisturbed
    BY UndisturbedInv, Inductive, PTL DEF Spec
<1> QED
    BY <1>1, <1>2, <1>3, Inductive, PTL DEF Spec
=============================================================================
