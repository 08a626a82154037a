-------------------------- MODULE Inventory_proofs --------------------------
(***************************************************************************)
(* Proofs about Inventory: what overlapping requests and a failure after   *)
(* any commit leave true, for any number of threads, workspaces, scans and *)
(* assets; and that the service keeps the contract its callers rely on.    *)
(*                                                                         *)
(* The invariant is IInv.  What another handler wrote can only add         *)
(* workspaces, rows and results; Grows says so, and that is all that the   *)
(* locals of a handler depend on.                                          *)
(***************************************************************************)
EXTENDS Inventory, SequenceTheorems, FiniteSetTheorems, WellFoundedInduction, TLAPS

-----------------------------------------------------------------------------
(* Types, in three parts                                                    *)

TablesOK == /\ workspaces \subseteq WorkspaceIds
            /\ scan_ws \in [ScanIds -> WorkspaceIds \union {None}]
            /\ asset_status \in [AssetIds -> {"absent", "live", "deleted"}]
            /\ kind \in [AssetIds -> Kinds \union {None}]
            /\ environment \in [AssetIds -> Environments \union {None}]
            /\ asset_ws \in [AssetIds -> WorkspaceIds \union {None}]
            /\ risks \subseteq ScanIds \X Names \X Scores
            /\ reports \subseteq WorkspaceIds \X SUBSET (Names \X Scores)

LocalsOK == /\ op \in [Threads -> Op \union {"none"}]
            /\ pc \in [Threads -> HandlerPC]
            /\ ws \in [Threads -> WorkspaceIds \union {None}]
            /\ scan_of \in [Threads -> ScanIds \union {None}]
            /\ todo \in [Threads -> Seq(Kinds)]
            /\ created \in [Threads -> SUBSET Names]
            /\ to_score \in [Threads -> Seq(AssetIds \X Names)]
            /\ row \in [Threads -> AssetIds \union {None}]
            /\ asked \in [Threads -> (Kinds \union {None}) \X (Environments \union {None})]
            /\ merged \in [Threads -> (Kinds \union {None}) \X (Environments \union {None})]
            /\ ids \in [Threads -> SUBSET Nat]
            /\ seen \in [Threads -> SUBSET (Names \X Scores)]

HistoryOK == /\ outcome \in [Threads -> {"none", "created", "rejected", "broken"}]
             /\ answered \subseteq ScanIds \X SUBSET Names
             /\ scored \subseteq AssetIds \X ScanIds
             /\ past \subseteq {"overlap", "edit"}

LEMMA Parts == /\ TypeOK <=> TablesOK /\ LocalsOK /\ HistoryOK
               /\ TypeOK' <=> TablesOK' /\ LocalsOK' /\ HistoryOK'
BY DEF TypeOK, TablesOK, LocalsOK, HistoryOK

(* Another handler sees no more of a step than this.                        *)
Grows == /\ workspaces \subseteq workspaces'
         /\ \A a \in AssetIds : asset_status[a] # "absent" => asset_status'[a] # "absent"
         /\ risks \subseteq risks'

Same(g) == /\ op'[g] = op[g] /\ pc'[g] = pc[g] /\ ws'[g] = ws[g] /\ scan_of'[g] = scan_of[g]
           /\ todo'[g] = todo[g] /\ created'[g] = created[g] /\ to_score'[g] = to_score[g]
           /\ merged'[g] = merged[g] /\ ids'[g] = ids[g]

LEMMA OthersKeep ==
    ASSUME NEW g \in Threads, Locals(g), Pending(g), Same(g), Grows
    PROVE  Locals(g)' /\ Pending(g)'
<1>1. Locals(g)'
    BY DEF Locals, Same, Grows
<1>2. Pending(g)'
    BY DEF Pending, Same, Grows
<1> QED
    BY <1>1, <1>2

Rows == EverythingHasAWorkspace /\ RowsAreWhole /\ EnvironmentIsKnown
        /\ AnsweredAssetsAreScored

LEMMA SameRows ==
    ASSUME Rows, UNCHANGED <<tables, answered>>
    PROVE  Rows' /\ Grows
BY DEF Rows, EverythingHasAWorkspace, RowsAreWhole, EnvironmentIsKnown,
       AnsweredAssetsAreScored, tables, Grows

(* A step of one handler.                                                   *)
LEMMA OneMoves ==
    ASSUME IInv, TypeOK', Rows', Grows, NEW h \in Threads, Locals(h)', Pending(h)',
           \A g \in Threads \ {h} : Same(g)
    PROVE  IInv'
BY OthersKeep DEF IInv, Rows

(* An answer leaves nothing behind.                                         *)
LEMMA AnswerKeeps ==
    ASSUME InventoryAssumption, LocalsOK, NEW h \in Threads, Answer(h)
    PROVE  /\ LocalsOK' /\ Locals(h)' /\ Pending(h)'
           /\ \A g \in Threads \ {h} : Same(g)
<1>1. LocalsOK'
    BY DEF LocalsOK, Answer, Goto, HandlerPC, Op, InventoryAssumption
<1>2. /\ op'[h] = "none" /\ pc'[h] = "idle" /\ ws'[h] = None /\ scan_of'[h] = None
      /\ created'[h] = {} /\ to_score'[h] = <<>>
    BY DEF LocalsOK, Answer, Goto
<1>3. Locals(h)'
    BY <1>2 DEF Locals, Filling
<1>4. Pending(h)'
    BY <1>2 DEF Pending
<1>5. \A g \in Threads \ {h} : Same(g)
    BY DEF Same, LocalsOK, Answer, Goto
<1> QED
    BY <1>1, <1>3, <1>4, <1>5

(* What the payload still holds after one asset is settled.                 *)
LEMMA SettleKeeps ==
    ASSUME InventoryAssumption, IInv, NEW h \in Threads, pc[h] \in Filling,
           NEW a \in Live, Settle(h, a),
           UNCHANGED <<tables, op, ws, scan_of, row, asked, merged, ids, seen, history>>
    PROVE  IInv'
<1>1. TablesOK /\ LocalsOK /\ HistoryOK /\ Locals(h) /\ Pending(h) /\ RowsAreWhole
    BY Parts DEF IInv
<1>2. a \in AssetIds /\ asset_status[a] = "live"
    BY DEF Live
<1>3. kind[a] \in Kinds /\ kind[a][1] \in Names
    BY <1>1, <1>2 DEF RowsAreWhole, Names
<1>4. todo[h] \in Seq(Kinds) /\ todo[h] # <<>> /\ op[h] \in Ingests \union {"create"}
    BY <1>1 DEF LocalsOK, Locals
<1>5. Tail(todo[h]) \in Seq(Kinds)
    BY <1>4
<1>6. Append(to_score[h], <<a, kind[a][1]>>) \in Seq(AssetIds \X Names)
  <2>1. to_score[h] \in Seq(AssetIds \X Names)
      BY <1>1 DEF LocalsOK
  <2>2. <<a, kind[a][1]>> \in AssetIds \X Names
      BY <1>2, <1>3
  <2> QED
      BY <2>1, <2>2
<1>7. After(op[h], Tail(todo[h])) \in {"find", "score", "answer"}
    BY DEF After
<1>8. /\ pc'[h] = After(op[h], Tail(todo[h]))
      /\ todo'[h] = Tail(todo[h])
      /\ created'[h] = created[h] \union {kind[a][1]}
      /\ to_score'[h] = Append(to_score[h], <<a, kind[a][1]>>)
    BY <1>1 DEF Settle, Goto, LocalsOK
<1>9. TypeOK'
  <2>1. todo' \in [Threads -> Seq(Kinds)]
      BY <1>1, <1>5 DEF LocalsOK, Settle
  <2>2. created' \in [Threads -> SUBSET Names]
      BY <1>1, <1>3 DEF LocalsOK, Settle
  <2>3. to_score' \in [Threads -> Seq(AssetIds \X Names)]
      BY <1>1, <1>6 DEF LocalsOK, Settle
  <2>4. pc' \in [Threads -> HandlerPC]
      BY <1>1, <1>7 DEF LocalsOK, Settle, Goto, HandlerPC
  <2>5. LocalsOK'
      BY <1>1, <2>1, <2>2, <2>3, <2>4 DEF LocalsOK
  <2> QED
      BY <1>1, <2>5, Parts DEF TablesOK, HistoryOK, tables, history, answers
<1>10. Rows' /\ Grows
    BY SameRows DEF IInv, Rows, history, answers
<1>11. Locals(h)'
  <2>1. UNCHANGED <<op, ws, scan_of, merged, ids, asset_status, workspaces>>
      BY DEF tables
  <2>2. /\ pc'[h] = "find" => todo'[h] # <<>>
        /\ pc'[h] = "score" => op[h] = "ingest"
        /\ pc'[h] = "answer" => op[h] \in {"ingest_only", "create"}
      BY <1>4, <1>8 DEF After, Ingests
  <2>3. op[h] \in Ingests => scan_of[h] # None
      BY <1>1 DEF Locals
  <2>4. ws[h] \in workspaces \union {None}
      BY <1>1 DEF Locals
  <2> QED
      BY <1>4, <1>7, <1>8, <2>1, <2>2, <2>3, <2>4 DEF Locals, Filling
<1>12. Pending(h)'
  <2>1. \A i \in DOMAIN to_score[h] : /\ i \in DOMAIN to_score'[h]
                                      /\ to_score'[h][i] = to_score[h][i]
      BY <1>1, <1>8 DEF LocalsOK
  <2>2. /\ Len(to_score[h]) + 1 \in DOMAIN to_score'[h]
        /\ to_score'[h][Len(to_score[h]) + 1][2] = kind[a][1]
      BY <1>1, <1>8 DEF LocalsOK
  <2> QED
      BY <1>1, <1>8, <2>1, <2>2 DEF Pending, tables
<1>13. \A g \in Threads \ {h} : Same(g)
    BY <1>1 DEF Same, Settle, Goto, LocalsOK
<1> QED
    BY <1>9, <1>10, <1>11, <1>12, <1>13, OneMoves

-----------------------------------------------------------------------------
(* One lemma per action                                                     *)

LEMMA PayloadsAreSequences == ASSUME InventoryAssumption PROVE Payloads \subseteq Seq(Kinds)
BY DEF Payloads, InventoryAssumption

(* A new request has its arguments only.                                    *)
LEMMA IngestKeeps ==
    ASSUME InventoryAssumption, IInv, NEW h \in Threads, NEW o \in Ingests,
           NEW w \in workspaces \union {None}, NEW p \in Payloads, Ingest(h, o, w, p)
    PROVE  IInv'
<1>1. TablesOK /\ LocalsOK /\ HistoryOK /\ Locals(h) /\ pc[h] = "idle"
    BY Parts DEF IInv, Ingest, Open, Ready
<1>2. p \in Seq(Kinds) /\ w \in WorkspaceIds \union {None}
    BY <1>1, PayloadsAreSequences DEF TablesOK
<1>3. LocalsOK'
  <2>1. todo' \in [Threads -> Seq(Kinds)]
      BY <1>1, <1>2 DEF LocalsOK, Ingest, Open
  <2>2. /\ op' \in [Threads -> Op \union {"none"}]
        /\ pc' \in [Threads -> HandlerPC]
        /\ ws' \in [Threads -> WorkspaceIds \union {None}]
      BY <1>1, <1>2 DEF LocalsOK, Ingest, Open, Goto, HandlerPC, Op
  <2> QED
      BY <1>1, <2>1, <2>2 DEF LocalsOK, Ingest, Open
<1>4. TypeOK'
    BY <1>1, <1>3, Parts DEF Ingest, Open, TablesOK, HistoryOK, tables, history, answers
<1>5. Rows' /\ Grows
    BY SameRows DEF IInv, Rows, Ingest, Open, history, answers
<1>6. /\ op'[h] = o /\ ws'[h] = w /\ pc'[h] = IF w = None THEN "workspace" ELSE "scan"
      /\ scan_of'[h] = None /\ created'[h] = {} /\ workspaces' = workspaces
    BY <1>1 DEF Ingest, Open, LocalsOK, Goto, Locals, tables
<1>7. Locals(h)'
    BY <1>6 DEF Locals, Filling
<1>8. Pending(h)'
    BY <1>6 DEF Pending
<1>9. \A g \in Threads \ {h} : Same(g)
    BY <1>1 DEF Same, Ingest, Open, Goto, LocalsOK
<1> QED
    BY <1>4, <1>5, <1>7, <1>8, <1>9, OneMoves

LEMMA IngestRefusedKeeps ==
    ASSUME InventoryAssumption, IInv, NEW h \in Threads, IngestRefused(h)
    PROVE  IInv'
<1>1. TablesOK /\ LocalsOK /\ HistoryOK
    BY Parts DEF IInv
<1>2. HistoryOK'
    BY <1>1 DEF HistoryOK, IngestRefused
<1>3. TypeOK'
    BY <1>1, <1>2, Parts DEF IngestRefused, TablesOK, LocalsOK, tables, args
<1>4. Rows' /\ Grows
    BY SameRows DEF IInv, Rows, IngestRefused
<1>5. \A g \in Threads : Same(g)
    BY DEF Same, IngestRefused, args
<1> QED
    BY <1>3, <1>4, <1>5, OthersKeep DEF IInv, Rows

LEMMA CreateAssetKeeps ==
    ASSUME InventoryAssumption, IInv, NEW h \in Threads,
           NEW w \in workspaces \union {None}, NEW k \in Kinds, CreateAsset(h, w, k)
    PROVE  IInv'
<1>1. TablesOK /\ LocalsOK /\ HistoryOK /\ Locals(h) /\ pc[h] = "idle"
    BY Parts DEF IInv, CreateAsset, Open, Ready
<1>2. w \in WorkspaceIds \union {None}
    BY <1>1 DEF TablesOK
<1>3. LocalsOK'
    BY <1>1, <1>2 DEF LocalsOK, CreateAsset, Open, Goto, HandlerPC, Op
<1>4. TypeOK'
    BY <1>1, <1>3, Parts DEF CreateAsset, Open, TablesOK, HistoryOK, tables, history, answers
<1>5. Rows' /\ Grows
    BY SameRows DEF IInv, Rows, CreateAsset, Open, history, answers
<1>6. /\ op'[h] = "create" /\ ws'[h] = w /\ pc'[h] = "find" /\ todo'[h] = <<k>>
      /\ workspaces' = workspaces
    BY <1>1 DEF CreateAsset, Open, LocalsOK, Goto, tables
<1>7. Locals(h)'
    BY <1>6 DEF Locals, Filling, Ingests
<1>8. Pending(h)'
    BY <1>6 DEF Pending
<1>9. \A g \in Threads \ {h} : Same(g)
    BY <1>1 DEF Same, CreateAsset, Open, Goto, LocalsOK
<1> QED
    BY <1>4, <1>5, <1>7, <1>8, <1>9, OneMoves

(* A workspace more is no harm to what is in the others.                    *)
LEMMA MoreWorkspaces ==
    ASSUME Rows, workspaces \subseteq workspaces',
           UNCHANGED <<scan_ws, asset_status, kind, environment, asset_ws, risks, reports, answered>>
    PROVE  Rows' /\ Grows
BY DEF Rows, EverythingHasAWorkspace, RowsAreWhole, EnvironmentIsKnown,
       AnsweredAssetsAreScored, Grows

LEMMA CreateWorkspaceKeeps ==
    ASSUME InventoryAssumption, IInv, CreateWorkspace
    PROVE  IInv'
<1>1. TablesOK /\ LocalsOK /\ HistoryOK
    BY Parts DEF IInv
<1>2. workspaces \subseteq workspaces' /\ workspaces' \subseteq WorkspaceIds
    BY <1>1 DEF CreateWorkspace, NextOf, TablesOK
<1>3. TypeOK'
    BY <1>1, <1>2, Parts DEF CreateWorkspace, TablesOK, LocalsOK, HistoryOK, args, history, answers
<1>4. Rows' /\ Grows
    BY <1>2, MoreWorkspaces DEF IInv, Rows, CreateWorkspace, history, answers
<1>5. \A g \in Threads : Same(g)
    BY DEF Same, CreateWorkspace, args
<1> QED
    BY <1>3, <1>4, <1>5, OthersKeep DEF IInv, Rows

LEMMA AutoWorkspaceKeeps ==
    ASSUME InventoryAssumption, IInv, NEW h \in Threads, AutoWorkspace(h)
    PROVE  IInv'
<1>1. TablesOK /\ LocalsOK /\ HistoryOK /\ Locals(h) /\ Pending(h)
    BY Parts DEF IInv
<1>2. PICK w \in WorkspaceIds : /\ workspaces' = workspaces \union {w}
                                /\ ws' = [ws EXCEPT ![h] = w]
    BY DEF AutoWorkspace, NextOf
<1>3. TypeOK'
  <2>1. TablesOK'
      BY <1>1, <1>2 DEF TablesOK, AutoWorkspace
  <2>2. LocalsOK'
      BY <1>1, <1>2 DEF LocalsOK, AutoWorkspace, Goto, HandlerPC
  <2> QED
      BY <1>1, <2>1, <2>2, Parts DEF AutoWorkspace, HistoryOK, history, answers
<1>4. Rows' /\ Grows
    BY <1>2, MoreWorkspaces DEF IInv, Rows, AutoWorkspace, history, answers
<1>5. /\ ws'[h] = w /\ w \in workspaces' /\ w # None
      /\ pc'[h] = IF pc[h] = "workspace" THEN "scan" ELSE "insert"
      /\ pc[h] \in {"workspace", "own_workspace"}
      /\ UNCHANGED <<op, scan_of, todo, created, to_score, risks>>
    BY <1>1, <1>2 DEF AutoWorkspace, LocalsOK, Goto, InventoryAssumption
<1>6. Locals(h)'
    BY <1>1, <1>5 DEF Locals, Filling
<1>7. Pending(h)'
    BY <1>1, <1>5 DEF Pending
<1>8. \A g \in Threads \ {h} : Same(g)
    BY <1>1, <1>2 DEF Same, AutoWorkspace, Goto, LocalsOK
<1> QED
    BY <1>3, <1>4, <1>6, <1>7, <1>8, OneMoves

(* The scan row is in the workspace that the request resolved.              *)
LEMMA SaveScanKeeps ==
    ASSUME InventoryAssumption, IInv, NEW h \in Threads, SaveScan(h)
    PROVE  IInv'
<1>1. TablesOK /\ LocalsOK /\ HistoryOK /\ Locals(h) /\ Pending(h) /\ pc[h] = "scan"
    BY Parts DEF IInv, SaveScan
<1>2. PICK s \in ScanIds : /\ scan_ws' = [scan_ws EXCEPT ![s] = ws[h]]
                           /\ scan_of' = [scan_of EXCEPT ![h] = s]
    BY DEF SaveScan
<1>3. ws[h] \in workspaces /\ ws[h] \in WorkspaceIds /\ s # None
    BY <1>1 DEF Locals, TablesOK, InventoryAssumption
<1>4. After(op[h], todo[h]) \in {"find", "score", "answer"}
    BY DEF After
<1>5. TypeOK'
  <2>1. TablesOK'
      BY <1>1, <1>2, <1>3 DEF TablesOK, SaveScan
  <2>2. LocalsOK'
      BY <1>1, <1>2, <1>4 DEF LocalsOK, SaveScan, Goto, HandlerPC
  <2> QED
      BY <1>1, <2>1, <2>2, Parts DEF SaveScan, HistoryOK, history, answers
<1>6. Rows' /\ Grows
  <2>1. EverythingHasAWorkspace'
      BY <1>1, <1>2, <1>3 DEF IInv, EverythingHasAWorkspace, SaveScan, TablesOK
  <2>2. (RowsAreWhole /\ EnvironmentIsKnown /\ AnsweredAssetsAreScored)' /\ Grows
      BY DEF IInv, RowsAreWhole, EnvironmentIsKnown, AnsweredAssetsAreScored, SaveScan,
             history, answers, Grows
  <2> QED
      BY <2>1, <2>2 DEF Rows
<1>7. /\ scan_of'[h] = s /\ pc'[h] = After(op[h], todo[h])
      /\ UNCHANGED <<op, ws, todo, created, to_score, risks, workspaces>>
    BY <1>1, <1>2 DEF SaveScan, LocalsOK, Goto
<1>8. op[h] \in Ingests /\ created[h] = {} /\ ws[h] \in workspaces
    BY <1>1, <1>3 DEF Locals
<1>9. Locals(h)'
  <2>1. /\ pc'[h] = "find" => todo'[h] # <<>>
        /\ pc'[h] = "score" => op'[h] = "ingest"
        /\ pc'[h] = "answer" => op'[h] \in {"ingest_only", "create"}
      BY <1>7, <1>8 DEF After, Ingests
  <2> QED
      BY <1>3, <1>4, <1>7, <1>8, <2>1 DEF Locals, Filling
<1>10. Pending(h)'
    BY <1>7, <1>8 DEF Pending
<1>11. \A g \in Threads \ {h} : Same(g)
    BY <1>1, <1>2 DEF Same, SaveScan, Goto, LocalsOK
<1> QED
    BY <1>5, <1>6, <1>9, <1>10, <1>11, OneMoves

LEMMA FindAssetKeeps ==
    ASSUME InventoryAssumption, IInv, NEW h \in Threads, FindAsset(h)
    PROVE  IInv'
<1>1. CASE \E a \in Live : Settle(h, a)
    BY <1>1, SettleKeeps DEF FindAsset, Filling
<1>2. CASE /\ Goto(h, IF NeedsWorkspace(h) THEN "own_workspace" ELSE "insert")
           /\ UNCHANGED <<todo, created, to_score>>
  <2>1. TablesOK /\ LocalsOK /\ HistoryOK /\ Locals(h) /\ Pending(h)
      BY Parts DEF IInv
  <2>2. TypeOK'
    <3>1. LocalsOK'
        BY <1>2, <2>1 DEF LocalsOK, FindAsset, Goto, HandlerPC
    <3> QED
        BY <2>1, <3>1, Parts DEF FindAsset, TablesOK, HistoryOK, tables, history, answers
  <2>3. Rows' /\ Grows
      BY SameRows DEF IInv, Rows, FindAsset, history, answers
  <2>4. /\ pc'[h] = IF ws[h] = None THEN "own_workspace" ELSE "insert"
        /\ pc[h] = "find"
        /\ UNCHANGED <<op, ws, scan_of, todo, created, to_score, risks, workspaces>>
      BY <1>2, <2>1 DEF FindAsset, LocalsOK, Goto, NeedsWorkspace, tables
  <2>5. Locals(h)'
      BY <2>1, <2>4 DEF Locals, Filling
  <2>6. Pending(h)'
      BY <2>1, <2>4 DEF Pending
  <2>7. \A g \in Threads \ {h} : Same(g)
      BY <1>2, <2>1 DEF Same, FindAsset, Goto, LocalsOK
  <2> QED
      BY <2>2, <2>3, <2>5, <2>6, <2>7, OneMoves
<1> QED
    BY <1>1, <1>2 DEF FindAsset, Live

(* The row that is inserted has a workspace, a name and an environment.     *)
LEMMA InsertAssetKeeps ==
    ASSUME InventoryAssumption, IInv, NEW h \in Threads, InsertAsset(h)
    PROVE  IInv'
<1>1. TablesOK /\ LocalsOK /\ HistoryOK /\ Locals(h) /\ Pending(h) /\ pc[h] = "insert"
    BY Parts DEF IInv, InsertAsset
<1>2. PICK a \in AssetIds, e \in Environments :
          /\ asset_status' = [asset_status EXCEPT ![a] = "live"]
          /\ kind' = [kind EXCEPT ![a] = Head(todo[h])]
          /\ environment' = [environment EXCEPT ![a] = OrUnknown(e)]
          /\ asset_ws' = [asset_ws EXCEPT ![a] = ws[h]]
          /\ row' = [row EXCEPT ![h] = a]
    BY DEF InsertAsset
<1>3. ws[h] \in workspaces /\ ws[h] \in WorkspaceIds
    BY <1>1 DEF Locals, TablesOK
<1>4. Head(todo[h]) \in Kinds
  <2>1. todo[h] \in Seq(Kinds) /\ todo[h] # <<>>
      BY <1>1 DEF LocalsOK, Locals, Filling
  <2> QED
      BY <2>1
<1>5. OrUnknown(e) \in Environments /\ OrUnknown(e) # "null"
    BY DEF OrUnknown, InventoryAssumption
<1>6. TypeOK'
  <2>1. TablesOK'
      BY <1>1, <1>2, <1>3, <1>4, <1>5 DEF TablesOK, InsertAsset
  <2>2. LocalsOK'
      BY <1>1, <1>2 DEF LocalsOK, InsertAsset, Goto, HandlerPC
  <2> QED
      BY <1>1, <2>1, <2>2, Parts DEF InsertAsset, HistoryOK, history, answers
<1>7. Rows'
  <2>1. EverythingHasAWorkspace'
      BY <1>1, <1>2, <1>3 DEF IInv, EverythingHasAWorkspace, InsertAsset, TablesOK
  <2>2. RowsAreWhole'
      BY <1>1, <1>2, <1>4, <1>5 DEF IInv, RowsAreWhole, InsertAsset, TablesOK
  <2>3. EnvironmentIsKnown'
      BY <1>1, <1>2, <1>5 DEF IInv, EnvironmentIsKnown, InsertAsset, TablesOK
  <2>4. AnsweredAssetsAreScored'
      BY DEF IInv, AnsweredAssetsAreScored, InsertAsset, history, answers
  <2> QED
      BY <2>1, <2>2, <2>3, <2>4 DEF Rows
<1>8. Grows
    BY <1>1, <1>2 DEF Grows, InsertAsset, TablesOK
<1>9. /\ pc'[h] = "reread"
      /\ UNCHANGED <<op, ws, scan_of, todo, created, to_score, risks, workspaces>>
    BY <1>1 DEF InsertAsset, LocalsOK, Goto
<1>10. Locals(h)'
    BY <1>1, <1>9 DEF Locals, Filling
<1>11. Pending(h)'
    BY <1>1, <1>9 DEF Pending
<1>12. \A g \in Threads \ {h} : Same(g)
    BY <1>1, <1>2 DEF Same, InsertAsset, Goto, LocalsOK
<1> QED
    BY <1>6, <1>7, <1>8, <1>10, <1>11, <1>12, OneMoves

LEMMA RereadAssetKeeps ==
    ASSUME InventoryAssumption, IInv, NEW h \in Threads, RereadAsset(h)
    PROVE  IInv'
BY SettleKeeps DEF RereadAsset, Filling

(* The name that leaves the queue has its score.                            *)
LEMMA ScoreAssetKeeps ==
    ASSUME InventoryAssumption, IInv, NEW h \in Threads, ScoreAsset(h)
    PROVE  IInv'
<1>1. TablesOK /\ LocalsOK /\ HistoryOK /\ Locals(h) /\ Pending(h)
      /\ pc[h] = "score" /\ to_score[h] # <<>>
    BY Parts DEF IInv, ScoreAsset
<1>2. PICK x \in Scores : risks' = risks \union {<<scan_of[h], Head(to_score[h])[2], x>>}
    BY DEF ScoreAsset
<1>3. scan_of[h] \in ScanIds /\ op[h] = "ingest"
    BY <1>1 DEF Locals, LocalsOK, Ingests
<1>4. to_score[h] \in Seq(AssetIds \X Names)
    BY <1>1 DEF LocalsOK
<1>5. Head(to_score[h]) \in AssetIds \X Names /\ Tail(to_score[h]) \in Seq(AssetIds \X Names)
    BY <1>1, <1>4
<1>6. \A i \in DOMAIN to_score[h] :
          \/ to_score[h][i] = Head(to_score[h])
          \/ \E j \in DOMAIN Tail(to_score[h]) : Tail(to_score[h])[j] = to_score[h][i]
  <2>1. ASSUME NEW i \in DOMAIN to_score[h], i # 1
        PROVE  /\ i - 1 \in DOMAIN Tail(to_score[h])
               /\ Tail(to_score[h])[i - 1] = to_score[h][i]
      BY <1>1, <1>4, <2>1
  <2>2. to_score[h][1] = Head(to_score[h])
      BY <1>1, <1>4
  <2> QED
      BY <2>1, <2>2
<1>7. TypeOK'
  <2>1. TablesOK'
    <3>1. <<scan_of[h], Head(to_score[h])[2], x>> \in ScanIds \X Names \X Scores
        BY <1>3, <1>5
    <3>2. risks' \subseteq ScanIds \X Names \X Scores
        BY <1>1, <1>2, <3>1 DEF TablesOK
    <3> QED
        BY <1>1, <3>2 DEF TablesOK, ScoreAsset
  <2>2. LocalsOK'
      BY <1>1, <1>5 DEF LocalsOK, ScoreAsset
  <2>3. HistoryOK'
    <3>1. <<Head(to_score[h])[1], scan_of[h]>> \in AssetIds \X ScanIds
        BY <1>3, <1>5
    <3> QED
        BY <1>1, <3>1 DEF HistoryOK, ScoreAsset
  <2> QED
      BY <2>1, <2>2, <2>3, Parts
<1>8. Rows' /\ Grows
    BY <1>2 DEF IInv, Rows, EverythingHasAWorkspace, RowsAreWhole, EnvironmentIsKnown,
                AnsweredAssetsAreScored, ScoreAsset, Grows
<1>9. /\ to_score'[h] = Tail(to_score[h])
      /\ UNCHANGED <<op, pc, ws, scan_of, todo, created, merged, ids, workspaces, asset_status>>
    BY <1>1 DEF ScoreAsset, LocalsOK
<1>10. Locals(h)'
    BY <1>1, <1>9 DEF Locals, Filling
<1>11. Pending(h)'
  <2>1. SUFFICES ASSUME NEW n \in created[h]
                 PROVE  \/ \E i \in DOMAIN to_score'[h] : to_score'[h][i][2] = n
                        \/ \E y \in Scores : <<scan_of[h], n, y>> \in risks'
      BY <1>9 DEF Pending
  <2>2. CASE \E y \in Scores : <<scan_of[h], n, y>> \in risks
      BY <1>2, <2>2
  <2>3. CASE \E i \in DOMAIN to_score[h] : to_score[h][i][2] = n
      BY <1>2, <1>6, <1>9, <2>3
  <2> QED
      BY <1>1, <1>3, <2>1, <2>2, <2>3 DEF Pending
<1>12. \A g \in Threads \ {h} : Same(g)
    BY <1>1 DEF Same, ScoreAsset, LocalsOK
<1> QED
    BY <1>7, <1>8, <1>10, <1>11, <1>12, OneMoves

(* An answer 201 leaves no name of it unscored.                             *)
LEMMA CreatedKeeps ==
    ASSUME InventoryAssumption, IInv, NEW h \in Threads, Created(h)
    PROVE  IInv'
<1>1. TablesOK /\ LocalsOK /\ HistoryOK /\ Locals(h) /\ Pending(h)
    BY Parts DEF IInv
<1>2. Answer(h) /\ UNCHANGED tables
    BY DEF Created
<1>3. LocalsOK' /\ Locals(h)' /\ Pending(h)' /\ \A g \in Threads \ {h} : Same(g)
    BY <1>1, <1>2, AnswerKeeps
<1>4. CASE op[h] = "ingest"
  <2>1. /\ to_score[h] = <<>> /\ scan_of[h] \in ScanIds
        /\ outcome' = [outcome EXCEPT ![h] = "created"]
        /\ answered' = answered \union {<<scan_of[h], created[h]>>} /\ UNCHANGED <<scored, past>>
      BY <1>1, <1>4 DEF Created, AllScored, Locals, LocalsOK, Ingests
  <2>2. HistoryOK'
    <3>1. created[h] \in SUBSET Names
        BY <1>1 DEF LocalsOK
    <3> QED
        BY <1>1, <2>1, <3>1 DEF HistoryOK
  <2>3. Grows /\ (EverythingHasAWorkspace /\ RowsAreWhole /\ EnvironmentIsKnown)'
      BY <1>2 DEF IInv, EverythingHasAWorkspace, RowsAreWhole, EnvironmentIsKnown, tables, Grows
  <2>4. AnsweredAssetsAreScored'
    <3>1. risks' = risks
        BY <1>2 DEF tables
    <3>2. \A n \in created[h] : \E x \in Scores : <<scan_of[h], n, x>> \in risks
      <4>1. DOMAIN to_score[h] = {}
          BY <2>1
      <4> QED
          BY <1>1, <1>4, <4>1 DEF Pending
    <3>3. AnsweredAssetsAreScored
        BY DEF IInv
    <3>4. ASSUME NEW b \in answered' PROVE \A n \in b[2] : \E x \in Scores : <<b[1], n, x>> \in risks
      <4>1. CASE b \in answered
          BY <3>3, <4>1 DEF AnsweredAssetsAreScored
      <4>2. CASE b = <<scan_of[h], created[h]>>
        <5>1. b[1] = scan_of[h] /\ b[2] = created[h]
            BY <4>2
        <5> QED
            BY <3>2, <5>1
      <4> QED
          BY <2>1, <4>1, <4>2
    <3> QED
        BY <3>1, <3>4 DEF AnsweredAssetsAreScored
  <2>5. TypeOK' /\ Rows'
      BY <1>1, <1>2, <1>3, <2>2, <2>3, <2>4, Parts DEF Rows, TablesOK, tables
  <2> QED
      BY <1>3, <2>3, <2>5, OneMoves
<1>5. CASE op[h] # "ingest"
  <2>1. UNCHANGED <<answered, scored>> /\ HistoryOK'
      BY <1>1, <1>5 DEF Created, HistoryOK, history, answers
  <2>2. TypeOK' /\ Rows' /\ Grows
      BY <1>1, <1>2, <1>3, <2>1, Parts, SameRows DEF IInv, Rows, TablesOK, tables
  <2> QED
      BY <1>3, <2>2, OneMoves
<1> QED
    BY <1>4, <1>5

(* Whatever a failing request has committed stays.                          *)
LEMMA AbortKeeps ==
    ASSUME InventoryAssumption, IInv, NEW h \in Threads, Abort(h)
    PROVE  IInv'
<1>1. TablesOK /\ LocalsOK /\ HistoryOK
    BY Parts DEF IInv
<1>2. LocalsOK' /\ Locals(h)' /\ Pending(h)' /\ \A g \in Threads \ {h} : Same(g)
    BY <1>1, AnswerKeeps DEF Abort
<1>3. HistoryOK'
    BY <1>1 DEF Abort, HistoryOK
<1>4. TypeOK' /\ Rows' /\ Grows
    BY <1>1, <1>2, <1>3, Parts, SameRows DEF IInv, Rows, Abort, TablesOK, tables
<1> QED
    BY <1>2, <1>4, OneMoves

(* What update_asset is going to write is a whole row.                      *)
LEMMA UpdateReadKeeps ==
    ASSUME InventoryAssumption, IInv, NEW h \in Threads, UpdateRead(h)
    PROVE  IInv'
<1>1. TablesOK /\ LocalsOK /\ HistoryOK /\ Locals(h) /\ pc[h] = "idle" /\ Rows
    BY Parts DEF IInv, UpdateRead, Open, Ready, Rows
<1>2. PICK a \in Live, k \in Kinds \union {None}, e \in Environments \union {None} :
          /\ row' = [row EXCEPT ![h] = a]
          /\ asked' = [asked EXCEPT ![h] = <<k, e>>]
          /\ merged' = [merged EXCEPT ![h] = Merge(a, k, e)]
    BY DEF UpdateRead, Open
<1>3. a \in AssetIds /\ kind[a] \in Kinds /\ environment[a] \in Environments \ {"null"}
    BY <1>1 DEF Live, Rows, RowsAreWhole, EnvironmentIsKnown
<1>4. Merge(a, k, e) \in Kinds \X (Environments \ {"null"})
    BY <1>2, <1>3 DEF Merge, Orelse, OrUnknown, InventoryAssumption
<1>5. LocalsOK'
  <2>1. Merge(a, k, e) \in (Kinds \union {None}) \X (Environments \union {None})
      BY <1>4
  <2>2. merged' \in [Threads -> (Kinds \union {None}) \X (Environments \union {None})]
      BY <1>1, <1>2, <2>1 DEF LocalsOK
  <2>3. /\ asked' \in [Threads -> (Kinds \union {None}) \X (Environments \union {None})]
        /\ row' \in [Threads -> AssetIds \union {None}]
      BY <1>1, <1>2, <1>3 DEF LocalsOK
  <2> QED
      BY <1>1, <2>2, <2>3 DEF LocalsOK, UpdateRead, Open, Goto, HandlerPC, Op
<1>6. TypeOK'
    BY <1>1, <1>5, Parts DEF UpdateRead, Open, TablesOK, HistoryOK, tables, history, answers
<1>7. Rows' /\ Grows
    BY <1>1, SameRows DEF UpdateRead, Open, history, answers
<1>8. /\ op'[h] = "update" /\ pc'[h] = "update" /\ merged'[h] = Merge(a, k, e)
      /\ UNCHANGED <<ws, workspaces>>
    BY <1>1, <1>2 DEF UpdateRead, Open, LocalsOK, Goto, tables
<1>9. Locals(h)'
    BY <1>1, <1>4, <1>8 DEF Locals, Filling
<1>10. Pending(h)'
    BY <1>8 DEF Pending
<1>11. \A g \in Threads \ {h} : Same(g)
    BY <1>1, <1>2 DEF Same, UpdateRead, Open, Goto, LocalsOK
<1> QED
    BY <1>6, <1>7, <1>9, <1>10, <1>11, OneMoves

LEMMA UpdateWriteKeeps ==
    ASSUME InventoryAssumption, IInv, NEW h \in Threads, UpdateWrite(h)
    PROVE  IInv'
<1>1. TablesOK /\ LocalsOK /\ HistoryOK /\ Locals(h) /\ pc[h] = "update" /\ Rows
    BY Parts DEF IInv, UpdateWrite, Rows
<1>2. LocalsOK' /\ Locals(h)' /\ Pending(h)' /\ \A g \in Threads \ {h} : Same(g)
    BY <1>1, AnswerKeeps DEF UpdateWrite
<1>3. merged[h][1] \in Kinds /\ merged[h][2] \in Environments \ {"null"}
    BY <1>1 DEF Locals
<1>4. \/ /\ row[h] \in AssetIds
         /\ kind' = [kind EXCEPT ![row[h]] = merged[h][1]]
         /\ environment' = [environment EXCEPT ![row[h]] = merged[h][2]]
      \/ UNCHANGED <<kind, environment>>
    BY DEF UpdateWrite, Live
<1>5. kind' \in [AssetIds -> Kinds \union {None}]
      /\ environment' \in [AssetIds -> Environments \union {None}]
    BY <1>1, <1>3, <1>4 DEF TablesOK
<1>6. TypeOK'
    BY <1>1, <1>2, <1>5, Parts DEF UpdateWrite, TablesOK, HistoryOK, history, answers
<1>7. RowsAreWhole'
    BY <1>1, <1>3, <1>4 DEF Rows, RowsAreWhole, UpdateWrite, TablesOK
<1>8. EnvironmentIsKnown'
    BY <1>1, <1>3, <1>4 DEF Rows, EnvironmentIsKnown, UpdateWrite, TablesOK
<1>9. (EverythingHasAWorkspace /\ AnsweredAssetsAreScored)' /\ Grows
    BY <1>1 DEF Rows, EverythingHasAWorkspace, AnsweredAssetsAreScored, UpdateWrite, history, answers, Grows
<1> QED
    BY <1>2, <1>6, <1>7, <1>8, <1>9, OneMoves DEF Rows

(* Deleting a row changes its status only.                                  *)
LEMMA OnlyDeleted ==
    ASSUME Rows, UNCHANGED <<workspaces, scan_ws, kind, environment, asset_ws, risks, reports, answered>>,
           \A a \in AssetIds : asset_status'[a] = "absent" <=> asset_status[a] = "absent"
    PROVE  Rows' /\ Grows
BY DEF Rows, EverythingHasAWorkspace, RowsAreWhole, EnvironmentIsKnown,
       AnsweredAssetsAreScored, Grows

LEMMA DeleteAssetKeeps ==
    ASSUME InventoryAssumption, IInv, DeleteAsset
    PROVE  IInv'
<1>1. TablesOK /\ LocalsOK /\ HistoryOK
    BY Parts DEF IInv
<1>2. PICK a \in Live : asset_status' = [asset_status EXCEPT ![a] = "deleted"]
    BY DEF DeleteAsset
<1>3. \A b \in AssetIds : asset_status'[b] = "absent" <=> asset_status[b] = "absent"
    BY <1>1, <1>2 DEF TablesOK, Live
<1>4. asset_status' \in [AssetIds -> {"absent", "live", "deleted"}]
    BY <1>1, <1>2 DEF TablesOK
<1>5. TypeOK'
    BY <1>1, <1>4, Parts DEF DeleteAsset, TablesOK, LocalsOK, HistoryOK, args, history, answers
<1>6. Rows' /\ Grows
    BY <1>3, OnlyDeleted DEF IInv, Rows, DeleteAsset, history, answers
<1>7. \A g \in Threads : Same(g)
    BY DEF Same, DeleteAsset, args
<1> QED
    BY <1>5, <1>6, <1>7, OthersKeep DEF IInv, Rows

LEMMA CleanupReadKeeps ==
    ASSUME InventoryAssumption, IInv, NEW h \in Threads, CleanupRead(h)
    PROVE  IInv'
<1>1. TablesOK /\ LocalsOK /\ HistoryOK /\ Locals(h) /\ pc[h] = "idle"
    BY Parts DEF IInv, CleanupRead, Open, Ready
<1>2. ids'[h] \subseteq Live
    BY <1>1 DEF CleanupRead, Open, LocalsOK
<1>3. LocalsOK'
  <2>1. ids' \in [Threads -> SUBSET Nat]
      BY <1>1 DEF LocalsOK, CleanupRead, Open, Live, InventoryAssumption
  <2> QED
      BY <1>1, <2>1 DEF LocalsOK, CleanupRead, Open, Goto, HandlerPC, Op
<1>4. TypeOK'
    BY <1>1, <1>3, Parts DEF CleanupRead, Open, TablesOK, HistoryOK, tables, history, answers
<1>5. Rows' /\ Grows
    BY SameRows DEF IInv, Rows, CleanupRead, Open, history, answers
<1>6. /\ op'[h] = "cleanup" /\ pc'[h] = "delete"
      /\ UNCHANGED <<ws, workspaces, asset_status>>
    BY <1>1 DEF CleanupRead, Open, LocalsOK, Goto, tables
<1>7. Locals(h)'
    BY <1>1, <1>2, <1>6 DEF Locals, Filling, Live
<1>8. Pending(h)'
    BY <1>6 DEF Pending
<1>9. \A g \in Threads \ {h} : Same(g)
    BY <1>1 DEF Same, CleanupRead, Open, Goto, LocalsOK
<1> QED
    BY <1>4, <1>5, <1>7, <1>8, <1>9, OneMoves

LEMMA CleanupDeleteKeeps ==
    ASSUME InventoryAssumption, IInv, NEW h \in Threads, CleanupDelete(h)
    PROVE  IInv'
<1>1. TablesOK /\ LocalsOK /\ HistoryOK /\ Locals(h)
    BY Parts DEF IInv
<1>2. LocalsOK' /\ Locals(h)' /\ Pending(h)' /\ \A g \in Threads \ {h} : Same(g)
    BY <1>1, AnswerKeeps DEF CleanupDelete
<1>3. \A a \in AssetIds : asset_status'[a] = "absent" <=> asset_status[a] = "absent"
    BY <1>1 DEF CleanupDelete, Locals
<1>4. asset_status' \in [AssetIds -> {"absent", "live", "deleted"}]
    BY <1>1 DEF TablesOK, CleanupDelete
<1>5. TypeOK'
    BY <1>1, <1>2, <1>4, Parts DEF CleanupDelete, TablesOK, HistoryOK, history, answers
<1>6. Rows' /\ Grows
    BY <1>3, OnlyDeleted DEF IInv, Rows, CleanupDelete, history, answers
<1> QED
    BY <1>2, <1>5, <1>6, OneMoves

LEMMA ReportScansKeeps ==
    ASSUME InventoryAssumption, IInv, NEW h \in Threads, ReportScans(h)
    PROVE  IInv'
<1>1. TablesOK /\ LocalsOK /\ HistoryOK /\ Locals(h) /\ pc[h] = "idle"
    BY Parts DEF IInv, ReportScans, Open, Ready
<1>2. PICK w \in workspaces : /\ ws' = [ws EXCEPT ![h] = w]
                              /\ ids' = [ids EXCEPT ![h] = ScansOf(w)]
    BY DEF ReportScans, Open
<1>3. w \in WorkspaceIds /\ w # None /\ ScansOf(w) \subseteq Nat
    BY <1>1 DEF TablesOK, InventoryAssumption, ScansOf
<1>4. LocalsOK'
  <2>1. ids' \in [Threads -> SUBSET Nat]
      BY <1>1, <1>2, <1>3 DEF LocalsOK
  <2> QED
      BY <1>1, <1>2, <1>3, <2>1 DEF LocalsOK, ReportScans, Open, Goto, HandlerPC, Op
<1>5. TypeOK'
    BY <1>1, <1>4, Parts DEF ReportScans, Open, TablesOK, HistoryOK, tables, history, answers
<1>6. Rows' /\ Grows
    BY SameRows DEF IInv, Rows, ReportScans, Open, history, answers
<1>7. /\ op'[h] = "report" /\ pc'[h] = "read" /\ ws'[h] = w /\ UNCHANGED workspaces
    BY <1>1, <1>2 DEF ReportScans, Open, LocalsOK, Goto, tables
<1>8. Locals(h)'
    BY <1>3, <1>7 DEF Locals, Filling
<1>9. Pending(h)'
    BY <1>7 DEF Pending
<1>10. \A g \in Threads \ {h} : Same(g)
    BY <1>1, <1>2 DEF Same, ReportScans, Open, Goto, LocalsOK
<1> QED
    BY <1>5, <1>6, <1>8, <1>9, <1>10, OneMoves

LEMMA ReportRisksKeeps ==
    ASSUME InventoryAssumption, IInv, NEW h \in Threads, ReportRisks(h)
    PROVE  IInv'
<1>1. TablesOK /\ LocalsOK /\ HistoryOK /\ Locals(h) /\ Pending(h) /\ pc[h] = "read"
    BY Parts DEF IInv, ReportRisks
<1>2. \A s : {<<r[2], r[3]>> : r \in {q \in risks : q[1] = s}} \subseteq Names \X Scores
    BY <1>1 DEF TablesOK
<1>3. LocalsOK' /\ pc'[h] \in {"read", "report"} /\ \A g \in Threads \ {h} : Same(g)
  <2>1. CASE Goto(h, "report") /\ UNCHANGED <<ids, seen>>
      BY <1>1, <2>1 DEF LocalsOK, ReportRisks, Goto, HandlerPC, Same
  <2>2. ASSUME NEW s,
               seen' = [seen EXCEPT ![h] = @ \union {<<r[2], r[3]>> : r \in {q \in risks : q[1] = s}}],
               ids' = [ids EXCEPT ![h] = @ \ {s}], UNCHANGED pc
        PROVE  LocalsOK' /\ pc'[h] \in {"read", "report"} /\ \A g \in Threads \ {h} : Same(g)
    <3>1. seen' \in [Threads -> SUBSET (Names \X Scores)]
      <4> DEFINE R == {<<r[2], r[3]>> : r \in {q \in risks : q[1] = s}}
      <4>1. R \subseteq Names \X Scores /\ seen' = [seen EXCEPT ![h] = @ \union R]
          BY <1>2, <2>2
      <4> HIDE DEF R
      <4> QED
          BY <1>1, <4>1 DEF LocalsOK
    <3>2. ids' \in [Threads -> SUBSET Nat]
        BY <1>1, <2>2 DEF LocalsOK
    <3>3. LocalsOK'
        BY <1>1, <2>2, <3>1, <3>2 DEF LocalsOK, ReportRisks
    <3> QED
        BY <1>1, <2>2, <3>3 DEF ReportRisks, Same, LocalsOK
  <2> QED
      BY <2>1, <2>2 DEF ReportRisks
<1>4. TypeOK'
    BY <1>1, <1>3, Parts DEF ReportRisks, TablesOK, HistoryOK, tables, history, answers
<1>5. Rows' /\ Grows
    BY SameRows DEF IInv, Rows, ReportRisks, history, answers
<1>6. UNCHANGED <<op, ws, scan_of, created, to_score, workspaces, risks>>
    BY DEF ReportRisks, tables
<1>7. Locals(h)'
    BY <1>1, <1>3, <1>6 DEF Locals, Filling
<1>8. Pending(h)'
    BY <1>1, <1>6 DEF Pending
<1> QED
    BY <1>3, <1>4, <1>5, <1>7, <1>8, OneMoves

LEMMA ReportInsertKeeps ==
    ASSUME InventoryAssumption, IInv, NEW h \in Threads, ReportInsert(h)
    PROVE  IInv'
<1>1. TablesOK /\ LocalsOK /\ HistoryOK /\ Locals(h) /\ pc[h] = "report"
    BY Parts DEF IInv, ReportInsert
<1>2. LocalsOK' /\ Locals(h)' /\ Pending(h)' /\ \A g \in Threads \ {h} : Same(g)
    BY <1>1, AnswerKeeps DEF ReportInsert
<1>3. ws[h] \in workspaces /\ ws[h] \in WorkspaceIds
    BY <1>1 DEF Locals, TablesOK
<1>4. HighestOf(seen[h]) \subseteq Names \X Scores
    BY <1>1 DEF HighestOf, LocalsOK
<1>5. reports' \subseteq WorkspaceIds \X SUBSET (Names \X Scores)
    BY <1>1, <1>3, <1>4 DEF TablesOK, ReportInsert
<1>6. TypeOK'
    BY <1>1, <1>2, <1>5, Parts DEF ReportInsert, TablesOK, HistoryOK, history, answers
<1>7. EverythingHasAWorkspace'
    BY <1>3 DEF IInv, EverythingHasAWorkspace, ReportInsert
<1>8. (RowsAreWhole /\ EnvironmentIsKnown /\ AnsweredAssetsAreScored)' /\ Grows
    BY DEF IInv, RowsAreWhole, EnvironmentIsKnown, AnsweredAssetsAreScored, ReportInsert,
           history, answers, Grows
<1> QED
    BY <1>2, <1>6, <1>7, <1>8, OneMoves DEF Rows

-----------------------------------------------------------------------------
(* The three facts of the induction                                         *)

LEMMA InitInv == ASSUME InventoryAssumption PROVE Init => IInv
<1> SUFFICES ASSUME Init PROVE IInv
    OBVIOUS
<1>1. TablesOK /\ LocalsOK /\ HistoryOK
    BY DEF Init, TablesOK, LocalsOK, HistoryOK, HandlerPC, Op
<1>2. EverythingHasAWorkspace /\ RowsAreWhole /\ EnvironmentIsKnown /\ AnsweredAssetsAreScored
    BY DEF Init, EverythingHasAWorkspace, RowsAreWhole, EnvironmentIsKnown,
           AnsweredAssetsAreScored, InventoryAssumption
<1>3. \A h \in Threads : Locals(h) /\ Pending(h)
    BY DEF Init, Locals, Pending, Filling
<1> QED
    BY <1>1, <1>2, <1>3, Parts DEF IInv

LEMMA StepInv == ASSUME InventoryAssumption PROVE IInv /\ [Next]_vars => IInv'
<1> SUFFICES ASSUME IInv, [Next]_vars PROVE IInv'
    OBVIOUS
<1>1. CASE UNCHANGED vars
  <2>1. TypeOK'
      BY <1>1, Parts DEF IInv, TablesOK, LocalsOK, HistoryOK, vars, tables, args, history, answers
  <2>2. Rows' /\ Grows
      BY <1>1, SameRows DEF IInv, Rows, vars, history, answers
  <2>3. \A g \in Threads : Same(g)
      BY <1>1 DEF Same, vars, args
  <2> QED
      BY <2>1, <2>2, <2>3, OthersKeep DEF IInv, Rows
<1>2. ASSUME NEW h \in Threads, Handler(h) PROVE IInv'
    BY <1>2, IngestKeeps, IngestRefusedKeeps, CreateAssetKeeps, AutoWorkspaceKeeps,
       SaveScanKeeps, FindAssetKeeps, InsertAssetKeeps, RereadAssetKeeps, ScoreAssetKeeps,
       CreatedKeeps, AbortKeeps, UpdateReadKeeps, UpdateWriteKeeps, CleanupReadKeeps,
       CleanupDeleteKeeps, ReportScansKeeps, ReportRisksKeeps, ReportInsertKeeps
    DEF Handler
<1> QED
    BY <1>1, <1>2, CreateWorkspaceKeeps, DeleteAssetKeeps DEF Next

(* IInv is inductive: what a handler remembers of its request is true of    *)
(* the tables, whatever the others wrote meanwhile.                         *)
THEOREM Inductive == ASSUME InventoryAssumption PROVE Spec => []IInv
BY InitInv, StepInv, PTL DEF Spec

(* create_scan, create_asset, create_workspace_report: every scan, asset    *)
(* and report is in a workspace that is there.                              *)
THEOREM WorkspacesAreThere == ASSUME InventoryAssumption PROVE Spec => []EverythingHasAWorkspace
<1>1. IInv => EverythingHasAWorkspace
    BY DEF IInv
<1> QED
    BY <1>1, Inductive, PTL

(* _persist_scan: a 201 names assets that were scored in this scan.         *)
THEOREM AnswersAreScored == ASSUME InventoryAssumption PROVE Spec => []AnsweredAssetsAreScored
<1>1. IInv => AnsweredAssetsAreScored
    BY DEF IInv
<1> QED
    BY <1>1, Inductive, PTL

(* update_asset: no asset ever has the environment null.                    *)
THEOREM EnvironmentStaysKnown == ASSUME InventoryAssumption PROVE Spec => []EnvironmentIsKnown
<1>1. IInv => EnvironmentIsKnown
    BY DEF IInv
<1> QED
    BY <1>1, Inductive, PTL

-----------------------------------------------------------------------------
(* What reports say                                                         *)

(* A step leaves the locals of h alone.                                     *)
Still(h) == /\ op'[h] = op[h] /\ pc'[h] = pc[h] /\ ws'[h] = ws[h] /\ scan_of'[h] = scan_of[h]
            /\ todo'[h] = todo[h] /\ created'[h] = created[h] /\ to_score'[h] = to_score[h]
            /\ row'[h] = row[h] /\ asked'[h] = asked[h] /\ merged'[h] = merged[h]
            /\ ids'[h] = ids[h] /\ seen'[h] = seen[h]

LEMMA OthersAreStill ==
    ASSUME LocalsOK, NEW g \in Threads, Handler(g), NEW h \in Threads \ {g}
    PROVE  Still(h)
<1>1. CASE \/ \E o \in Ingests, w \in workspaces \union {None}, p \in Payloads : Ingest(g, o, w, p)
           \/ IngestRefused(g) \/ AutoWorkspace(g) \/ SaveScan(g)
           \/ \E w \in workspaces \union {None}, k \in Kinds : CreateAsset(g, w, k)
  <2>1. CASE \E o \in Ingests, w \in workspaces \union {None}, p \in Payloads : Ingest(g, o, w, p)
      BY <2>1 DEF Still, LocalsOK, Ingest, Open, Goto
  <2>2. CASE \E w \in workspaces \union {None}, k \in Kinds : CreateAsset(g, w, k)
      BY <2>2 DEF Still, LocalsOK, CreateAsset, Open, Goto
  <2>3. CASE IngestRefused(g)
      BY <2>3 DEF Still, LocalsOK, IngestRefused, Open, Goto, args
  <2>4. CASE AutoWorkspace(g)
      BY <2>4 DEF Still, LocalsOK, AutoWorkspace, Goto
  <2>5. CASE SaveScan(g)
      BY <2>5 DEF Still, LocalsOK, SaveScan, Goto
  <2> QED
      BY <1>1, <2>1, <2>2, <2>3, <2>4, <2>5
<1>2. CASE FindAsset(g) \/ InsertAsset(g) \/ RereadAsset(g) \/ ScoreAsset(g)
  <2>1. CASE FindAsset(g)
      BY <2>1 DEF Still, LocalsOK, FindAsset, Settle, Goto
  <2>2. CASE InsertAsset(g)
      BY <2>2 DEF Still, LocalsOK, InsertAsset, Settle, Goto
  <2>3. CASE RereadAsset(g)
      BY <2>3 DEF Still, LocalsOK, RereadAsset, Settle, Goto
  <2>4. CASE ScoreAsset(g)
      BY <2>4 DEF Still, LocalsOK, ScoreAsset, Goto
  <2> QED
      BY <1>2, <2>1, <2>2, <2>3, <2>4
<1>3. CASE Created(g) \/ Abort(g) \/ UpdateWrite(g) \/ CleanupDelete(g) \/ ReportInsert(g)
  <2>1. Answer(g)
      BY <1>3 DEF Created, Abort, UpdateWrite, CleanupDelete, ReportInsert
  <2> QED
      BY <2>1 DEF Still, LocalsOK, Answer, Goto
<1>4. CASE UpdateRead(g) \/ CleanupRead(g) \/ ReportScans(g) \/ ReportRisks(g)
    BY <1>4 DEF Still, LocalsOK, UpdateRead, CleanupRead, ReportScans, ReportRisks, Open, Goto
<1> QED
    BY <1>1, <1>2, <1>3, <1>4 DEF Handler

(* Either a handler acts or none does.                                      *)
LEMMA StillOrActs ==
    ASSUME IInv, [Next]_vars, NEW h \in Threads
    PROVE  Still(h) \/ Handler(h)
<1>1. LocalsOK
    BY Parts DEF IInv
<1>2. CASE UNCHANGED vars \/ CreateWorkspace \/ DeleteAsset
    BY <1>2 DEF Still, vars, args, CreateWorkspace, DeleteAsset
<1>3. CASE \E g \in Threads : Handler(g)
    BY <1>1, <1>3, OthersAreStill
<1> QED
    BY <1>2, <1>3 DEF Next

(* A scan stays in its workspace, and a risk result is never taken back.    *)
LEMMA ScansStay ==
    ASSUME InventoryAssumption, IInv, [Next]_vars
    PROVE  /\ \A s \in ScanIds : scan_ws[s] # None => scan_ws'[s] = scan_ws[s]
           /\ risks \subseteq risks'
<1>1. TablesOK
    BY Parts DEF IInv
<1>2. ASSUME NEW h \in Threads, SaveScan(h)
      PROVE  /\ \A s \in ScanIds : scan_ws[s] # None => scan_ws'[s] = scan_ws[s]
             /\ risks \subseteq risks'
    BY <1>1, <1>2 DEF SaveScan, NextOf, TablesOK
<1>3. ASSUME NEW h \in Threads, ScoreAsset(h)
      PROVE  UNCHANGED scan_ws /\ risks \subseteq risks'
    BY <1>3 DEF ScoreAsset
<1>4. ASSUME NEW h \in Threads, Handler(h), ~SaveScan(h), ~ScoreAsset(h)
      PROVE  UNCHANGED <<scan_ws, risks>>
    BY <1>4 DEF Handler, Ingest, IngestRefused, CreateAsset, AutoWorkspace, FindAsset,
                InsertAsset, RereadAsset, Created, Abort, UpdateRead, UpdateWrite, CleanupRead,
                CleanupDelete, ReportScans, ReportRisks, ReportInsert, tables
<1>5. CASE UNCHANGED vars \/ CreateWorkspace \/ DeleteAsset
    BY <1>5 DEF vars, tables, CreateWorkspace, DeleteAsset
<1> QED
    BY <1>2, <1>3, <1>4, <1>5 DEF Next

LEMMA FoundStays ==
    ASSUME InventoryAssumption, IInv, [Next]_vars, NEW w, w # None, NEW b, FoundIn(w, b)
    PROVE  FoundIn(w, b)'
BY ScansStay DEF FoundIn, ScansOf

(* The scans of a workspace and what was read of them.                      *)
LEMMA ReadingStays ==
    ASSUME InventoryAssumption, IInv, [Next]_vars, NEW h \in Threads, Reading(h), Still(h)
    PROVE  Reading(h)'
<1>1. CASE pc[h] \in {"read", "report"}
  <2>1. PICK w : w = ws[h] /\ w # None
      BY <1>1 DEF IInv, Locals
  <2>2. \A b \in seen[h] : FoundIn(w, b)'
      BY <1>1, <2>1, FoundStays DEF Reading
  <2>3. pc[h] = "read" => \A s \in ids[h] : s \in ScanIds /\ scan_ws'[s] = w
      BY <1>1, <2>1, ScansStay DEF Reading, ScansOf
  <2>4. ws'[h] = ws[h] /\ seen'[h] = seen[h] /\ ids'[h] = ids[h] /\ pc'[h] = pc[h]
      BY DEF Still
  <2>5. ws'[h] = w
      BY <2>1, <2>4
  <2> QED
      BY <1>1, <2>2, <2>3, <2>4, <2>5 DEF Reading, ScansOf, FoundIn
<1>2. CASE pc[h] \notin {"read", "report"}
    BY <1>2 DEF Reading, Still
<1> QED
    BY <1>1, <1>2

LEMMA ReadingKeeps ==
    ASSUME InventoryAssumption, IInv, [Next]_vars, NEW h \in Threads, Reading(h)
    PROVE  Reading(h)'
<1>1. TablesOK /\ LocalsOK /\ Locals(h)
    BY Parts DEF IInv
<1>2. CASE Still(h)
    BY <1>2, ReadingStays
<1>3. CASE Answer(h)
    BY <1>1, <1>3 DEF Answer, Goto, LocalsOK, Reading
<1>4. CASE ReportScans(h)
  <2>1. PICK w \in workspaces : /\ ws' = [ws EXCEPT ![h] = w]
                                /\ ids' = [ids EXCEPT ![h] = ScansOf(w)]
      BY <1>4 DEF ReportScans
  <2>2. /\ pc'[h] = "read" /\ ws'[h] = w /\ ids'[h] = ScansOf(w) /\ UNCHANGED <<seen, scan_ws>>
        /\ pc[h] = "idle"
      BY <1>1, <1>4, <2>1 DEF ReportScans, LocalsOK, Goto, Ready, tables
  <2> QED
      BY <2>2 DEF Reading, ScansOf
<1>5. CASE ReportRisks(h)
  <2>1. pc[h] = "read" /\ UNCHANGED <<ws, scan_ws, risks>>
      BY <1>5 DEF ReportRisks, tables
  <2>2. CASE Goto(h, "report") /\ UNCHANGED <<ids, seen>>
      BY <1>1, <2>1, <2>2 DEF Goto, LocalsOK, Reading, FoundIn, ScansOf
  <2>3. CASE ids[h] # {}
    <3> PICK s \in ids[h] :
            /\ seen' = [seen EXCEPT ![h] = @ \union {<<r[2], r[3]>> : r \in {q \in risks : q[1] = s}}]
            /\ ids' = [ids EXCEPT ![h] = @ \ {s}]
            /\ UNCHANGED pc
        BY <1>5, <2>3 DEF ReportRisks
    <3>1. /\ seen'[h] = seen[h] \union {<<r[2], r[3]>> : r \in {q \in risks : q[1] = s}}
          /\ ids'[h] = ids[h] \ {s}
        BY <1>1 DEF LocalsOK
    <3>2. s \in ScansOf(ws[h])
        BY <2>1 DEF Reading
    <3>3. ASSUME NEW b \in seen'[h] PROVE FoundIn(ws[h], b)
      <4>1. CASE b \in seen[h]
          BY <2>1, <4>1 DEF Reading
      <4>2. CASE b \notin seen[h]
        <5>1. PICK r \in risks : r[1] = s /\ b = <<r[2], r[3]>>
            BY <3>1, <4>2
        <5>2. r = <<s, b[1], b[2]>>
            BY <1>1, <5>1 DEF TablesOK
        <5> QED
            BY <3>2, <5>2 DEF FoundIn
      <4> QED
          BY <4>1, <4>2
    <3> QED
        BY <2>1, <3>1, <3>3 DEF Reading, FoundIn, ScansOf
  <2> QED
      BY <1>5, <2>2, <2>3 DEF ReportRisks
<1>6. CASE \/ \E o \in Ingests, w \in workspaces \union {None}, p \in Payloads : Ingest(h, o, w, p)
           \/ \E w \in workspaces \union {None}, k \in Kinds : CreateAsset(h, w, k)
           \/ IngestRefused(h) \/ UpdateRead(h) \/ CleanupRead(h)
           \/ AutoWorkspace(h) \/ SaveScan(h)
    BY <1>1, <1>6 DEF Ingest, IngestRefused, CreateAsset, UpdateRead, CleanupRead, AutoWorkspace,
                      SaveScan, After, Ready, Goto, LocalsOK, Reading, args
<1>7. CASE FindAsset(h) \/ InsertAsset(h) \/ RereadAsset(h) \/ ScoreAsset(h)
    BY <1>1, <1>7 DEF FindAsset, InsertAsset, RereadAsset, ScoreAsset, Settle, After, Goto,
                      LocalsOK, Reading
<1>8. CASE Created(h) \/ Abort(h) \/ UpdateWrite(h) \/ CleanupDelete(h) \/ ReportInsert(h)
    BY <1>3, <1>8 DEF Created, Abort, UpdateWrite, CleanupDelete, ReportInsert
<1> QED
    BY <1>2, <1>4, <1>5, <1>6, <1>7, <1>8, StillOrActs DEF Handler

(* Only a report that is inserted is new.                                   *)
LEMMA NewReports ==
    ASSUME [Next]_vars, NEW r \in reports', r \notin reports
    PROVE  \E h \in Threads : ReportInsert(h) /\ r = <<ws[h], HighestOf(seen[h])>>
<1>1. ASSUME NEW h \in Threads, ReportInsert(h) PROVE r = <<ws[h], HighestOf(seen[h])>>
    BY <1>1 DEF ReportInsert
<1>2. ASSUME NEW h \in Threads, Handler(h), ~ReportInsert(h) PROVE UNCHANGED reports
    BY <1>2 DEF Handler, Ingest, IngestRefused, CreateAsset, AutoWorkspace, SaveScan, FindAsset,
                InsertAsset, RereadAsset, ScoreAsset, Created, Abort, UpdateRead, UpdateWrite,
                CleanupRead, CleanupDelete, ReportScans, ReportRisks, tables
<1>3. CASE UNCHANGED vars \/ CreateWorkspace \/ DeleteAsset
    BY <1>3 DEF vars, tables, CreateWorkspace, DeleteAsset
<1> QED
    BY <1>1, <1>2, <1>3 DEF Next

LEMMA ReportsStayReal ==
    ASSUME InventoryAssumption, IInv, [Next]_vars, Reported
    PROVE  ReportsAreReal'
<1>1. TablesOK /\ LocalsOK
    BY Parts DEF IInv
<1> SUFFICES ASSUME NEW r \in reports', NEW b \in r[2]
             PROVE  FoundIn(r[1], b)' /\ \A c \in r[2] : c[1] = b[1] => c = b
    BY DEF ReportsAreReal
<1>2. CASE r \in reports
  <2>1. r[1] # None
      BY <1>1, <1>2 DEF TablesOK, InventoryAssumption
  <2> QED
      BY <1>2, <2>1, FoundStays DEF Reported, ReportsAreReal
<1>3. CASE r \notin reports
  <2>1. PICK h \in Threads : ReportInsert(h) /\ r = <<ws[h], HighestOf(seen[h])>>
      BY <1>3, NewReports
  <2>2. PICK w : w = ws[h] /\ w # None /\ r[1] = w /\ r[2] = HighestOf(seen[h])
      BY <2>1 DEF IInv, Locals, ReportInsert
  <2>3. FoundIn(w, b)
      BY <2>1, <2>2 DEF Reported, Reading, ReportInsert, HighestOf
  <2>4. ASSUME NEW c \in r[2], c[1] = b[1] PROVE c = b
    <3>1. seen[h] \subseteq Names \X Scores /\ Scores \subseteq Int
        BY <1>1 DEF LocalsOK, InventoryAssumption
    <3>2. b \in seen[h] /\ c \in seen[h] /\ b[2] <= c[2] /\ c[2] <= b[2]
        BY <2>2, <2>4 DEF HighestOf
    <3>3. b[2] = c[2]
      <4>1. b[2] \in Int /\ c[2] \in Int
          BY <3>1, <3>2
      <4> QED
          BY <3>2, <4>1
    <3> QED
        BY <2>4, <3>1, <3>2, <3>3
  <2> QED
      BY <2>2, <2>3, <2>4, FoundStays
<1> QED
    BY <1>2, <1>3

LEMMA ReportedInv == ASSUME InventoryAssumption PROVE Spec => []Reported
<1>1. Init => Reported
    BY DEF Init, Reported, ReportsAreReal, Reading
<1>2. IInv /\ Reported /\ [Next]_vars => Reported'
  <2> SUFFICES ASSUME IInv, Reported, [Next]_vars PROVE Reported'
      OBVIOUS
  <2>1. \A h \in Threads : Reading(h)'
      BY ReadingKeeps DEF Reported
  <2> QED
      BY <2>1, ReportsStayReal DEF Reported
<1> QED
    BY <1>1, <1>2, Inductive, PTL DEF Spec

(* _persist_scan and create_workspace_report: a 201 names assets that were  *)
(* scored in this scan, and what a report says of an asset is what some     *)
(* scan of its workspace found, whatever was ingested while it was read.    *)
THEOREM AnswersStayTrue == ASSUME InventoryAssumption PROVE Spec => []AnswersAreTrue
<1>1. IInv /\ Reported => AnswersAreTrue
    BY DEF IInv, Reported, AnswersAreTrue
<1> QED
    BY <1>1, Inductive, ReportedInv, PTL

-----------------------------------------------------------------------------
(* While nobody renames or deletes an asset                                 *)

LEMMA PastGrows == ASSUME [Next]_vars PROVE past \subseteq past'
<1>1. ASSUME NEW h \in Threads, Handler(h) PROVE past \subseteq past'
  <2>1. past' = past \/ (\E o : Open(h, o)) \/ UpdateWrite(h)
      BY <1>1 DEF Handler, Ingest, IngestRefused, CreateAsset, AutoWorkspace, SaveScan,
                  FindAsset, InsertAsset, RereadAsset, ScoreAsset, Created, Abort, UpdateRead,
                  CleanupRead, CleanupDelete, ReportScans, ReportRisks, ReportInsert, history
  <2> QED
      BY <2>1 DEF Open, UpdateWrite
<1> QED
    BY <1>1 DEF Next, vars, history, CreateWorkspace, DeleteAsset

(* Then rows are only inserted, or deleted by a clean-up.                   *)
LEMMA AssetSteps ==
    ASSUME IInv, [Next]_vars, "edit" \notin past'
    PROVE  /\ "edit" \notin past
           /\ \/ UNCHANGED <<asset_status, kind>>
              \/ \E h \in Threads : InsertAsset(h) \/ CleanupDelete(h)
<1>1. CASE UNCHANGED vars \/ CreateWorkspace \/ DeleteAsset
    BY <1>1 DEF vars, tables, history, CreateWorkspace, DeleteAsset
<1>2. ASSUME NEW h \in Threads, Handler(h), ~InsertAsset(h), ~CleanupDelete(h), ~UpdateWrite(h)
      PROVE  UNCHANGED <<asset_status, kind>>
    BY <1>2 DEF Handler, Ingest, IngestRefused, CreateAsset, AutoWorkspace, SaveScan, FindAsset,
                RereadAsset, ScoreAsset, Created, Abort, UpdateRead, CleanupRead, ReportScans,
                ReportRisks, ReportInsert, tables
<1>3. ASSUME NEW h \in Threads, UpdateWrite(h)
      PROVE  UNCHANGED <<asset_status, kind>>
    BY <1>3 DEF UpdateWrite
<1>4. past \subseteq past'
    BY PastGrows
<1> QED
    BY <1>1, <1>2, <1>3, <1>4 DEF Next

LEMMA RowsStay ==
    ASSUME IInv, [Next]_vars, "edit" \notin past', NEW a, Stored(a)
    PROVE  Stored(a)' /\ kind'[a] = kind[a]
<1>1. TablesOK
    BY Parts DEF IInv
<1>2. ASSUME NEW h \in Threads, InsertAsset(h) PROVE Stored(a)' /\ kind'[a] = kind[a]
    BY <1>1, <1>2 DEF InsertAsset, NextOf, Stored, TablesOK
<1>3. ASSUME NEW h \in Threads, CleanupDelete(h) PROVE Stored(a)' /\ kind'[a] = kind[a]
    BY <1>1, <1>3 DEF CleanupDelete, Stored
<1> QED
    BY <1>2, <1>3, AssetSteps DEF Stored

(* Rows fill the ids in their order.                                        *)
InOrder == \A a, b \in AssetIds : a < b /\ Stored(b) => Stored(a)

LEMMA InOrderStays ==
    ASSUME InventoryAssumption, IInv, [Next]_vars, InOrder
    PROVE  InOrder'
<1>1. TablesOK
    BY Parts DEF IInv
<1>2. ASSUME NEW h \in Threads, InsertAsset(h) PROVE InOrder'
  <2>1. PICK a \in AssetIds :
            /\ NextOf(a, AssetIds, {b \in AssetIds : asset_status[b] # "absent"})
            /\ asset_status' = [asset_status EXCEPT ![a] = "live"]
      BY <1>2 DEF InsertAsset
  <2>2. /\ \A b \in AssetIds : Stored(b)' <=> Stored(b) \/ b = a
        /\ \A b \in AssetIds : b < a => Stored(b)
      BY <1>1, <2>1 DEF Stored, TablesOK, NextOf
  <2> QED
      BY <2>2 DEF InOrder
<1>3. ASSUME NEW h \in Threads, CleanupDelete(h)
      PROVE  \A b \in AssetIds : Stored(b)' <=> Stored(b)
    BY <1>1, <1>3 DEF CleanupDelete, Stored, IInv, Locals
<1>4. ASSUME DeleteAsset PROVE \A b \in AssetIds : Stored(b)' <=> Stored(b)
    BY <1>1, <1>4 DEF DeleteAsset, Stored, TablesOK, Live
<1>5. ASSUME NEW h \in Threads, Handler(h), ~InsertAsset(h), ~CleanupDelete(h)
      PROVE  UNCHANGED asset_status
    BY <1>5 DEF Handler, Ingest, IngestRefused, CreateAsset, AutoWorkspace, SaveScan, FindAsset,
                RereadAsset, ScoreAsset, Created, Abort, UpdateRead, UpdateWrite, CleanupRead,
                ReportScans, ReportRisks, ReportInsert, tables
<1>6. CASE UNCHANGED vars \/ CreateWorkspace
    BY <1>6 DEF vars, tables, CreateWorkspace, InOrder, Stored
<1> QED
    BY <1>2, <1>3, <1>4, <1>5, <1>6 DEF Next, InOrder, Stored

(* A clean-up deletes what it read.                                         *)
LEMMA DeletesWhatItRead ==
    ASSUME IInv, [Next]_vars, NEW h \in Threads, pc'[h] = "delete"
    PROVE  (pc[h] = "delete" /\ ids'[h] = ids[h]) \/ CleanupRead(h)
<1>1. LocalsOK
    BY Parts DEF IInv
<1>2. CASE Still(h)
    BY <1>2 DEF Still
<1>3. CASE Handler(h) /\ ~CleanupRead(h)
  <2>1. CASE \/ \E o \in Ingests, w \in workspaces \union {None}, p \in Payloads : Ingest(h, o, w, p)
             \/ \E w \in workspaces \union {None}, k \in Kinds : CreateAsset(h, w, k)
             \/ IngestRefused(h) \/ UpdateRead(h) \/ ReportScans(h) \/ ReportRisks(h)
             \/ AutoWorkspace(h) \/ SaveScan(h)
      BY <1>1, <2>1 DEF Ingest, IngestRefused, CreateAsset, UpdateRead, ReportScans, ReportRisks,
                        AutoWorkspace, SaveScan, After, Ready, Goto, LocalsOK, args
  <2>2. CASE FindAsset(h) \/ InsertAsset(h) \/ RereadAsset(h) \/ ScoreAsset(h)
      BY <1>1, <2>2 DEF FindAsset, InsertAsset, RereadAsset, ScoreAsset, Settle, After, Goto,
                        LocalsOK
  <2>3. CASE Created(h) \/ Abort(h) \/ UpdateWrite(h) \/ CleanupDelete(h) \/ ReportInsert(h)
      BY <1>1, <2>3 DEF Created, Abort, UpdateWrite, CleanupDelete, ReportInsert, Answer, Goto,
                        LocalsOK
  <2> QED
      BY <1>3, <2>1, <2>2, <2>3 DEF Handler
<1> QED
    BY <1>2, <1>3, StillOrActs

Kept == \A a \in AssetIds : Stored(a) => \E b \in AssetIds : kind[b] = kind[a] /\ IsKept(b)

(* The newest row of a kind stays the newest, or a newer one is inserted    *)
(* that no clean-up has read.                                               *)
LEMMA KeptStays ==
    ASSUME InventoryAssumption, IInv, [Next]_vars, "edit" \notin past', InOrder, Kept
    PROVE  Kept'
<1>1. TablesOK /\ LocalsOK /\ AssetIds \subseteq Nat
    BY Parts DEF IInv, InventoryAssumption
<1>2. CASE UNCHANGED <<asset_status, kind>>
  <2>1. ASSUME NEW b \in AssetIds, IsKept(b) PROVE IsKept(b)'
    <3>1. ASSUME NEW h \in Threads, pc'[h] = "delete" PROVE b \notin ids'[h]
      <4>1. CASE pc[h] = "delete" /\ ids'[h] = ids[h]
          BY <2>1, <4>1 DEF IsKept
      <4>2. CASE CleanupRead(h)
        <5>1. ids'[h] = {a \in Live : \E c \in Live : kind[a] = kind[c] /\ IsOlder(a, c)}
            BY <1>1, <4>2 DEF CleanupRead, LocalsOK
        <5>2. \A c \in Live : kind[b] = kind[c] => ~(b < c)
            BY <1>1, <2>1 DEF IsKept, Live, Stored
        <5> QED
            BY <5>1, <5>2 DEF IsOlder
      <4> QED
          BY <3>1, <4>1, <4>2, DeletesWhatItRead
    <3> QED
        BY <1>2, <2>1, <3>1 DEF IsKept, Live, Stored
  <2> QED
      BY <1>2, <2>1 DEF Kept, Stored
<1>3. ASSUME NEW h \in Threads, InsertAsset(h) PROVE Kept'
  <2>1. PICK a \in AssetIds :
            /\ NextOf(a, AssetIds, {b \in AssetIds : asset_status[b] # "absent"})
            /\ asset_status' = [asset_status EXCEPT ![a] = "live"]
            /\ kind' = [kind EXCEPT ![a] = Head(todo[h])]
      BY <1>3 DEF InsertAsset
  <2>2. /\ ~Stored(a) /\ a \in Live'
        /\ \A b \in AssetIds \ {a} : /\ kind'[b] = kind[b] /\ asset_status'[b] = asset_status[b]
                                     /\ Stored(b)' <=> Stored(b)
      BY <1>1, <2>1 DEF Stored, TablesOK, NextOf, Live
  <2>3. \A b \in AssetIds : Stored(b) => b <= a
      BY <1>1, <2>2 DEF InOrder
  <2>4. \A g \in Threads : pc'[g] = "delete" => pc[g] = "delete" /\ ids'[g] = ids[g]
      BY <1>1, <1>3 DEF InsertAsset, Goto, LocalsOK
  <2>5. \A g \in Threads : pc[g] = "delete" => \A b \in ids[g] : Stored(b)
      BY DEF IInv, Locals, Stored
  <2>6. IsKept(a)'
      BY <1>1, <2>2, <2>3, <2>4, <2>5 DEF IsKept
  <2>7. ASSUME NEW b \in AssetIds, IsKept(b), kind[b] # kind'[a] PROVE IsKept(b)' /\ kind'[b] = kind[b]
      BY <1>1, <2>2, <2>4, <2>7 DEF IsKept, Live, Stored
  <2> QED
      BY <2>2, <2>6, <2>7 DEF Kept
<1>4. ASSUME NEW h \in Threads, CleanupDelete(h) PROVE Kept'
  <2>1. /\ pc[h] = "delete" /\ kind' = kind
        /\ asset_status' = [a \in AssetIds |-> IF a \in ids[h] THEN "deleted" ELSE asset_status[a]]
      BY <1>4 DEF CleanupDelete
  <2>2. \A a \in AssetIds : Stored(a)' <=> Stored(a)
      BY <2>1 DEF IInv, Locals, Stored
  <2>3. \A g \in Threads : pc'[g] = "delete" => pc[g] = "delete" /\ ids'[g] = ids[g]
      BY <1>1, <1>4 DEF CleanupDelete, Answer, Goto, LocalsOK
  <2>4. ASSUME NEW b \in AssetIds, IsKept(b) PROVE IsKept(b)'
      BY <1>1, <2>1, <2>2, <2>3, <2>4 DEF IsKept, Live
  <2> QED
      BY <2>1, <2>2, <2>4 DEF Kept
<1> QED
    BY <1>2, <1>3, <1>4, AssetSteps

(* What waits for a score is one of the rows that were found or inserted.   *)
LEMMA QueueGrows ==
    ASSUME InventoryAssumption, IInv, NEW h \in Threads, Handler(h), NEW i \in DOMAIN to_score'[h]
    PROVE  \/ \E j \in DOMAIN to_score[h] : to_score'[h][i] = to_score[h][j]
           \/ \E a \in Live : to_score'[h][i] = <<a, kind[a][1]>>
<1>1. LocalsOK /\ to_score[h] \in Seq(AssetIds \X Names)
    BY Parts DEF IInv, LocalsOK
<1>2. ASSUME NEW a \in Live, Settle(h, a)
      PROVE  \/ \E j \in DOMAIN to_score[h] : to_score'[h][i] = to_score[h][j]
             \/ to_score'[h][i] = <<a, kind[a][1]>>
  <2>1. to_score'[h] = Append(to_score[h], <<a, kind[a][1]>>)
      BY <1>1, <1>2 DEF Settle, LocalsOK
  <2> QED
      BY <1>1, <2>1
<1>3. CASE FindAsset(h) \/ RereadAsset(h)
    BY <1>2, <1>3 DEF FindAsset, RereadAsset, Live
<1>4. CASE ScoreAsset(h)
  <2>1. to_score[h] # <<>> /\ to_score'[h] = Tail(to_score[h])
      BY <1>1, <1>4 DEF ScoreAsset, LocalsOK
  <2>2. i + 1 \in DOMAIN to_score[h] /\ to_score'[h][i] = to_score[h][i + 1]
      BY <1>1, <2>1
  <2> QED
      BY <2>2
<1>5. CASE Answer(h)
  <2>1. to_score'[h] = <<>>
      BY <1>1, <1>5 DEF Answer, LocalsOK
  <2> QED
      BY <2>1
<1>6. CASE \/ \E o \in Ingests, w \in workspaces \union {None}, p \in Payloads : Ingest(h, o, w, p)
           \/ \E w \in workspaces \union {None}, k \in Kinds : CreateAsset(h, w, k)
           \/ IngestRefused(h) \/ UpdateRead(h) \/ CleanupRead(h) \/ ReportScans(h)
           \/ ReportRisks(h) \/ AutoWorkspace(h) \/ SaveScan(h) \/ InsertAsset(h)
    BY <1>6 DEF Ingest, CreateAsset, IngestRefused, UpdateRead, CleanupRead, ReportScans,
                ReportRisks, AutoWorkspace, SaveScan, InsertAsset, args
<1> QED
    BY <1>3, <1>4, <1>5, <1>6 DEF Handler, Created, Abort, UpdateWrite, CleanupDelete, ReportInsert

Named == \A h \in Threads : \A i \in DOMAIN to_score[h] : IsNamed(to_score[h][i])

LEMMA IsNamedStays ==
    ASSUME IInv, [Next]_vars, "edit" \notin past', NEW x, IsNamed(x)
    PROVE  IsNamed(x)'
BY RowsStay DEF IsNamed

LEMMA NamedStays ==
    ASSUME InventoryAssumption, IInv, [Next]_vars, "edit" \notin past', Named
    PROVE  Named'
<1> SUFFICES ASSUME NEW h \in Threads, NEW i \in DOMAIN to_score'[h]
             PROVE  IsNamed(to_score[h][i])'
    BY DEF Named
<1>1. PICK x : x = to_score'[h][i]
    OBVIOUS
<1>2. IsNamed(x)
  <2>1. ASSUME NEW a \in Live, x = <<a, kind[a][1]>> PROVE IsNamed(x)
      BY <2>1 DEF IsNamed, Stored, Live
  <2>2. \/ \E j \in DOMAIN to_score[h] : x = to_score[h][j]
        \/ \E a \in Live : x = <<a, kind[a][1]>>
      BY <1>1, StillOrActs, QueueGrows DEF Still
  <2> QED
      BY <2>1, <2>2 DEF Named
<1>3. IsNamed(x)'
    BY <1>2, IsNamedStays
<1> QED
    BY <1>1, <1>3 DEF IsNamed, Stored

Filed == \A x \in scored : IsScored(x)

LEMMA FiledStays ==
    ASSUME InventoryAssumption, IInv, [Next]_vars, "edit" \notin past', Named, Filed
    PROVE  Filed'
<1> SUFFICES ASSUME NEW x \in scored' PROVE IsScored(x)'
    BY DEF Filed
<1>1. CASE x \in scored
  <2>1. IsScored(x)
      BY <1>1 DEF Filed
  <2>2. Stored(x[1])' /\ kind'[x[1]] = kind[x[1]]
      BY <2>1, RowsStay DEF IsScored
  <2> QED
      BY <2>1, <2>2, ScansStay DEF IsScored
<1>2. CASE x \notin scored
  <2>1. PICK h \in Threads : ScoreAsset(h)
    <3>1. ASSUME NEW h \in Threads, Handler(h), ~ScoreAsset(h), ~Created(h) PROVE scored' = scored
        BY <3>1 DEF Handler, Ingest, IngestRefused, CreateAsset, AutoWorkspace, SaveScan,
                    FindAsset, InsertAsset, RereadAsset, Abort, UpdateRead, UpdateWrite,
                    CleanupRead, CleanupDelete, ReportScans, ReportRisks, ReportInsert,
                    history, answers
    <3>2. ASSUME NEW h \in Threads, Created(h) PROVE scored' = scored
        BY <3>2 DEF Created, history, answers
    <3> QED
        BY <1>2, <3>1, <3>2 DEF Next, vars, CreateWorkspace, DeleteAsset, history, answers
  <2>2. to_score[h] \in Seq(AssetIds \X Names) /\ to_score[h] # <<>>
      BY <2>1, Parts DEF IInv, LocalsOK, ScoreAsset
  <2>3. PICK y : y = Head(to_score[h])
      OBVIOUS
  <2>4. IsNamed(y)
    <3>1. 1 \in DOMAIN to_score[h] /\ y = to_score[h][1]
        BY <2>2, <2>3
    <3> QED
        BY <3>1 DEF Named
  <2>5. x = <<y[1], scan_of[h]>> /\ \E v \in Scores : <<scan_of[h], y[2], v>> \in risks'
      BY <1>2, <2>1, <2>3 DEF ScoreAsset
  <2>6. Stored(y[1])' /\ kind'[y[1]] = kind[y[1]]
      BY <2>4, RowsStay DEF IsNamed
  <2> QED
      BY <2>4, <2>5, <2>6 DEF IsScored, IsNamed
<1> QED
    BY <1>1, <1>2

LEMMA UneditedInv == ASSUME InventoryAssumption PROVE Spec => []Unedited
<1>1. /\ Unedited <=> InOrder /\ ("edit" \notin past => Kept /\ Named /\ Filed)
      /\ Unedited' <=> InOrder' /\ ("edit" \notin past' => Kept' /\ Named' /\ Filed')
    BY DEF Unedited, InOrder, Kept, Named, Filed
<1>2. Init => Unedited
  <2>1. Init => InOrder /\ Kept
      BY DEF Init, InOrder, Kept, Stored
  <2>2. Init => Named /\ Filed
      BY DEF Init, Named, Filed
  <2> QED
      BY <1>1, <2>1, <2>2
<1>3. IInv /\ Unedited /\ [Next]_vars => Unedited'
    BY <1>1, AssetSteps, InOrderStays, KeptStays, NamedStays, FiledStays
<1> QED
    BY <1>2, <1>3, Inductive, PTL DEF Spec

(* cleanup_duplicate_assets: as long as nobody renames or deletes an asset, *)
(* overlapping clean-ups and ingests keep one of each name and type, and    *)
(* its history has every scan that was scored for any of them.              *)
THEOREM HistoryStaysWhole == ASSUME InventoryAssumption PROVE Spec => []CleanupKeepsHistory
<1>1. ASSUME IInv, Unedited, "edit" \notin past PROVE OneIsKept /\ HistoryIsWhole
  <2>1. OneIsKept
      BY <1>1 DEF OneIsKept, Unedited, Stored, IsKept
  <2>2. HistoryIsWhole
      BY <1>1 DEF HistoryIsWhole, Unedited, IsScored, HistoryOf
  <2> QED
      BY <2>1, <2>2
<1>2. IInv /\ Unedited => CleanupKeepsHistory
    BY <1>1 DEF CleanupKeepsHistory
<1> QED
    BY <1>2, Inductive, UneditedInv, PTL

-----------------------------------------------------------------------------
(* While requests do not overlap                                            *)

Solo == \A g, h \in Threads : pc[g] # "idle" /\ pc[h] # "idle" => g = h

(* A handler that was idle opens a request, if it does anything to a table. *)
LEMMA FromIdle ==
    ASSUME IInv, NEW h \in Threads, Handler(h), pc[h] = "idle"
    PROVE  IngestRefused(h) \/ \E o : Open(h, o)
BY DEF Handler, Ingest, CreateAsset, AutoWorkspace, SaveScan, FindAsset, InsertAsset,
       RereadAsset, ScoreAsset, Created, AllScored, Abort, UpdateRead, UpdateWrite, CleanupRead,
       CleanupDelete, ReportScans, ReportRisks, ReportInsert

LEMMA SoloStays ==
    ASSUME IInv, [Next]_vars, "overlap" \notin past', Solo
    PROVE  Solo'
<1> SUFFICES ASSUME NEW g \in Threads, NEW h \in Threads, pc'[g] # "idle", pc'[h] # "idle", g # h
             PROVE  FALSE
    BY DEF Solo
<1>1. ASSUME NEW f \in Threads, pc[f] = "idle", pc'[f] # "idle"
      PROVE  Handler(f) /\ \A e \in Threads : pc[e] = "idle"
  <2>1. Handler(f)
      BY <1>1, StillOrActs DEF Still
  <2>2. ~IngestRefused(f)
      BY <1>1 DEF IngestRefused
  <2> QED
      BY <1>1, <2>1, <2>2, FromIdle DEF Open
<1>2. PICK f \in {g, h} : pc[f] = "idle"
    BY DEF Solo
<1>3. pc[g] = "idle" /\ pc[h] = "idle"
    BY <1>1, <1>2
<1>4. Handler(g) /\ ~Still(h)
    BY <1>1, <1>3 DEF Still
<1> QED
    BY <1>4, OthersAreStill, Parts DEF IInv

(* Nobody but a deletion touches the tables under a handler.                *)
LEMMA Undisturbed ==
    ASSUME IInv, [Next]_vars, "overlap" \notin past', Solo,
           NEW h \in Threads, pc'[h] # "idle", ~Handler(h)
    PROVE  /\ Still(h)
           /\ UNCHANGED <<scan_ws, kind, environment, risks, reports>>
           /\ Live' \subseteq Live
<1>1. Still(h) /\ pc[h] # "idle"
    BY StillOrActs DEF Still
<1>2. CASE UNCHANGED vars \/ CreateWorkspace
    BY <1>1, <1>2 DEF vars, tables, CreateWorkspace, Live
<1>3. CASE DeleteAsset
  <2>1. TablesOK
      BY Parts DEF IInv
  <2> QED
      BY <1>1, <1>3, <2>1 DEF DeleteAsset, Live, TablesOK
<1>4. ASSUME NEW g \in Threads, Handler(g) PROVE UNCHANGED tables
  <2>1. pc[g] = "idle"
      BY <1>1, <1>4 DEF Solo
  <2>2. ~(\E o : Open(g, o))
      BY <1>1 DEF Open
  <2> QED
      BY <1>4, <2>1, <2>2, FromIdle DEF IngestRefused
<1> QED
    BY <1>1, <1>2, <1>3, <1>4 DEF Next, tables, Live

(* What a handler has just read is up to date.                              *)
LEMMA UndisturbedIsUpToDate ==
    ASSUME IInv, [Next]_vars, "overlap" \notin past', Solo', Solo,
           NEW h \in Threads, UpToDate(h), pc'[h] # "idle", ~Handler(h)
    PROVE  UpToDate(h)'
<1>1. /\ Still(h)
      /\ UNCHANGED <<scan_ws, kind, environment, risks>>
      /\ Live' \subseteq Live
      /\ past \subseteq past'
    BY Undisturbed, PastGrows
<1>2. /\ pc'[h] = pc[h] /\ row'[h] = row[h] /\ asked'[h] = asked[h] /\ merged'[h] = merged[h]
      /\ ids'[h] = ids[h] /\ seen'[h] = seen[h] /\ ws'[h] = ws[h] /\ todo'[h] = todo[h]
    BY <1>1 DEF Still
<1>3. (pc[h] = "update" /\ row[h] \in Live =>
          /\ asked[h][1] = None => merged[h][1] = kind[row[h]]
          /\ asked[h][2] \in {None, "null"} => merged[h][2] = environment[row[h]])'
    BY <1>1, <1>2 DEF UpToDate
<1>4. (pc[h] = "delete" => \A a, b \in Live : kind[a] = kind[b] /\ a < b => a \in ids[h])'
    BY <1>1, <1>2 DEF UpToDate
<1>5. (pc[h] \in {"read", "report"} =>
          \A q \in risks : \/ q[1] \notin ScansOf(ws[h])
                           \/ pc[h] = "read" /\ q[1] \in ids[h]
                           \/ <<q[2], q[3]>> \in seen[h])'
    BY <1>1, <1>2 DEF UpToDate, ScansOf
<1>6. (pc[h] \in {"own_workspace", "insert"} /\ "edit" \notin past =>
          \A a \in Live : kind[a] # Head(todo[h]))'
    BY <1>1, <1>2 DEF UpToDate
<1> QED
    BY <1>3, <1>4, <1>5, <1>6 DEF UpToDate, Solo

(* Where a handler may go on to.                                            *)
LEMMA OtherWays ==
    ASSUME IInv, NEW h \in Threads, Handler(h), ~UpdateRead(h), ~CleanupRead(h),
           ~ReportScans(h), ~ReportRisks(h), ~AutoWorkspace(h), ~FindAsset(h)
    PROVE  \/ pc'[h] \in {"idle", "workspace", "scan", "find", "reread", "score", "answer"}
<1>1. LocalsOK
    BY Parts DEF IInv
<1>2. CASE \/ \E o \in Ingests, w \in workspaces \union {None}, p \in Payloads : Ingest(h, o, w, p)
           \/ \E w \in workspaces \union {None}, k \in Kinds : CreateAsset(h, w, k)
           \/ IngestRefused(h) \/ SaveScan(h)
    BY <1>1, <1>2 DEF Ingest, CreateAsset, IngestRefused, SaveScan, After, Ready, Goto, LocalsOK,
                      args
<1>3. CASE InsertAsset(h) \/ RereadAsset(h) \/ ScoreAsset(h)
    BY <1>1, <1>3 DEF InsertAsset, RereadAsset, ScoreAsset, Settle, After, Goto, LocalsOK
<1>4. CASE Created(h) \/ Abort(h) \/ UpdateWrite(h) \/ CleanupDelete(h) \/ ReportInsert(h)
    BY <1>1, <1>4 DEF Created, Abort, UpdateWrite, CleanupDelete, ReportInsert, Answer, Goto,
                      LocalsOK
<1> QED
    BY <1>2, <1>3, <1>4 DEF Handler

LEMMA ReadIsUpToDate ==
    ASSUME InventoryAssumption, IInv, [Next]_vars, "overlap" \notin past', Solo',
           NEW h \in Threads, UpToDate(h), Handler(h)
    PROVE  UpToDate(h)'
<1>1. TablesOK /\ LocalsOK /\ AssetIds \subseteq Nat
    BY Parts DEF IInv, InventoryAssumption
<1>2. CASE pc'[h] \in {"idle", "workspace", "scan", "find", "reread", "score", "answer"}
    BY <1>2 DEF UpToDate, Solo
<1>3. CASE UpdateRead(h)
  <2>1. PICK a \in Live, k \in Kinds \union {None}, e \in Environments \union {None} :
            /\ row' = [row EXCEPT ![h] = a]
            /\ asked' = [asked EXCEPT ![h] = <<k, e>>]
            /\ merged' = [merged EXCEPT ![h] = Merge(a, k, e)]
      BY <1>3 DEF UpdateRead
  <2>2. /\ row'[h] = a /\ asked'[h] = <<k, e>> /\ merged'[h] = Merge(a, k, e) /\ pc'[h] = "update"
        /\ UNCHANGED <<kind, environment>>
      BY <1>1, <1>3, <2>1 DEF UpdateRead, LocalsOK, Goto, tables
  <2>3. environment[a] # "null"
      BY DEF IInv, EnvironmentIsKnown, Live
  <2>4. /\ k = None => Merge(a, k, e)[1] = kind[a]
        /\ e \in {None, "null"} => Merge(a, k, e)[2] = environment[a]
      BY <2>3 DEF Merge, Orelse, OrUnknown
  <2> QED
      BY <2>2, <2>4 DEF UpToDate, Solo
<1>4. CASE CleanupRead(h)
  <2>1. /\ ids'[h] = {a \in Live : \E b \in Live : kind[a] = kind[b] /\ IsOlder(a, b)}
        /\ pc'[h] = "delete" /\ UNCHANGED <<kind, asset_status>>
      BY <1>1, <1>4 DEF CleanupRead, LocalsOK, Goto, tables
  <2>2. Live' = Live
      BY <2>1 DEF Live
  <2> QED
      BY <2>1, <2>2 DEF UpToDate, Solo, IsOlder
<1>5. CASE ReportScans(h)
  <2>1. PICK w \in workspaces : ws' = [ws EXCEPT ![h] = w] /\ ids' = [ids EXCEPT ![h] = ScansOf(w)]
      BY <1>5 DEF ReportScans
  <2>2. /\ pc'[h] = "read" /\ ws'[h] = w /\ ids'[h] = ScansOf(w) /\ UNCHANGED scan_ws
      BY <1>1, <1>5, <2>1 DEF ReportScans, LocalsOK, Goto, tables
  <2> QED
      BY <2>2 DEF UpToDate, Solo, ScansOf
<1>6. CASE ReportRisks(h)
  <2>1. pc[h] = "read" /\ UNCHANGED <<ws, scan_ws, risks>>
      BY <1>6 DEF ReportRisks, tables
  <2>2. CASE ids[h] = {}
    <3>1. pc'[h] = "report" /\ UNCHANGED <<ids, seen>>
        BY <1>1, <1>6, <2>2 DEF ReportRisks, Goto, LocalsOK
    <3> QED
        BY <2>1, <2>2, <3>1 DEF UpToDate, Solo, ScansOf
  <2>3. CASE ids[h] # {}
    <3> PICK s \in ids[h] :
            /\ seen' = [seen EXCEPT ![h] = @ \union {<<r[2], r[3]>> : r \in {q \in risks : q[1] = s}}]
            /\ ids' = [ids EXCEPT ![h] = @ \ {s}]
            /\ UNCHANGED pc
        BY <1>6, <2>3 DEF ReportRisks
    <3>1. /\ seen'[h] = seen[h] \union {<<r[2], r[3]>> : r \in {q \in risks : q[1] = s}}
          /\ ids'[h] = ids[h] \ {s}
        BY <1>1 DEF LocalsOK
    <3>2. ASSUME NEW q \in risks, q[1] \in ScansOf(ws[h])
          PROVE  q[1] \in ids'[h] \/ <<q[2], q[3]>> \in seen'[h]
        BY <2>1, <3>1, <3>2 DEF UpToDate
    <3>3. pc'[h] = "read" /\ ScansOf(ws[h])' = ScansOf(ws[h])
        BY <2>1 DEF ScansOf
    <3> QED
        BY <2>1, <3>2, <3>3 DEF UpToDate, Solo
  <2> QED
      BY <2>2, <2>3
<1>7. CASE AutoWorkspace(h)
  <2>1. /\ pc[h] = "own_workspace" \/ pc'[h] = "scan"
        /\ pc'[h] \in {"scan", "insert"} /\ UNCHANGED <<asset_status, kind, todo, past>>
      BY <1>1, <1>7 DEF AutoWorkspace, LocalsOK, Goto, history
  <2> QED
      BY <2>1 DEF UpToDate, Solo, Live
<1>8. CASE FindAsset(h)
  <2>1. CASE {a \in Live : Matches(h, a)} # {}
    <3>1. \E a \in Live : Settle(h, a)
        BY <1>8, <2>1 DEF FindAsset
    <3>2. pc'[h] \in {"find", "score", "answer"}
        BY <1>1, <3>1 DEF Settle, Goto, After, LocalsOK
    <3> QED
        BY <1>2, <3>2
  <2>2. CASE {a \in Live : Matches(h, a)} = {}
    <3>1. /\ pc'[h] \in {"own_workspace", "insert"}
          /\ UNCHANGED <<todo, asset_status, kind>>
        BY <1>1, <1>8, <2>2 DEF FindAsset, Goto, LocalsOK, tables
    <3> QED
        BY <2>2, <3>1 DEF UpToDate, Solo, Live, Matches
  <2> QED
      BY <2>1, <2>2
<1> QED
    BY <1>2, <1>3, <1>4, <1>5, <1>6, <1>7, <1>8, OtherWays

LEMMA SingleStays ==
    ASSUME InventoryAssumption, IInv, [Next]_vars, "edit" \notin past', AssetStaysSingle,
           \A h \in Threads : UpToDate(h)
    PROVE  AssetStaysSingle'
<1>1. TablesOK /\ "edit" \notin past
    BY AssetSteps, Parts DEF IInv
<1>2. CASE UNCHANGED <<asset_status, kind>>
    BY <1>2 DEF AssetStaysSingle, Live
<1>3. ASSUME NEW h \in Threads, InsertAsset(h) PROVE AssetStaysSingle'
  <2>1. PICK a \in AssetIds : /\ asset_status' = [asset_status EXCEPT ![a] = "live"]
                              /\ kind' = [kind EXCEPT ![a] = Head(todo[h])]
      BY <1>3 DEF InsertAsset
  <2>2. \A b \in Live : kind[b] # Head(todo[h])
      BY <1>1, <1>3 DEF UpToDate, InsertAsset
  <2>3. kind'[a] = Head(todo[h]) /\ \A b \in Live' \ {a} : b \in Live /\ kind'[b] = kind[b]
      BY <1>1, <2>1 DEF TablesOK, Live
  <2> QED
      BY <2>2, <2>3 DEF AssetStaysSingle
<1>4. ASSUME NEW h \in Threads, CleanupDelete(h) PROVE AssetStaysSingle'
    BY <1>4 DEF CleanupDelete, AssetStaysSingle, Live
<1> QED
    BY <1>2, <1>3, <1>4, AssetSteps

LEMMA AloneInv == ASSUME InventoryAssumption PROVE Spec => []Alone
<1>1. Init => Alone
    BY DEF Init, Alone, UpToDate, AssetStaysSingle, Live
<1>2. IInv /\ Alone /\ [Next]_vars => Alone'
  <2> SUFFICES ASSUME IInv, Alone, [Next]_vars, "overlap" \notin past'
               PROVE  /\ \A h \in Threads : UpToDate(h)'
                      /\ "edit" \notin past' => AssetStaysSingle'
      BY DEF Alone
  <2>1. /\ \A h \in Threads : UpToDate(h)
        /\ "edit" \notin past' => AssetStaysSingle
      BY PastGrows DEF Alone
  <2>2. Solo /\ Solo'
    <3>1. Solo
        BY <2>1 DEF Solo, UpToDate
    <3> QED
        BY <3>1, SoloStays
  <2>3. ASSUME NEW h \in Threads PROVE UpToDate(h)'
    <3>1. CASE pc'[h] = "idle"
        BY <3>1 DEF UpToDate
    <3> QED
        BY <2>1, <2>2, <3>1, UndisturbedIsUpToDate, ReadIsUpToDate
  <2> QED
      BY <2>1, <2>3, SingleStays
<1> QED
    BY <1>1, <1>2, Inductive, PTL DEF Spec

(* What the service stores and its handlers remember, however requests      *)
(* overlap and wherever they fail: the four invariants together.            *)
THEOREM StoredStaysConsistent == ASSUME InventoryAssumption PROVE Spec => []StoredIsConsistent
<1>1. IInv /\ Reported /\ Unedited /\ Alone => StoredIsConsistent
    BY DEF StoredIsConsistent
<1> QED
    BY <1>1, Inductive, ReportedInv, UneditedInv, AloneInv, PTL

(* Of finitely many scores one is the highest.                              *)
LEMMA HighestExists ==
    ASSUME NEW S \in SUBSET Int, IsFiniteSet(S), S # {}
    PROVE  \E x \in S : \A y \in S : y <= x
<1> DEFINE HasHighest(T) == \E x \in T : \A y \in T : y <= x
           B == {T \in FiniteSubsetsOf(S) : T # {} /\ ~HasHighest(T)}
           R == StrictSubsetOrdering(S)
<1> SUFFICES ASSUME B # {} PROVE FALSE
    BY DEF FiniteSubsetsOf
<1>1. PICK T \in B : \A U \in B : ~(<<U, T>> \in R)
  <2>1. IsWellFoundedOn(R, FiniteSubsetsOf(S)) /\ B \subseteq FiniteSubsetsOf(S)
      BY FS_StrictSubsetOrderingWellFounded
  <2> HIDE DEF B, R
  <2> QED
      BY <2>1, WFMin, Zenon
<1>2. T \in SUBSET S /\ IsFiniteSet(T) /\ T # {} /\ ~HasHighest(T)
    BY DEF FiniteSubsetsOf
<1>3. PICK x \in T : TRUE
    BY <1>2
<1>4. T \ {x} \in FiniteSubsetsOf(S) /\ <<T \ {x}, T>> \in R
    BY <1>2, <1>3, FS_RemoveElement DEF FiniteSubsetsOf, StrictSubsetOrdering
<1>5. T \ {x} = {} \/ HasHighest(T \ {x})
    BY <1>1, <1>4
<1>6. CASE T \ {x} = {}
    BY <1>2, <1>3, <1>6
<1>7. CASE HasHighest(T \ {x})
  <2>1. PICK y \in T \ {x} : \A z \in T \ {x} : z <= y
      BY <1>7
  <2>2. x \in Int /\ y \in Int /\ T \subseteq Int
      BY <1>2, <1>3
  <2>3. CASE x <= y
      BY <1>2, <2>1, <2>2, <2>3
  <2>4. CASE y <= x
      BY <1>2, <1>3, <2>1, <2>2, <2>4
  <2> QED
      BY <2>2, <2>3, <2>4
<1> QED
    BY <1>5, <1>6, <1>7

(* The tables are finite, and what is read of them.                         *)
Finite == IsFiniteSet(risks) /\ \A h \in Threads : IsFiniteSet(seen[h])

LEMMA FiniteInv == ASSUME InventoryAssumption PROVE Spec => []Finite
<1>1. Init => Finite
    BY FS_EmptySet DEF Init, Finite
<1>2. ASSUME IInv, Finite, [Next]_vars PROVE Finite'
  <2>1. LocalsOK /\ LocalsOK'
      BY <1>2, StepInv, Parts DEF IInv
  <2>2. IsFiniteSet(risks')
    <3>1. risks' = risks \/ \E x : risks' = risks \union {x}
      <4>1. ASSUME NEW h \in Threads, Handler(h), ~ScoreAsset(h) PROVE risks' = risks
          BY <4>1 DEF Handler, Ingest, IngestRefused, CreateAsset, AutoWorkspace, SaveScan,
                      FindAsset, InsertAsset, RereadAsset, Created, Abort, UpdateRead,
                      UpdateWrite, CleanupRead, CleanupDelete, ReportScans, ReportRisks,
                      ReportInsert, tables
      <4>2. ASSUME NEW h \in Threads, ScoreAsset(h) PROVE \E x : risks' = risks \union {x}
          BY <4>2 DEF ScoreAsset
      <4> QED
          BY <1>2, <4>1, <4>2 DEF Next, vars, tables, CreateWorkspace, DeleteAsset
    <3> QED
        BY <1>2, <3>1, FS_AddElement DEF Finite
  <2>3. ASSUME NEW h \in Threads PROVE IsFiniteSet(seen'[h])
    <3>1. CASE seen'[h] = seen[h] \/ seen'[h] = {}
        BY <1>2, <3>1, FS_EmptySet DEF Finite
    <3>2. CASE ReportRisks(h) /\ ids[h] # {}
      <4>1. PICK s : seen' = [seen EXCEPT ![h] = @ \union {<<r[2], r[3]>> : r \in {q \in risks : q[1] = s}}]
          BY <3>2 DEF ReportRisks
      <4> DEFINE Q == {q \in risks : q[1] = s}
                 F == {<<r[2], r[3]>> : r \in Q}
                 f == [r \in Q |-> <<r[2], r[3]>>]
      <4>2. seen'[h] = seen[h] \union F
          BY <2>1, <4>1 DEF LocalsOK
      <4>3. IsFiniteSet(Q)
          BY <1>2, FS_Subset, Q \in SUBSET risks DEF Finite
      <4>4. f \in Surjection(Q, F)
          BY DEF Surjection
      <4>5. IsFiniteSet(F)
        <5> HIDE DEF Q, F, f
        <5> QED
            BY <4>3, <4>4, FS_Surjection
      <4>6. IsFiniteSet(seen[h])
          BY <1>2 DEF Finite
      <4> HIDE DEF Q, F, f
      <4> QED
          BY <4>2, <4>5, <4>6, FS_Union
    <3>3. CASE ReportRisks(h) /\ ids[h] = {}
        BY <3>1, <3>3 DEF ReportRisks
    <3>4. CASE Answer(h)
        BY <2>1, <3>1, <3>4 DEF Answer, LocalsOK
    <3>5. CASE Handler(h) /\ ~ReportRisks(h) /\ ~Answer(h)
      <4>1. seen' = seen
          BY <3>5 DEF Handler, Ingest, IngestRefused, CreateAsset, AutoWorkspace, SaveScan,
                      FindAsset, InsertAsset, RereadAsset, ScoreAsset, Created, Abort, UpdateRead,
                      UpdateWrite, CleanupRead, CleanupDelete, ReportScans, ReportInsert, args
      <4> QED
          BY <3>1, <4>1
    <3>6. CASE Still(h)
        BY <3>1, <3>6 DEF Still
    <3> QED
        BY <1>2, <3>2, <3>3, <3>4, <3>5, <3>6, StillOrActs
  <2> QED
      BY <2>2, <2>3 DEF Finite
<1> QED
    BY <1>1, <1>2, Inductive, PTL DEF Spec

(* The handler whose request ends is the one that acts.                     *)
LEMMA EndsItself ==
    ASSUME IInv, [Next]_vars, NEW h \in Threads, pc[h] # "idle", pc'[h] = "idle"
    PROVE  Handler(h)
BY StillOrActs DEF Still

LEMMA SingleReportIsExact ==
    ASSUME InventoryAssumption, IInv, Finite, [Next]_vars, \A h \in Threads : UpToDate(h)
    PROVE  ReportsExactly
<1> SUFFICES ASSUME NEW r \in reports', r \notin reports, NEW q \in risks, q[1] \in ScansOf(r[1])
             PROVE  \E b \in r[2] : b[1] = q[2] /\ b[2] >= q[3]
    BY DEF ReportsExactly
<1>1. PICK h \in Threads : ReportInsert(h) /\ r = <<ws[h], HighestOf(seen[h])>>
    BY NewReports
<1>2. <<q[2], q[3]>> \in seen[h]
    BY <1>1 DEF UpToDate, ReportInsert
<1>3. seen[h] \subseteq Names \X Scores /\ Scores \subseteq Int
    BY Parts DEF IInv, LocalsOK, InventoryAssumption
<1> DEFINE Q == {c \in seen[h] : c[1] = q[2]}
           S == {c[2] : c \in Q}
           f == [c \in Q |-> c[2]]
<1>4. IsFiniteSet(S)
  <2>1. IsFiniteSet(Q)
      BY FS_Subset, Q \in SUBSET seen[h] DEF Finite
  <2>2. f \in Surjection(Q, S)
      BY DEF Surjection
  <2> HIDE DEF Q, S, f
  <2> QED
      BY <2>1, <2>2, FS_Surjection
<1>5. S \in SUBSET Int /\ q[3] \in S
  <2>1. \A c \in seen[h] : c[2] \in Int
      BY <1>3
  <2>2. <<q[2], q[3]>> \in Q /\ <<q[2], q[3]>>[2] = q[3]
      BY <1>2
  <2> QED
      BY <2>1, <2>2
<1>6. PICK x \in S : \A y \in S : y <= x
  <2> HIDE DEF S
  <2> QED
      BY <1>4, <1>5, HighestExists
<1>7. PICK b \in Q : b[2] = x
    OBVIOUS
<1>8. b \in HighestOf(seen[h])
    BY <1>6, <1>7 DEF HighestOf
<1>9. q[3] <= b[2] /\ q[3] \in Int /\ b[2] \in Int
    BY <1>5, <1>6, <1>7
<1> QED
    BY <1>1, <1>7, <1>8, <1>9

LEMMA SingleUpdateIsExact ==
    ASSUME InventoryAssumption, IInv, [Next]_vars, \A h \in Threads : UpToDate(h)
    PROVE  KeepsUnasked
<1> SUFFICES ASSUME NEW h \in Threads, pc[h] = "update", pc'[h] = "idle", NEW a \in Live
             PROVE  /\ asked[h][1] = None => kind'[a] = kind[a]
                    /\ asked[h][2] \in {None, "null"} => environment'[a] = environment[a]
    BY DEF KeepsUnasked
<1>1. TablesOK
    BY Parts DEF IInv
<1>2. UpdateWrite(h) \/ Abort(h)
    BY EndsItself DEF Handler, Ingest, IngestRefused, CreateAsset, AutoWorkspace, SaveScan,
                      FindAsset, InsertAsset, RereadAsset, ScoreAsset, Created, AllScored,
                      UpdateRead, CleanupRead, CleanupDelete, ReportScans, ReportRisks,
                      ReportInsert, Ready
<1>3. CASE Abort(h)
    BY <1>3 DEF Abort, tables
<1>4. CASE UpdateWrite(h)
    BY <1>1, <1>4 DEF UpdateWrite, UpToDate, TablesOK, Live
<1> QED
    BY <1>2, <1>3, <1>4

LEMMA SingleCleanupIsExact ==
    ASSUME InventoryAssumption, IInv, [Next]_vars, \A h \in Threads : UpToDate(h)
    PROVE  CleansUp
<1> SUFFICES ASSUME NEW h \in Threads, pc[h] = "delete", pc'[h] = "idle",
                    asset_status' # asset_status
             PROVE  AssetStaysSingle'
    BY DEF CleansUp
<1>1. AssetIds \subseteq Nat
    BY DEF InventoryAssumption
<1>2. CleanupDelete(h) \/ Abort(h)
    BY EndsItself DEF Handler, Ingest, IngestRefused, CreateAsset, AutoWorkspace, SaveScan,
                      FindAsset, InsertAsset, RereadAsset, ScoreAsset, Created, AllScored,
                      UpdateRead, CleanupRead, UpdateWrite, ReportScans, ReportRisks,
                      ReportInsert, Ready
<1>3. CleanupDelete(h)
    BY <1>2 DEF Abort, tables
<1>4. \A a \in Live' : a \in Live /\ a \notin ids[h] /\ kind'[a] = kind[a]
    BY <1>3 DEF CleanupDelete, Live
<1>5. \A a, b \in Live : kind[a] = kind[b] /\ a < b => a \in ids[h]
    BY DEF UpToDate
<1>6. \A a, b \in Live : a < b \/ b < a \/ a = b
  <2>1. Live \subseteq Nat
      BY <1>1 DEF Live
  <2>2. \A a, b \in Nat : a < b \/ b < a \/ a = b
      OBVIOUS
  <2> QED
      BY <2>1, <2>2
<1> QED
    BY <1>4, <1>5, <1>6 DEF AssetStaysSingle

(* create_workspace_report, update_asset and cleanup_duplicate_assets, as   *)
(* long as no request has overlapped another: a report has the highest      *)
(* score of each asset, an update keeps what it does not name, and a        *)
(* clean-up leaves no duplicate.                                            *)
THEOREM SingleRequestsStayExact ==
    ASSUME InventoryAssumption PROVE Spec => SingleRequestsAreExact
<1>1. IInv /\ Alone /\ Finite /\ [Next]_vars
      => [ "overlap" \notin past' => ReportsExactly /\ KeepsUnasked /\ CleansUp ]_vars
  <2> SUFFICES ASSUME IInv, Alone, Finite, [Next]_vars, "overlap" \notin past'
               PROVE  ReportsExactly /\ KeepsUnasked /\ CleansUp
      OBVIOUS
  <2>1. \A h \in Threads : UpToDate(h)
      BY PastGrows DEF Alone
  <2> QED
      BY <2>1, SingleReportIsExact, SingleUpdateIsExact, SingleCleanupIsExact
<1> QED
    BY <1>1, Inductive, AloneInv, FiniteInv, PTL DEF Spec, SingleRequestsAreExact

-----------------------------------------------------------------------------
(* The contract                                                             *)

(* A step that leaves op, scan_of and outcome alone is no step of a request. *)
LEMMA NoStep ==
    ASSUME UNCHANGED <<op, scan_of, outcome>>
    PROVE  UNCHANGED Request
BY DEF Request

(* A step that changes those of h only moves the request of h.              *)
LEMMA MovesOne ==
    ASSUME NEW h \in Threads, NEW x, Request'[h] = x,
           \A g \in Threads \ {h} : /\ op'[g] = op[g] /\ scan_of'[g] = scan_of[g]
                                    /\ outcome'[g] = outcome[g]
    PROVE  Request' = [Request EXCEPT ![h] = x]
BY DEF Request

(* A request that is none of an ingest ends where it began.                 *)
LEMMA NotAnIngest ==
    ASSUME TypeOK, NEW h \in Threads, op[h] \notin Ingests, op'[h] \notin Ingests,
           UNCHANGED outcome,
           \A g \in Threads \ {h} : op'[g] = op[g] /\ scan_of'[g] = scan_of[g]
    PROVE  UNCHANGED Request
BY DEF Request

LEMMA StepRefines ==
    ASSUME InventoryAssumption
    PROVE  IInv /\ [Next]_vars => [Contract!Next]_Request
<1> SUFFICES ASSUME IInv, [Next]_vars PROVE [Contract!Next]_Request
    OBVIOUS
<1> USE DEF Contract!Next, Contract!Send, Contract!Refuse, Contract!Save,
            Contract!Acknowledge, Contract!Break, Contract!Becomes
<1>1. TablesOK /\ LocalsOK /\ HistoryOK /\ TypeOK
    BY Parts DEF IInv
<1>2. CASE UNCHANGED vars
    BY <1>2, NoStep DEF vars, args, history, answers
<1>3. CASE CreateWorkspace \/ DeleteAsset
    BY <1>3, NoStep DEF CreateWorkspace, DeleteAsset, args, history, answers
<1>4. ASSUME NEW h \in Threads, Handler(h) PROVE [Contract!Next]_Request
  <2>1. Locals(h)
      BY DEF IInv
  <2>2. CASE \E o \in Ingests, w \in workspaces \union {None}, p \in Payloads : Ingest(h, o, w, p)
    <3>1. /\ pc[h] = "idle" /\ op'[h] \in Ingests /\ UNCHANGED <<scan_of, outcome>>
          /\ \A g \in Threads \ {h} : op'[g] = op[g]
        BY <1>1, <2>2 DEF Ingest, Open, Ready, LocalsOK, history, answers
    <3>2. Request'[h] = "sent" /\ Request[h] # "saved"
        BY <1>1, <2>1, <3>1 DEF Locals, Request, HistoryOK, Ingests
    <3> QED
        BY <3>1, <3>2, MovesOne
  <2>3. CASE IngestRefused(h)
    <3>1. pc[h] = "idle" /\ UNCHANGED <<op, scan_of>>
          /\ outcome'[h] = "rejected" /\ \A g \in Threads \ {h} : outcome'[g] = outcome[g]
        BY <1>1, <2>3 DEF IngestRefused, Ready, HistoryOK, args
    <3>2. Request'[h] = "rejected" /\ Request[h] # "saved"
        BY <1>1, <2>1, <3>1 DEF Locals, Request, HistoryOK, Ingests
    <3> QED
        BY <3>1, <3>2, MovesOne
  <2>4. CASE SaveScan(h)
    <3>1. /\ pc[h] = "scan" /\ UNCHANGED <<op, outcome>>
          /\ scan_of'[h] \in ScanIds /\ \A g \in Threads \ {h} : scan_of'[g] = scan_of[g]
        BY <1>1, <2>4 DEF SaveScan, LocalsOK, history, answers
    <3>2. Request[h] = "sent" /\ Request'[h] = "saved"
        BY <2>1, <3>1 DEF Locals, Request, InventoryAssumption
    <3> QED
        BY <3>1, <3>2, MovesOne
  <2>5. CASE Answer(h) /\ UNCHANGED outcome /\ op[h] \notin Ingests
    <3>1. op'[h] \notin Ingests /\ \A g \in Threads \ {h} : op'[g] = op[g] /\ scan_of'[g] = scan_of[g]
        BY <1>1, <2>5 DEF Answer, LocalsOK, Ingests
    <3> QED
        BY <1>1, <2>5, <3>1, NotAnIngest
  <2>6. CASE Created(h)
    <3>1. CASE op[h] \in Ingests
      <4>1. /\ op'[h] = "none" /\ outcome'[h] = "created" /\ scan_of[h] # None
            /\ \A g \in Threads \ {h} : /\ op'[g] = op[g] /\ scan_of'[g] = scan_of[g]
                                         /\ outcome'[g] = outcome[g]
          BY <1>1, <2>1, <2>6, <3>1 DEF Created, AllScored, Answer, LocalsOK, HistoryOK, Locals
      <4>2. Request[h] = "saved" /\ Request'[h] = "created"
          BY <3>1, <4>1 DEF Request, Ingests
      <4> QED
          BY <4>1, <4>2, MovesOne
    <3>2. CASE op[h] \notin Ingests
        BY <2>5, <2>6, <3>2 DEF Created, history, answers
    <3> QED
        BY <3>1, <3>2
  <2>7. CASE Abort(h)
    <3>1. CASE op[h] \in Ingests
      <4>1. /\ op'[h] = "none"
            /\ outcome'[h] = IF scan_of[h] = None THEN "rejected" ELSE "broken"
            /\ \A g \in Threads \ {h} : /\ op'[g] = op[g] /\ scan_of'[g] = scan_of[g]
                                         /\ outcome'[g] = outcome[g]
          BY <1>1, <2>7, <3>1 DEF Abort, Answer, LocalsOK, HistoryOK
      <4>2. Request[h] = (IF scan_of[h] = None THEN "sent" ELSE "saved")
            /\ Request'[h] = outcome'[h]
          BY <3>1, <4>1 DEF Request, Ingests
      <4> QED
          BY <4>1, <4>2, MovesOne
    <3>2. CASE op[h] \notin Ingests
        BY <2>5, <2>7, <3>2 DEF Abort
    <3> QED
        BY <3>1, <3>2
  <2>8. CASE \/ UpdateWrite(h) \/ CleanupDelete(h) \/ ReportInsert(h)
    <3>1. op[h] \notin Ingests
        BY <2>1, <2>8 DEF UpdateWrite, CleanupDelete, ReportInsert, Locals, Ingests
    <3> QED
        BY <2>5, <2>8, <3>1 DEF UpdateWrite, CleanupDelete, ReportInsert, history, answers
  <2>9. CASE \/ \E w \in workspaces \union {None}, k \in Kinds : CreateAsset(h, w, k)
             \/ UpdateRead(h) \/ CleanupRead(h) \/ ReportScans(h)
    <3>1. /\ pc[h] = "idle" /\ op'[h] \notin Ingests /\ UNCHANGED <<scan_of, outcome>>
          /\ \A g \in Threads \ {h} : op'[g] = op[g]
        BY <1>1, <2>9 DEF CreateAsset, Open, UpdateRead, CleanupRead, ReportScans, Ready, LocalsOK,
                          Ingests, history, answers
    <3>2. op[h] \notin Ingests
        BY <2>1, <3>1 DEF Locals, Ingests
    <3> QED
        BY <1>1, <3>1, <3>2, NotAnIngest
  <2>10. CASE \/ AutoWorkspace(h) \/ FindAsset(h) \/ InsertAsset(h) \/ RereadAsset(h)
              \/ ScoreAsset(h) \/ ReportRisks(h)
      BY <2>10, NoStep DEF AutoWorkspace, FindAsset, InsertAsset, RereadAsset, ScoreAsset,
                           ReportRisks, history, answers
  <2> QED
      BY <1>4, <2>2, <2>3, <2>4, <2>6, <2>7, <2>8, <2>9, <2>10 DEF Handler
<1> QED
    BY <1>2, <1>3, <1>4 DEF Next

(* POST /scans/ingest implements the contract that its callers rely on: a   *)
(* refused request saved no scan, one scan is saved before the answer, and  *)
(* no failure after it takes the scan back.                                 *)
THEOREM IngestKeepsItsPromise == ASSUME InventoryAssumption PROVE Spec => KeepsContract
<1>1. Init => Contract!Init
    BY DEF Init, Contract!Init, Request, Ingests
<1> QED
    BY <1>1, Inductive, StepRefines, PTL DEF Spec, KeepsContract, Contract!Spec

=============================================================================
