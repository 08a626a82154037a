----------------------------- MODULE Inventory ------------------------------
(***************************************************************************)
(* inventory-service: workspaces, scans, assets, risk results and reports, *)
(* handled by concurrent request threads over one database.                *)
(*                                                                         *)
(* Every repository method opens a connection of its own and commits, so a *)
(* request is a sequence of transactions with no undo: one action each.    *)
(* Any of them may fail (Abort), and what was committed before it stays.   *)
(*                                                                         *)
(* Ids are uuids in the code.  Here they are numbers given out in the order *)
(* of the INSERTs, so that "newest" (created_at) is "largest id".           *)
(***************************************************************************)
EXTENDS Integers, Sequences, FiniteSets

CONSTANTS Threads,       \* request threads
          Kinds,         \* pairs <<name, asset_type>>: what tells assets apart
          Environments,  \* values of Asset.environment; may hold "null"
          Scores,        \* normalized_score_100 values of the risk-engine
          WorkspaceIds,  \* bounds on the rows of each table
          ScanIds,
          AssetIds,
          MaxPayload,    \* bound: assets in one ingest payload
          MaxOpen,       \* bound: requests handled at the same time
          Operations,    \* bound: the requests clients send
          None           \* a workspace, scan or asset that is not given

InventoryAssumption ==
    /\ WorkspaceIds \subseteq Nat /\ ScanIds \subseteq Nat /\ AssetIds \subseteq Nat
    /\ None \notin Nat \union Kinds \union Environments \union {"null"}
    /\ Scores \subseteq Int /\ MaxPayload \in Nat
    /\ \A k \in Kinds : k = <<k[1], k[2]>>
    /\ "unknown" \in Environments

VARIABLES workspaces,    \* ids of the workspace rows
          scan_ws,       \* scan_ws[s]: workspace_id of scan s; None: no row
          asset_status,  \* asset_status[a]: "absent", "live" or "deleted"
          kind,          \* kind[a]: name and asset_type
          environment,   \* environment[a]
          asset_ws,      \* asset_ws[a]: workspace_id
          risks,         \* rows <<scan, asset name, score>>
          reports,       \* rows <<workspace, {<<asset name, score>>}>>
          op,            \* op[h]: the request thread h handles
          pc,            \* pc[h]: the transaction it does next
          ws,            \* ws[h]: workspace_id of the request, once resolved
          scan_of,       \* scan_of[h]: scan_id, once created
          todo,          \* todo[h]: payload assets not looked up yet
          created,       \* created[h]: names of the assets of the answer
          to_score,      \* to_score[h]: <<id, name>> of those not scored yet
          row,           \* row[h]: the asset it inserted or read
          asked,         \* asked[h]: <<kind, environment>> of a PUT; None: unset
          merged,        \* merged[h]: <<kind, environment>> update_asset writes
          ids,           \* ids[h]: the duplicates, or scans, still to go through
          seen,          \* seen[h]: <<asset name, score>> read for a report
          outcome,       \* outcome[h]: the answer to its last ingest
          answered,      \* history: <<scan, names of its answer>> of scored ingests
          scored,        \* history: <<asset, scan>> of each risk result
          past           \* history: "overlap" and "edit", once they happened

tables  == <<workspaces, scan_ws, asset_status, kind, environment, asset_ws, risks, reports>>
args    == <<ws, scan_of, todo, created, to_score, row, asked, merged, ids, seen>>
answers == <<outcome, answered, scored>>
history == <<answers, past>>
vars    == <<tables, op, pc, args, history>>

Names == {k[1] : k \in Kinds}

(* "ingest_only" is POST /scans/ingest?auto_score=false.                    *)
Ingests == {"ingest", "ingest_only"}
Op      == Ingests \union {"create", "update", "cleanup", "report"}

HandlerPC == {"idle", "workspace", "scan", "find", "own_workspace", "insert", "reread",
              "score", "answer", "update", "delete", "read", "report"}

AssetsOf(w) == {a \in AssetIds : asset_status[a] = "live" /\ asset_ws[a] = w}
Live        == {a \in AssetIds : asset_status[a] = "live"}
(* list_asset_risk_history joins by name.                                   *)
HistoryOf(a)  == {r \in risks : r[2] = kind[a][1]}
ScansOf(w)  == {s \in ScanIds : scan_ws[s] = w}

TypeOK == /\ workspaces \subseteq WorkspaceIds
          /\ scan_ws \in [ScanIds -> WorkspaceIds \union {None}]
          /\ asset_status \in [AssetIds -> {"absent", "live", "deleted"}]
          /\ kind \in [AssetIds -> Kinds \union {None}]
          /\ environment \in [AssetIds -> Environments \union {None}]
          /\ asset_ws \in [AssetIds -> WorkspaceIds \union {None}]
          /\ risks \subseteq ScanIds \X Names \X Scores
          /\ reports \subseteq WorkspaceIds \X SUBSET (Names \X Scores)
          /\ op \in [Threads -> Op \union {"none"}]
          /\ pc \in [Threads -> HandlerPC]
          /\ ws \in [Threads -> WorkspaceIds \union {None}]
          /\ scan_of \in [Threads -> ScanIds \union {None}]
          /\ todo \in [Threads -> Seq(Kinds)]
          /\ created \in [Threads -> SUBSET Names]
          /\ to_score \in [Threads -> Seq(AssetIds \X Names)]
          /\ row \in [Threads -> AssetIds \union {None}]
          /\ asked \in [Threads -> (Kinds \union {None}) \X (Environments \union {None})]
          /\ merged \in [Threads -> (Kinds \union {None}) \X (Environments \union {None})]
          /\ ids \in [Threads -> SUBSET Nat]
          /\ seen \in [Threads -> SUBSET (Names \X Scores)]
          /\ outcome \in [Threads -> {"none", "created", "rejected", "broken"}]
          /\ answered \subseteq ScanIds \X SUBSET Names
          /\ scored \subseteq AssetIds \X ScanIds
          /\ past \subseteq {"overlap", "edit"}

Init == /\ workspaces = {} /\ risks = {} /\ reports = {} /\ answered = {} /\ scored = {}
        /\ past = {}
        /\ scan_ws = [s \in ScanIds |-> None]
        /\ asset_status = [a \in AssetIds |-> "absent"]
        /\ kind = [a \in AssetIds |-> None]
        /\ environment = [a \in AssetIds |-> None]
        /\ asset_ws = [a \in AssetIds |-> None]
        /\ op = [h \in Threads |-> "none"]
        /\ pc = [h \in Threads |-> "idle"]
        /\ ws = [h \in Threads |-> None]
        /\ scan_of = [h \in Threads |-> None]
        /\ todo = [h \in Threads |-> <<>>]
        /\ created = [h \in Threads |-> {}]
        /\ to_score = [h \in Threads |-> <<>>]
        /\ row = [h \in Threads |-> None]
        /\ asked = [h \in Threads |-> <<None, None>>]
        /\ merged = [h \in Threads |-> <<None, None>>]
        /\ ids = [h \in Threads |-> {}]
        /\ seen = [h \in Threads |-> {}]
        /\ outcome = [h \in Threads |-> "none"]

(* The next id: all smaller ones are taken.                                 *)
NextOf(i, I, Taken) == i \in I \ Taken /\ \A j \in I : j < i => j \in Taken

Ready(h, o) == /\ pc[h] = "idle"
               /\ o \in Operations
               /\ Cardinality({g \in Threads : pc[g] # "idle"}) < MaxOpen

Goto(h, l) == pc' = [pc EXCEPT ![h] = l]

(* A request begins: it overlaps those that are not answered yet.           *)
Open(h, o) == /\ op' = [op EXCEPT ![h] = o]
              /\ past' = IF \E g \in Threads : pc[g] # "idle" THEN past \union {"overlap"} ELSE past

(* The request is answered: the thread forgets its locals.                  *)
Answer(h) == /\ op' = [op EXCEPT ![h] = "none"]
             /\ Goto(h, "idle")
             /\ ws' = [ws EXCEPT ![h] = None]
             /\ scan_of' = [scan_of EXCEPT ![h] = None]
             /\ todo' = [todo EXCEPT ![h] = <<>>]
             /\ created' = [created EXCEPT ![h] = {}]
             /\ to_score' = [to_score EXCEPT ![h] = <<>>]
             /\ row' = [row EXCEPT ![h] = None]
             /\ asked' = [asked EXCEPT ![h] = <<None, None>>]
             /\ merged' = [merged EXCEPT ![h] = <<None, None>>]
             /\ ids' = [ids EXCEPT ![h] = {}]
             /\ seen' = [seen EXCEPT ![h] = {}]

-----------------------------------------------------------------------------
(* POST /scans/ingest (and /scans/ingest/windows, which maps its document   *)
(* first), POST /assets and POST /workspaces                                *)

Payloads == UNION {[1 .. n -> Kinds] : n \in 0 .. MaxPayload}

(* A workspace that is named exists (get_workspace), and stays.             *)
Ingest(h, o, w, p) ==
    /\ Ready(h, o) /\ o \in Ingests
    /\ w \in workspaces \union {None}
    /\ Open(h, o)
    /\ ws' = [ws EXCEPT ![h] = w]
    /\ todo' = [todo EXCEPT ![h] = p]
    /\ Goto(h, IF w = None THEN "workspace" ELSE "scan")
    /\ UNCHANGED <<tables, scan_of, created, to_score, row, asked, merged, ids, seen, answers>>

(* 404 for an unknown workspace_id, 422 for an invalid document.            *)
IngestRefused(h) ==
    /\ \E o \in Ingests : Ready(h, o)
    /\ outcome' = [outcome EXCEPT ![h] = "rejected"]
    /\ UNCHANGED <<tables, op, pc, args, answered, scored, past>>

CreateAsset(h, w, k) ==
    /\ Ready(h, "create")
    /\ w \in workspaces \union {None}
    /\ Open(h, "create")
    /\ ws' = [ws EXCEPT ![h] = w]
    /\ todo' = [todo EXCEPT ![h] = <<k>>]
    /\ Goto(h, "find")
    /\ UNCHANGED <<tables, scan_of, created, to_score, row, asked, merged, ids, seen, answers>>

(* create_workspace on its own.                                             *)
CreateWorkspace ==
    /\ "workspace" \in Operations
    /\ \E w \in WorkspaceIds : /\ NextOf(w, WorkspaceIds, workspaces)
                               /\ workspaces' = workspaces \union {w}
    /\ UNCHANGED <<scan_ws, asset_status, kind, environment, asset_ws, risks, reports,
                   op, pc, args, history>>

(* create_workspace inside create_scan, or inside create_asset once it is   *)
(* known that the asset is new.                                             *)
AutoWorkspace(h) ==
    /\ pc[h] \in {"workspace", "own_workspace"}
    /\ \E w \in WorkspaceIds : /\ NextOf(w, WorkspaceIds, workspaces)
                               /\ workspaces' = workspaces \union {w}
                               /\ ws' = [ws EXCEPT ![h] = w]
    /\ Goto(h, IF pc[h] = "workspace" THEN "scan" ELSE "insert")
    /\ UNCHANGED <<scan_ws, asset_status, kind, environment, asset_ws, risks, reports,
                   op, scan_of, todo, created, to_score, row, asked, merged, ids, seen, history>>

(* Where a request goes on when its list of payload assets is t.            *)
After(o, t) == IF t # <<>> THEN "find" ELSE IF o = "ingest" THEN "score" ELSE "answer"

(* create_scan.                                                             *)
SaveScan(h) ==
    /\ pc[h] = "scan"
    /\ \E s \in ScanIds :
          /\ NextOf(s, ScanIds, {t \in ScanIds : scan_ws[t] # None})
          /\ scan_ws' = [scan_ws EXCEPT ![s] = ws[h]]
          /\ scan_of' = [scan_of EXCEPT ![h] = s]
    /\ Goto(h, After(op[h], todo[h]))
    /\ UNCHANGED <<workspaces, asset_status, kind, environment, asset_ws, risks, reports,
                   op, ws, todo, created, to_score, row, asked, merged, ids, seen, history>>

(* One asset of the payload is settled: it goes into the answer.            *)
Settle(h, a) ==
    /\ created' = [created EXCEPT ![h] = @ \union {kind[a][1]}]
    /\ to_score' = [to_score EXCEPT ![h] = Append(@, <<a, kind[a][1]>>)]
    /\ todo' = [todo EXCEPT ![h] = Tail(@)]
    /\ Goto(h, After(op[h], Tail(todo[h])))

(* _find_existing_asset matches name and asset_type in every workspace.     *)
(* Faulty: only within the workspace of the request.                        *)
MatchesInWorkspace(h, a) == kind[a] = Head(todo[h]) /\ asset_ws[a] = ws[h]
Matches(h, a)            == kind[a] = Head(todo[h])

(* create_scan resolves the workspace of an ingest; POST /assets may leave  *)
(* it open.                                                                 *)
NeedsWorkspace(h) == ws[h] = None

FindAsset(h) ==
    /\ pc[h] = "find"
    /\ LET found == {a \in Live : Matches(h, a)}
       IN IF found # {}
          THEN \E a \in found : (\A b \in found : b <= a) /\ Settle(h, a)
          ELSE /\ Goto(h, IF NeedsWorkspace(h) THEN "own_workspace" ELSE "insert")
               /\ UNCHANGED <<todo, created, to_score>>
    /\ UNCHANGED <<tables, op, ws, scan_of, row, asked, merged, ids, seen, history>>

(* payload.environment or "unknown".                                        *)
OrUnknown(e) == IF e = "null" THEN "unknown" ELSE e

InsertAsset(h) ==
    /\ pc[h] = "insert"
    /\ \E a \in AssetIds, e \in Environments :
          /\ NextOf(a, AssetIds, {b \in AssetIds : asset_status[b] # "absent"})
          /\ asset_status' = [asset_status EXCEPT ![a] = "live"]
          /\ kind' = [kind EXCEPT ![a] = Head(todo[h])]
          /\ environment' = [environment EXCEPT ![a] = OrUnknown(e)]
          /\ asset_ws' = [asset_ws EXCEPT ![a] = ws[h]]
          /\ row' = [row EXCEPT ![h] = a]
    /\ Goto(h, "reread")
    /\ UNCHANGED <<workspaces, scan_ws, risks, reports, op, ws, scan_of, todo, created,
                   to_score, asked, merged, ids, seen, history>>

(* get_asset after the INSERT; `assert created is not None` fails when the  *)
(* row was deleted meanwhile, which is an Abort.                            *)
RereadAsset(h) ==
    /\ pc[h] = "reread"
    /\ row[h] \in Live
    /\ Settle(h, row[h])
    /\ UNCHANGED <<tables, op, ws, scan_of, row, asked, merged, ids, seen, history>>

(* risk_client.score and create_risk_result, for the next asset.            *)
ScoreAsset(h) ==
    /\ pc[h] = "score"
    /\ to_score[h] # <<>>
    /\ \E x \in Scores : risks' = risks \union {<<scan_of[h], Head(to_score[h])[2], x>>}
    /\ scored' = scored \union {<<Head(to_score[h])[1], scan_of[h]>>}
    /\ to_score' = [to_score EXCEPT ![h] = Tail(@)]
    /\ UNCHANGED <<workspaces, scan_ws, asset_status, kind, environment, asset_ws, reports,
                   op, pc, ws, scan_of, todo, created, row, asked, merged, ids, seen,
                   outcome, answered, past>>

(* 201.  Faulty: the answer does not wait for the scores, or for anything.  *)
AnyTime(h)   == pc[h] \in {"score", "answer"}
AtOnce(h)    == op[h] \in Ingests
AllScored(h) == pc[h] = "answer" \/ (pc[h] = "score" /\ to_score[h] = <<>>)

Created(h) ==
    /\ AllScored(h)
    /\ IF op[h] \in Ingests
       THEN /\ outcome' = [outcome EXCEPT ![h] = "created"]
            /\ answered' = IF op[h] = "ingest" THEN answered \union {<<scan_of[h], created[h]>>}
                                               ELSE answered
            /\ UNCHANGED <<scored, past>>
       ELSE UNCHANGED history
    /\ Answer(h)
    /\ UNCHANGED tables

(* A transaction fails, the risk-engine does not answer (raise_for_status), *)
(* the assertion fails, or the process dies: nothing is undone.             *)
Abort(h) ==
    /\ pc[h] # "idle"
    /\ outcome' = IF op[h] \in Ingests
                  THEN [outcome EXCEPT ![h] = IF scan_of[h] = None THEN "rejected" ELSE "broken"]
                  ELSE outcome
    /\ Answer(h)
    /\ UNCHANGED <<tables, answered, scored, past>>

-----------------------------------------------------------------------------
(* PUT and DELETE /assets/{id} *)

Orelse(x, y) == IF x = None THEN y ELSE x

(* get_asset and model_copy: None is a column the payload leaves unset.     *)
(* Faulty: the guard against an explicit null is missing.                   *)
MergeAsGiven(a, k, e) == <<Orelse(k, kind[a]), Orelse(e, environment[a])>>
Merge(a, k, e) ==
    <<Orelse(k, kind[a]),
      IF e \in {None, "null"} THEN OrUnknown(environment[a]) ELSE e>>

UpdateRead(h) ==
    /\ Ready(h, "update")
    /\ \E a \in Live, k \in Kinds \union {None}, e \in Environments \union {None} :
          /\ row' = [row EXCEPT ![h] = a]
          /\ asked' = [asked EXCEPT ![h] = <<k, e>>]
          /\ merged' = [merged EXCEPT ![h] = Merge(a, k, e)]
    /\ Open(h, "update")
    /\ Goto(h, "update")
    /\ UNCHANGED <<tables, ws, scan_of, todo, created, to_score, ids, seen, answers>>

(* UPDATE assets SET every column WHERE id = ?; no row: 404.                *)
UpdateWrite(h) ==
    /\ pc[h] = "update"
    /\ IF row[h] \in Live
       THEN /\ kind' = [kind EXCEPT ![row[h]] = merged[h][1]]
            /\ environment' = [environment EXCEPT ![row[h]] = merged[h][2]]
       ELSE UNCHANGED <<kind, environment>>
    /\ past' = IF kind' # kind THEN past \union {"edit"} ELSE past
    /\ Answer(h)
    /\ UNCHANGED <<workspaces, scan_ws, asset_status, asset_ws, risks, reports, answers>>

DeleteAsset ==
    /\ "delete" \in Operations
    /\ \E a \in Live : asset_status' = [asset_status EXCEPT ![a] = "deleted"]
    /\ past' = past \union {"edit"}
    /\ UNCHANGED <<workspaces, scan_ws, kind, environment, asset_ws, risks, reports,
                   op, pc, args, answers>>

-----------------------------------------------------------------------------
(* POST /admin/cleanup-assets *)

(* Of each name and type the newest is kept.  Faulty: none is.              *)
IsOther(a, b)  == a # b
IsOlder(a, b)  == a < b

(* The SELECT: committed changes of others show up in the DELETEs only.     *)
CleanupRead(h) ==
    /\ Ready(h, "cleanup")
    /\ ids' = [ids EXCEPT ![h] =
                  {a \in Live : \E b \in Live : kind[a] = kind[b] /\ IsOlder(a, b)}]
    /\ ids'[h] # {}
    /\ Open(h, "cleanup")
    /\ Goto(h, "delete")
    /\ UNCHANGED <<tables, ws, scan_of, todo, created, to_score, row, asked, merged, seen, answers>>

CleanupDelete(h) ==
    /\ pc[h] = "delete"
    /\ asset_status' = [a \in AssetIds |-> IF a \in ids[h] THEN "deleted" ELSE asset_status[a]]
    /\ Answer(h)
    /\ UNCHANGED <<workspaces, scan_ws, kind, environment, asset_ws, risks, reports, history>>

-----------------------------------------------------------------------------
(* POST /workspaces/{id}/reports *)

(* list_scans_by_workspace.                                                 *)
ReportScans(h) ==
    /\ Ready(h, "report")
    /\ \E w \in workspaces : /\ ws' = [ws EXCEPT ![h] = w]
                             /\ ids' = [ids EXCEPT ![h] = ScansOf(w)]
    /\ Open(h, "report")
    /\ Goto(h, "read")
    /\ UNCHANGED <<tables, scan_of, todo, created, to_score, row, asked, merged, seen, answers>>

(* list_risk_results of one scan after the other.                           *)
ReportRisks(h) ==
    /\ pc[h] = "read"
    /\ IF ids[h] = {} THEN Goto(h, "report") /\ UNCHANGED <<ids, seen>>
       ELSE \E s \in ids[h] :
               /\ \A t \in ids[h] : s <= t
               /\ seen' = [seen EXCEPT ![h] = @ \union {<<r[2], r[3]>> : r \in {q \in risks : q[1] = s}}]
               /\ ids' = [ids EXCEPT ![h] = @ \ {s}]
               /\ UNCHANGED pc
    /\ UNCHANGED <<tables, op, ws, scan_of, todo, created, to_score, row, asked, merged, history>>

(* best_risk_by_asset.                                                      *)
HighestOf(S)  == {r \in S : \A q \in S : q[1] = r[1] => q[2] <= r[2]}

ReportInsert(h) ==
    /\ pc[h] = "report"
    /\ reports' = reports \union {<<ws[h], HighestOf(seen[h])>>}
    /\ Answer(h)
    /\ UNCHANGED <<workspaces, scan_ws, asset_status, kind, environment, asset_ws, risks, history>>

-----------------------------------------------------------------------------
(* The specification *)

Handler(h) == \/ \E o \in Ingests, w \in workspaces \union {None}, p \in Payloads : Ingest(h, o, w, p)
              \/ IngestRefused(h)
              \/ \E w \in workspaces \union {None}, k \in Kinds : CreateAsset(h, w, k)
              \/ AutoWorkspace(h)
              \/ SaveScan(h)
              \/ FindAsset(h)
              \/ InsertAsset(h)
              \/ RereadAsset(h)
              \/ ScoreAsset(h)
              \/ Created(h)
              \/ Abort(h)
              \/ UpdateRead(h)
              \/ UpdateWrite(h)
              \/ CleanupRead(h)
              \/ CleanupDelete(h)
              \/ ReportScans(h)
              \/ ReportRisks(h)
              \/ ReportInsert(h)

Next == CreateWorkspace \/ DeleteAsset \/ \E h \in Threads : Handler(h)

Spec == Init /\ [][Next]_vars

-----------------------------------------------------------------------------
(* Whatever requests overlap and fail *)

(* inventory-service/README.md:14,34: every scan and every asset is in some *)
(* workspace, and a report belongs to one, although the workspace row is    *)
(* committed on its own.                                                    *)
EverythingHasAWorkspace ==
    /\ \A s \in ScanIds : scan_ws[s] # None => scan_ws[s] \in workspaces
    /\ \A a \in AssetIds : asset_status[a] # "absent" => asset_ws[a] \in workspaces
    /\ \A r \in reports : r[1] \in workspaces

(* _persist_scan: a 201 means that each asset it names was scored in this   *)
(* very scan, however the other requests and the failures fell.             *)
AnsweredAssetsAreScored ==
    \A b \in answered : \A n \in b[2] : \E x \in Scores : <<b[1], n, x>> \in risks

(* update_asset: "every persisted asset always has a non-null environment". *)
EnvironmentIsKnown ==
    \A a \in AssetIds : environment[a] # "null"

(* create_workspace_report: what a report says of an asset is a score some  *)
(* scan of its workspace really got, and it says one thing of each.         *)
FoundIn(w, b) == \E s \in ScansOf(w) : <<s, b[1], b[2]>> \in risks

ReportsAreReal ==
    \A r \in reports : \A b \in r[2] : /\ FoundIn(r[1], b)
                                       /\ \A c \in r[2] : c[1] = b[1] => c = b

(* Inventory: what an ingest answered is scored in its scan, and what a     *)
(* report says of an asset, some scan of its workspace has found.           *)
AnswersAreTrue == AnsweredAssetsAreScored /\ ReportsAreReal

(* What the locals of a handler say, whatever ran since they were read.     *)
Filling == {"find", "own_workspace", "insert", "reread"}

Locals(h) ==
    /\ ws[h] \in workspaces \union {None}
    /\ pc[h] = "idle" => /\ op[h] = "none" /\ scan_of[h] = None
                         /\ created[h] = {} /\ to_score[h] = <<>>
    /\ pc[h] \in {"workspace", "scan"} => /\ op[h] \in Ingests /\ scan_of[h] = None
                                          /\ created[h] = {}
    /\ pc[h] \in {"scan", "insert", "read", "report"} => ws[h] # None
    /\ pc[h] \in Filling => todo[h] # <<>> /\ op[h] \in Ingests \union {"create"}
    /\ pc[h] \in Filling \union {"score", "answer"} /\ op[h] \in Ingests => scan_of[h] # None
    /\ pc[h] = "score" => op[h] = "ingest"
    /\ pc[h] = "answer" => op[h] \in {"ingest_only", "create"}
    /\ pc[h] = "update" => /\ op[h] = "update"
                           /\ merged[h] \in Kinds \X (Environments \ {"null"})
    /\ pc[h] = "delete" => /\ op[h] = "cleanup"
                           /\ \A a \in ids[h] : a \in AssetIds /\ asset_status[a] # "absent"
    /\ pc[h] \in {"read", "report"} => op[h] = "report"

(* The names that an ingest is going to answer are scored or queued.        *)
Pending(h) ==
    op[h] = "ingest" => \A n \in created[h] :
        \/ \E i \in DOMAIN to_score[h] : to_score[h][i][2] = n
        \/ \E x \in Scores : <<scan_of[h], n, x>> \in risks

RowsAreWhole ==
    \A a \in AssetIds : asset_status[a] # "absent" => /\ kind[a] \in Kinds
                                                      /\ environment[a] \in Environments

(* The inductive invariant.                                                 *)
IInv == /\ TypeOK
        /\ EverythingHasAWorkspace /\ RowsAreWhole /\ EnvironmentIsKnown
        /\ AnsweredAssetsAreScored
        /\ \A h \in Threads : Locals(h) /\ Pending(h)

(* The handling of each ingest keeps the promise the callers rely on.       *)
Request == [h \in Threads |-> IF op[h] \notin Ingests THEN outcome[h]
                              ELSE IF scan_of[h] = None THEN "sent" ELSE "saved"]

Contract == INSTANCE IngestContract WITH Requests <- Threads, request <- Request

KeepsContract == Contract!Spec

-----------------------------------------------------------------------------
(* While nobody renames or deletes an asset *)

Stored(a) == a \in AssetIds /\ asset_status[a] # "absent"

(* Overlapping clean-ups and ingests never delete the last asset of a name  *)
(* and type.                                                                *)
OneIsKept ==
    \A a \in AssetIds : asset_status[a] = "deleted" => \E b \in Live : kind[b] = kind[a]

(* inventory-service/README.md:123: "the asset's risk trend across all      *)
(* persisted scans": whichever of two duplicates a scan was scored for, and *)
(* whichever a clean-up deletes, the history of those that stay has it.     *)
HistoryIsWhole ==
    \A x \in scored : \A a \in Live :
        kind[a] = kind[x[1]] => \E r \in HistoryOf(a) : r[1] = x[2]

(* Inventory: overlapping clean-ups never delete the last asset of a name   *)
(* and type, and lose no part of the history of those that stay.            *)
CleanupKeepsHistory == "edit" \notin past => OneIsKept /\ HistoryIsWhole

(* The newest of a name and type is live, and no clean-up has chosen it.    *)
IsKept(b) == /\ b \in Live
             /\ \A c \in AssetIds : Stored(c) /\ kind[c] = kind[b] => c <= b
             /\ \A h \in Threads : pc[h] = "delete" => b \notin ids[h]

(* A name that waits for its score is that of its asset, and a score is     *)
(* filed under it.                                                          *)
IsNamed(x)   == Stored(x[1]) /\ x[2] = kind[x[1]][1]
IsScored(x)  == Stored(x[1]) /\ \E r \in risks : r[1] = x[2] /\ r[2] = kind[x[1]][1]

Unedited ==
    /\ \A a, b \in AssetIds : a < b /\ Stored(b) => Stored(a)
    /\ "edit" \notin past =>
          /\ \A a \in AssetIds : Stored(a) => \E b \in AssetIds : kind[b] = kind[a] /\ IsKept(b)
          /\ \A h \in Threads : \A i \in DOMAIN to_score[h] : IsNamed(to_score[h][i])
          /\ \A x \in scored : IsScored(x)

-----------------------------------------------------------------------------
(* While requests do not overlap *)

(* inventory-service/README.md:129: "the asset stays single".               *)
AssetStaysSingle ==
    \A a, b \in Live : kind[a] = kind[b] => a = b

(* update_asset with exclude_unset: a column the payload leaves unset (or   *)
(* an environment it sets to null) is what it was.                          *)
KeepsUnasked ==
    \A h \in Threads : pc[h] = "update" /\ pc'[h] = "idle" =>
        \A a \in Live : /\ asked[h][1] = None => kind'[a] = kind[a]
                        /\ asked[h][2] \in {None, "null"} => environment'[a] = environment[a]

(* cleanup_duplicate_assets leaves one asset per name and type.             *)
CleansUp ==
    \A h \in Threads : pc[h] = "delete" /\ pc'[h] = "idle" /\ asset_status' # asset_status
        => AssetStaysSingle'

(* A report names every asset with a score in its workspace, and the score  *)
(* is the highest of all scans so far.                                      *)
ReportsExactly ==
    \A r \in reports' \ reports : \A q \in risks :
        q[1] \in ScansOf(r[1]) => \E b \in r[2] : b[1] = q[2] /\ b[2] >= q[3]

(* Inventory: one request at a time, a report has the highest score of each *)
(* asset, an update keeps what it does not name, and a clean-up leaves no   *)
(* duplicate.                                                               *)
SingleRequestsAreExact ==
    [][ "overlap" \notin past' => ReportsExactly /\ KeepsUnasked /\ CleansUp ]_vars

(* What a handler has read is then still what the tables say.               *)
UpToDate(h) ==
    /\ \A g \in Threads : pc[h] # "idle" /\ pc[g] # "idle" => g = h
    /\ pc[h] = "update" /\ row[h] \in Live =>
          /\ asked[h][1] = None => merged[h][1] = kind[row[h]]
          /\ asked[h][2] \in {None, "null"} => merged[h][2] = environment[row[h]]
    /\ pc[h] = "delete" => \A a, b \in Live : kind[a] = kind[b] /\ a < b => a \in ids[h]
    /\ pc[h] \in {"read", "report"} =>
          \A q \in risks : \/ q[1] \notin ScansOf(ws[h])
                           \/ pc[h] = "read" /\ q[1] \in ids[h]
                           \/ <<q[2], q[3]>> \in seen[h]
    /\ pc[h] \in {"own_workspace", "insert"} /\ "edit" \notin past =>
          \A a \in Live : kind[a] # Head(todo[h])

Alone ==
    "overlap" \notin past => /\ \A h \in Threads : UpToDate(h)
                             /\ "edit" \notin past => AssetStaysSingle

-----------------------------------------------------------------------------
(* What a handler has read for a report is real, whatever was added since.  *)
Reading(h) ==
    IF pc[h] \in {"read", "report"}
    THEN /\ \A b \in seen[h] : FoundIn(ws[h], b)
         /\ pc[h] = "read" => ids[h] \subseteq ScansOf(ws[h])
    ELSE seen[h] = {}

Reported == /\ ReportsAreReal
            /\ \A h \in Threads : Reading(h)

(* Inventory: scans, assets and reports are in workspaces that are there,   *)
(* no asset has the environment null, and what a handler remembers is true  *)
(* of the tables.  As long as nobody renames or deletes an asset, the       *)
(* newest of a name and type survives every clean-up; as long as requests   *)
(* do not overlap, there is no other.                                       *)
StoredIsConsistent == IInv /\ Reported /\ Unedited /\ Alone
=============================================================================
