---------------------------- MODULE MC_Inventory ----------------------------
(***************************************************************************)
(* Small instances of the inventory for TLC: one part moves, which the     *)
(* initial state chooses.  The inventory is taken five times, each time    *)
(* with the requests, the bounds and the overlapping that its question     *)
(* needs.                                                                  *)
(***************************************************************************)
EXTENDS Inventory, TLC

CONSTANTS h1, h2

VARIABLE part

(* One asset, one more of the same name but another type.                   *)
OneKind  == {<<"a", "server">>}
TwoKinds == {<<"a", "server">>, <<"a", "endpoint">>}

Edits == INSTANCE Inventory WITH
    Kinds <- OneKind, Scores <- {1}, MaxPayload <- 1,
    Operations <- {"create", "update", "delete", "ingest"}

Overlapping == INSTANCE Inventory WITH
    Kinds <- OneKind, Environments <- {"unknown"}, Scores <- {1},
    Operations <- {"ingest", "cleanup"}

OverlappingReports == INSTANCE Inventory WITH
    Kinds <- OneKind, Environments <- {"unknown"}, MaxPayload <- 1,
    Operations <- {"ingest", "report"}

SingleReports == INSTANCE Inventory WITH
    Threads <- {h1}, Environments <- {"unknown"}, MaxPayload <- 1, MaxOpen <- 1,
    Operations <- {"ingest", "ingest_only", "workspace", "report"}

SingleEdits == INSTANCE Inventory WITH
    Threads <- {h1}, Scores <- {1}, MaxPayload <- 1, MaxOpen <- 1,
    Operations <- {"create", "update", "delete", "cleanup"}

(* The rows a part may fill.                                                *)
Rows(w, s, a) == /\ \A i \in workspaces : i <= w
                 /\ \A i \in ScanIds : scan_ws[i] # None => i <= s
                 /\ \A i \in AssetIds : asset_status[i] # "absent" => i <= a

ASSUME InventoryAssumption

-----------------------------------------------------------------------------
InventoryInit ==
    /\ part \in {"edits", "overlapping", "overlapping_reports", "single_reports",
                 "single_edits"}
    /\ Init

InventoryNext ==
    /\ UNCHANGED part
    /\ \/ part = "edits" /\ Edits!Next /\ Rows(1, 1, 2)'
       \/ part = "overlapping" /\ Overlapping!Next /\ Rows(2, 2, 2)'
       \/ part = "overlapping_reports" /\ OverlappingReports!Next /\ Rows(1, 2, 1)'
       \/ part = "single_reports" /\ SingleReports!Next /\ Rows(2, 2, 2)'
       \/ part = "single_edits" /\ SingleEdits!Next /\ Rows(1, 0, 4)'

InventorySpec == InventoryInit /\ [][InventoryNext]_<<part, vars>>

Symmetry == Permutations(Threads)
=============================================================================
