---------------------------- MODULE MC_ScanJobs -----------------------------
(* Small instances of ScanJobs for TLC. *)
EXTENDS ScanJobs, TLC

(* Workers are interchangeable; so are jobs, which only their created_at    *)
(* tells apart.                                                             *)
Symmetry == Permutations(Jobs) \union Permutations(Workers)
=============================================================================
