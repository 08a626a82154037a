---------------------------- MODULE MC_Workflow -----------------------------
(* Small instances of Workflow for TLC. *)
EXTENDS Workflow, TLC

(* Threads, people and unused task ids are interchangeable.                 *)
Symmetry == Permutations(Threads) \union Permutations(Tasks) \union Permutations(People)
=============================================================================
