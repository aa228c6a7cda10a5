---------------------------- MODULE MCSheetSyncRun ----------------------------
(* Instances of SheetSyncRun for TLC. *)
EXTENDS SheetSyncRun, TLC

CONSTANTS i1, i2, w1, w2, r1, r2

RunSymmetry == Permutations(Runs)
Symmetry    == Permutations(Runs) \union Permutations(Rows) \union Permutations(Isins)
=============================================================================
