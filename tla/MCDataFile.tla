----------------------------- MODULE MCDataFile -----------------------------
(* The instance of DataFile that TLC checks: two records are enough to tell *)
(* what was written from what was there before.                             *)
EXTENDS DataFile

CONSTANTS r1, r2
=============================================================================
