---------------------------- MODULE MCSharedFile ----------------------------
(***************************************************************************)
(* The instances of SharedFile that TLC checks.                            *)
(***************************************************************************)
EXTENDS SharedFile

CONSTANTS s1, s2, c1
=============================================================================
