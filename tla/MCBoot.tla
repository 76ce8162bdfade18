------------------------------- MODULE MCBoot -------------------------------
(***************************************************************************)
(* The instances of Boot that TLC checks.                                  *)
(***************************************************************************)
EXTENDS Boot
=============================================================================
