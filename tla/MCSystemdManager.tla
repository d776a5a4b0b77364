-------------------------- MODULE MCSystemdManager --------------------------
(***************************************************************************)
(* SystemdManager for TLC.                                                 *)
(***************************************************************************)
EXTENDS SystemdManager
=============================================================================
