----------------------------- MODULE MCUnitJobs -----------------------------
(***************************************************************************)
(* UnitJobs for TLC.                                                       *)
(***************************************************************************)
EXTENDS UnitJobs
=============================================================================
