--------------------------- MODULE MCDriverConfig ---------------------------
(***************************************************************************)
(* DriverConfig for TLC.                                                   *)
(***************************************************************************)
EXTENDS DriverConfig
=============================================================================
