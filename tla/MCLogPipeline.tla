--------------------------- MODULE MCLogPipeline ----------------------------
(***************************************************************************)
(* LogPipeline for TLC.                                                    *)
(***************************************************************************)
EXTENDS LogPipeline
=============================================================================
