---------------------------- MODULE MCTaskStats -----------------------------
(***************************************************************************)
(* TaskStats for TLC, and the scan of every file of up to five lines.      *)
(***************************************************************************)
EXTENDS TaskStats

(* What getCgroupV2Stats measures is what memory.stat holds, for any file  *)
(* of up to five lines (scanCgroupKeyValue).                               *)
ASSUME ScanIsComplete == MeasuredAsHeld(5)
=============================================================================
