--------------------------- MODULE MCTaskHandler ----------------------------
(***************************************************************************)
(* TaskHandler for TLC: a clean exit, a failure and a kill, and a unit     *)
(* that may be restarted out of band while it is being watched.            *)
(***************************************************************************)
EXTENDS TaskHandler

MCStatuses == {[Code |-> CLDExited, Status |-> 0],
               [Code |-> CLDExited, Status |-> 3],
               [Code |-> CLDKilled, Status |-> 9]}
=============================================================================
