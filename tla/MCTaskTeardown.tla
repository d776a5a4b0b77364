--------------------------- MODULE MCTaskTeardown ---------------------------
(***************************************************************************)
(* TaskTeardown for TLC, with one way to exit and one to be killed.        *)
(***************************************************************************)
EXTENDS TaskTeardown

MCStatuses == {[Code |-> CLDExited, Status |-> 0],
               [Code |-> CLDKilled, Status |-> 9]}
MCOneStatus == {[Code |-> CLDExited, Status |-> 0]}
=============================================================================
