----------------------------- MODULE UnitStates -----------------------------
(***************************************************************************)
(* The vocabulary the driver shares with systemd and with Nomad: a unit's  *)
(* ActiveState, a task's state, how a service's main process last exited,  *)
(* and the exit result a task is reported with.  Everything here is a pure *)
(* function of pkg/systemd/unit.go; the error texts of an exit result are  *)
(* abstracted to whether there is one.                                     *)
(***************************************************************************)
EXTENDS Integers

CONSTANT NoResult       \* Go's nil *drivers.ExitResult

(* "other" stands for every ActiveState the package does not know about.   *)
UnitState == {"activating", "deactivating", "active", "inactive", "failed",
              "reloading", "maintenance", "other"}

TaskState == {"Unknown", "Running", "Exited"}

ExitResult == [ExitCode : Int, Signal : Int, Err : BOOLEAN]

ASSUME NoResultAssumption == NoResult \notin ExitResult

IsFailed(s)   == s = "failed"
IsTerminal(s) == s \in {"inactive", "failed"}

ToTaskState(s) ==
    CASE s = "active"                 -> "Running"
      [] s \in {"failed", "inactive"} -> "Exited"
      [] OTHER                        -> "Unknown"

(* The waitid si_codes that say a process is gone.                         *)
CLDExited == 1
CLDKilled == 2
CLDDumped == 3

ExitStatus == [Code : Int, Status : Int]

(* ExitStatus's zero value: the main process has not exited.               *)
NotExited == [Code |-> 0, Status |-> 0]

ExitResultFromStatus(st) ==
    CASE st.Code = CLDExited ->
            [ExitCode |-> st.Status, Signal |-> 0, Err |-> st.Status # 0]
      [] st.Code \in {CLDKilled, CLDDumped} ->
            [ExitCode |-> -1, Signal |-> st.Status, Err |-> TRUE]
      [] OTHER -> NoResult

(* What is reported of a unit that stopped in ActiveState s when systemd   *)
(* does not know how its main process ended.                               *)
FallbackResult(s) ==
    IF IsFailed(s) THEN [ExitCode |-> 1, Signal |-> 0, Err |-> TRUE]
                   ELSE [ExitCode |-> 0, Signal |-> 0, Err |-> FALSE]

(* The result of a unit read in ActiveState s whose exit status was read   *)
(* as st.  A read that failed is st = NotExited: the code takes the same   *)
(* fallback for an error and for a process that never exited.              *)
BuildExitResult(s, st) ==
    IF ExitResultFromStatus(st) # NoResult THEN ExitResultFromStatus(st)
                                           ELSE FallbackResult(s)
=============================================================================
