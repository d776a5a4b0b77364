--------------------------- MODULE MCDriverTasks ----------------------------
(***************************************************************************)
(* DriverTasks for TLC: two tasks that contend for the same units.         *)
(***************************************************************************)
EXTENDS DriverTasks, TLC

MCSymmetry == Permutations(Tasks) \cup Permutations(Units)
                \cup Permutations(Calls) \cup Permutations(Ids)
=============================================================================
