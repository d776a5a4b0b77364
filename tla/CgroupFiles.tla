---------------------------- MODULE CgroupFiles -----------------------------
(***************************************************************************)
(* Reading a cgroup's accounting files (pkg/systemd/cgroup.go): a line of  *)
(* memory.stat is one of the two keys that are wanted, another key, or one *)
(* that does not parse.                                                    *)
(***************************************************************************)
EXTENDS Integers, Sequences, SequencesExt

Lines == {"anon", "file", "other", "malformed"}
Wanted == {"anon", "file"}

(* scanCgroupKeyValue with getCgroupV2Stats' function: Measured grows by   *)
(* each wanted key, and the scan stops once both are in hand.              *)
ScanLine(found, line) ==
    IF Wanted \subseteq Range(found) \/ line \notin Wanted THEN found
                                                        ELSE Append(found, line)

MemoryStat(lines) == FoldLeft(ScanLine, <<>>, lines)

(* Each key is measured exactly when the file holds it, in whatever order, *)
(* between whatever lines a kernel may have added (scanCgroupKeyValue).    *)
MeasuredAsHeld(MaxLines) == \A lines \in BoundedSeq(Lines, MaxLines) :
    (\A i, j \in 1..Len(lines) : lines[i] = lines[j] /\ lines[i] \in Wanted => i = j) =>
        /\ Range(MemoryStat(lines)) = Range(lines) \cap Wanted
        /\ IsInjective(MemoryStat(lines))
=============================================================================
